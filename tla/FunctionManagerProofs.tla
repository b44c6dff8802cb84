----------------------- MODULE FunctionManagerProofs -----------------------
(***************************************************************************)
(* Theorems about tinyFaaS's management service for any functions, any     *)
(* number of requests and any number of faults.                            *)
(***************************************************************************)
EXTENDS FunctionManager, FiniteSets, FiniteSetTheorems, TLAPS

USE ManagerAssumption, NoneAssumption

\* A request goes on, or ends, outside the critical section.
LEMMA ContinueLabel ==
  ASSUME NEW r \in Req
  PROVE  Continue(r) \in Label \ Critical /\ "done" \in Label \ Critical
BY DEF Continue, Label, Critical

\* A step that keeps the lock keeps LockHeld if it moves within the critical
\* section or within its complement.
LEMMA LockKept ==
  ASSUME TypeOK, NEW r \in Req, NEW label \in Label,
         Goto(r, label), mutex' = mutex, pc[r] \in Critical <=> label \in Critical
  PROVE  pc' \in [Req -> Label] /\ mutex' \in Req \union {None} /\ LockHeld'
BY DEF TypeOK, Goto, LockHeld

\* Return and Panic free the lock.
LEMMA LockFreed ==
  ASSUME TypeOK, NEW r \in Req, pc[r] \in Critical, Return(r) \/ Panic(r)
  PROVE  pc' \in [Req -> Label] /\ mutex' \in Req \union {None} /\ LockHeld'
<1>1. PICK label \in Label \ Critical : Goto(r, label) /\ mutex' = None
  BY ContinueLabel DEF Return, Panic
<1>2. \A q \in Req : q # r => pc[q] \notin Critical
  BY DEF TypeOK, LockHeld
<1>3. pc' = [pc EXCEPT ![r] = label]
  BY <1>1 DEF Goto
<1>4. \A q \in Req : pc'[q] \notin Critical /\ mutex' # q
  BY <1>1, <1>2, <1>3, NoneAssumption DEF TypeOK, None
<1> QED
  BY <1>1, <1>3, <1>4 DEF TypeOK, LockHeld

\* The counter of faults stays within its bound.
LEMMA FaultType ==
  ASSUME TypeOK, Fault \/ NoFault
  PROVE  faults' \in 0 .. MaxFaults
BY DEF TypeOK, Fault, NoFault

\* A post changes routes only to a handler or to none.
LEMMA PostType ==
  ASSUME TypeOK, NEW n \in Name, NEW h \in Handler \union {0}, NEW threads \in Nat,
         NEW answer \in Answer, Post(n, h, threads, answer)
  PROVE  /\ hosts' \in [Name -> Handler \union {0}]
         /\ Fault \/ NoFault
         /\ \A m \in Name \ {n} : hosts'[m] = hosts[m]
         /\ hosts'[n] \in {hosts[n], IF threads > 0 THEN h ELSE 0}
         /\ rproxy /\ answer = "ok" => hosts'[n] = IF threads > 0 THEN h ELSE 0
         /\ answer = "ok" => rproxy
BY DEF TypeOK, Post, SetRoute, RouteAnswer

\* What a Docker call leaves of one handler changes no other.
LEMMA LeaveType ==
  ASSUME TypeOK, NEW h \in Handler, NEW c \in Containers, NEW n \in BOOLEAN, Leave(h, c, n)
  PROVE  /\ docker' \in [Handler -> [containers : Containers, network : BOOLEAN]]
         /\ \A g \in Handler \ {h} : docker'[g] = docker[g]
         /\ docker'[h].containers = c
BY DEF TypeOK, Leave

\* Destroying a handler leaves the others alone.
LEMMA DestroyType ==
  ASSUME TypeOK, NEW h \in Handler, NEW ok \in BOOLEAN, Destroy(h, ok)
  PROVE  /\ docker' \in [Handler -> [containers : Containers, network : BOOLEAN]]
         /\ Fault \/ NoFault
         /\ \A g \in Handler \ {h} : docker'[g] = docker[g]
<1>1. CASE UNCHANGED docker
  BY <1>1 DEF TypeOK, Destroy
<1>2. ASSUME NEW c \in {"none", "created"}, NEW n \in BOOLEAN, Leave(h, c, n)
      PROVE  /\ docker' \in [Handler -> [containers : Containers, network : BOOLEAN]]
             /\ \A g \in Handler \ {h} : docker'[g] = docker[g]
  BY <1>2, LeaveType DEF Containers
<1>3. UNCHANGED docker \/ \E c \in {"none", "created"}, n \in BOOLEAN : Leave(h, c, n)
  BY DEF Destroy
<1>4. Fault \/ NoFault
  BY DEF Destroy
<1> QED
  BY <1>1, <1>2, <1>3, <1>4

\* The locals of one request change.
LEMMA LocalType ==
  ASSUME TypeOK, NEW r \in Req, NEW new \in Locals, loc' = [loc EXCEPT ![r] = new]
  PROVE  loc' \in [Req -> Locals] /\ loc'[r] = new /\ \A q \in Req \ {r} : loc'[q] = loc[q]
BY DEF TypeOK

-----------------------------------------------------------------------------
(***************************************************************************)
(* The inductive invariant                                                 *)
(***************************************************************************)

\* Handler h was created for function n.
For(n, h) == h \in 1 .. Len(created) /\ created[h] = n

\* The control states in which the local old, and the local fh, is in use.
HasOld == {"lockUpload", "create", "store", "start", "notifyAdd", "destroyOld"}
HasNew == {"store", "start", "notifyAdd", "destroyOld"}
HasHandler == {"lockDelete", "destroy", "notifyDel", "remove"}

\* What a request knows of the handlers it holds: they were made for its
\* function, the new one is not the old one, it is routed only after Start, and
\* the old one is not routed any more when it is destroyed.
LocalOK(r) ==
    /\ pc[r] \notin {"idle", "range", "done"} => loc[r].name \in Name
    /\ pc[r] \in HasOld => loc[r].old = 0 \/ For(loc[r].name, loc[r].old)
    /\ pc[r] \in HasNew => For(loc[r].name, loc[r].fh) /\ loc[r].fh # loc[r].old
    /\ pc[r] \in HasHandler => For(loc[r].name, loc[r].fh)
    /\ pc[r] \in {"store", "start"} => \A n \in Name : hosts[n] # loc[r].fh
    /\ pc[r] = "notifyAdd" /\ loc[r].threads > 0 => docker[loc[r].fh].containers = "ready"
    /\ pc[r] = "destroyOld" => loc[r].old # 0 /\ hosts[loc[r].name] \in {0, loc[r].fh}

\* Registered and routed handlers were made for the function they stand for.
TablesInv ==
    \A n \in Name :
        /\ functionHandlers[n] = 0 \/ For(n, functionHandlers[n])
        /\ hosts[n] = 0 \/ For(n, hosts[n])

IInv == TypeOK /\ TablesInv /\ \A r \in Req : LocalOK(r)

\* A handler stays the handler of its function.
LEMMA ForKept ==
  ASSUME TypeOK,
         created' = created \/ \E n \in Name : created' = Append(created, n)
  PROVE  \A n, h : For(n, h) => For(n, h)'
BY DEF TypeOK, For

\* What a request knows survives the steps of the others: outside the critical
\* section they touch nothing it relies on, and only one is inside.
LEMMA OthersKept ==
  ASSUME IInv, NEW r \in Req, NEW q \in Req, q # r,
         pc'[q] = pc[q], loc'[q] = loc[q],
         created' = created \/ \E n \in Name : created' = Append(created, n),
         \/ pc[r] \in Critical
         \/ UNCHANGED docker /\ (hosts' = hosts \/ hosts' = [n \in Name |-> 0])
  PROVE  LocalOK(q)'
<1>1. \A n, h : For(n, h) => For(n, h)'
  BY ForKept DEF IInv
<1>2. LocalOK(q)
  BY DEF IInv
<1>3. CASE pc[r] \in Critical
  <2>1. pc[q] \notin Critical
    BY <1>3 DEF IInv, TypeOK, LockHeld
  <2> QED
    BY <1>1, <1>2, <2>1 DEF LocalOK, Critical, HasOld, HasNew, HasHandler
<1>4. CASE UNCHANGED docker /\ (hosts' = hosts \/ hosts' = [n \in Name |-> 0])
  <2>1. pc[q] \in HasNew => loc[q].fh # 0
    BY <1>2 DEF LocalOK, For
  <2>2. CASE hosts' = hosts
    BY <1>1, <1>2, <1>4, <2>2 DEF LocalOK
  <2>3. CASE hosts' = [n \in Name |-> 0]
    BY <1>1, <1>2, <1>4, <2>1, <2>3 DEF LocalOK, HasNew
  <2> QED
    BY <1>4, <2>2, <2>3
<1> QED
  BY <1>3, <1>4

\* A step outside the critical section keeps the invariant if it leaves the
\* tables alone and its own request in a consistent state.
LEMMA OutsideStep ==
  ASSUME IInv, NEW r \in Req, NEW label \in Label \ Critical, NEW new \in Locals,
         pc[r] \notin Critical, Goto(r, label), loc' = [loc EXCEPT ![r] = new],
         UNCHANGED <<functionHandlers, mutex, docker, created, faults>>,
         hosts' = hosts \/ hosts' = [n \in Name |-> 0],
         rproxy' \in BOOLEAN, manager' \in {"up", "crashed", "exited"},
         LocalOK(r)'
  PROVE  IInv'
<1>1. pc' \in [Req -> Label] /\ mutex' \in Req \union {None} /\ LockHeld'
  BY LockKept DEF IInv
<1>2. loc' \in [Req -> Locals] /\ \A q \in Req \ {r} : loc'[q] = loc[q]
  BY LocalType DEF IInv
<1>3. TypeOK'
  BY <1>1, <1>2 DEF IInv, TypeOK
<1>4. \A q \in Req \ {r} : pc'[q] = pc[q]
  BY DEF IInv, TypeOK, Goto
<1>5. ASSUME NEW q \in Req PROVE LocalOK(q)'
  <2>1. CASE q # r
    BY <1>2, <1>4, <2>1, OthersKept
  <2> QED
    BY <2>1
<1>6. TablesInv'
  BY DEF IInv, TablesInv, For
<1> QED
  BY <1>3, <1>5, <1>6 DEF IInv

\* A step inside the critical section keeps the invariant if it keeps the types,
\* the tables and its own request consistent.
LEMMA InsideStep ==
  ASSUME IInv, NEW r \in Req, pc[r] \in Critical,
         pc' \in [Req -> Label], mutex' \in Req \union {None}, LockHeld',
         \A q \in Req \ {r} : pc'[q] = pc[q] /\ loc'[q] = loc[q],
         loc' \in [Req -> Locals],
         docker' \in [Handler -> [containers : Containers, network : BOOLEAN]],
         functionHandlers' \in [Name -> Handler \union {0}],
         hosts' \in [Name -> Handler \union {0}],
         Fault \/ NoFault,
         UNCHANGED rproxy, manager' \in {"up", "crashed", "exited"},
         created' = created \/ \E n \in Name : created' = Append(created, n),
         Len(created') <= MaxHandler,
         TablesInv', LocalOK(r)'
  PROVE  IInv'
<1>1. created' \in Seq(Name)
  <2>1. created \in Seq(Name)
    BY DEF IInv, TypeOK
  <2>2. \A n \in Name : Append(created, n) \in Seq(Name)
    BY <2>1
  <2> QED
    BY <2>1, <2>2
<1>2. TypeOK'
  BY <1>1, FaultType DEF IInv, TypeOK
<1>3. ASSUME NEW q \in Req PROVE LocalOK(q)'
  <2>1. CASE q # r
    BY <2>1, OthersKept
  <2> QED
    BY <2>1
<1> QED
  BY <1>2, <1>3 DEF IInv

-----------------------------------------------------------------------------
(***************************************************************************)
(* Requests arrive, the reads before the lock, and the ranges              *)
(***************************************************************************)

LEMMA BeginUploadKeeps ==
  ASSUME IInv, NEW r \in Req, NEW n \in Name, NEW threads \in Threads, BeginUpload(r, n, threads)
  PROVE  IInv'
<1> DEFINE new == [loc[r] EXCEPT !.op = "upload", !.name = n, !.threads = threads]
<1>1. loc[r] \in Locals
  BY DEF IInv, TypeOK
<1>2. new \in Locals /\ new.name = n
  BY <1>1 DEF Locals
<1>3. loc' = [loc EXCEPT ![r] = new]
  BY DEF BeginUpload
<1>4. loc'[r] = new /\ pc'[r] = "readOld"
  BY <1>3 DEF IInv, TypeOK, BeginUpload, Goto
<1>5. LocalOK(r)'
  BY <1>2, <1>4 DEF LocalOK, HasOld, HasNew, HasHandler
<1>6. "readOld" \in Label \ Critical
  BY DEF Label, Critical
<1> HIDE DEF new
<1> QED
  BY <1>2, <1>3, <1>5, <1>6, OutsideStep DEF BeginUpload, tables, IInv, TypeOK, Critical

LEMMA BeginDeleteKeeps ==
  ASSUME IInv, NEW r \in Req, NEW n \in Name, BeginDelete(r, n)
  PROVE  IInv'
<1> DEFINE new == [loc[r] EXCEPT !.op = "delete", !.name = n]
<1>1. loc[r] \in Locals
  BY DEF IInv, TypeOK
<1>2. new \in Locals /\ new.name = n
  BY <1>1 DEF Locals
<1>3. loc' = [loc EXCEPT ![r] = new]
  BY DEF BeginDelete
<1>4. loc'[r] = new /\ pc'[r] = "readHandler"
  BY <1>3 DEF IInv, TypeOK, BeginDelete, Goto
<1>5. LocalOK(r)'
  BY <1>2, <1>4 DEF LocalOK, HasOld, HasNew, HasHandler
<1>6. "readHandler" \in Label \ Critical
  BY DEF Label, Critical
<1> HIDE DEF new
<1> QED
  BY <1>2, <1>3, <1>5, <1>6, OutsideStep DEF BeginDelete, tables, IInv, TypeOK, Critical

LEMMA BeginWipeKeeps ==
  ASSUME IInv, NEW r \in Req, BeginWipe(r)
  PROVE  IInv'
<1> DEFINE new == [loc[r] EXCEPT !.op = "wipe", !.range = Registered]
<1>1. loc[r] \in Locals
  BY DEF IInv, TypeOK
<1>2. new \in Locals
  BY <1>1 DEF Locals, Registered
<1>3. loc' = [loc EXCEPT ![r] = new]
  BY DEF BeginWipe
<1>4. pc'[r] = "range"
  BY DEF IInv, TypeOK, BeginWipe, Goto
<1>5. LocalOK(r)'
  BY <1>4 DEF LocalOK, HasOld, HasNew, HasHandler
<1>6. "range" \in Label \ Critical
  BY DEF Label, Critical
<1> HIDE DEF new
<1> QED
  BY <1>2, <1>3, <1>5, <1>6, OutsideStep DEF BeginWipe, tables, IInv, TypeOK, Critical

LEMMA BeginStopKeeps ==
  ASSUME IInv, NEW r \in Req, BeginStop(r)
  PROVE  IInv'
<1> DEFINE new == [loc[r] EXCEPT !.op = "stop", !.range = Registered]
<1>1. loc[r] \in Locals
  BY DEF IInv, TypeOK
<1>2. new \in Locals
  BY <1>1 DEF Locals, Registered
<1>3. loc' = [loc EXCEPT ![r] = new]
  BY DEF BeginStop
<1>4. pc'[r] = "range"
  BY DEF IInv, TypeOK, BeginStop, Goto
<1>5. LocalOK(r)'
  BY <1>4 DEF LocalOK, HasOld, HasNew, HasHandler
<1>6. "range" \in Label \ Critical
  BY DEF Label, Critical
<1> HIDE DEF new
<1> QED
  BY <1>2, <1>3, <1>5, <1>6, OutsideStep DEF BeginStop, tables, IInv, TypeOK, Critical

LEMMA ReadOldKeeps ==
  ASSUME IInv, NEW r \in Req, ReadOld(r)
  PROVE  IInv'
<1> DEFINE new == [loc[r] EXCEPT !.old = functionHandlers[loc[r].name]]
<1>1. loc[r] \in Locals /\ loc[r].name \in Name
  BY DEF IInv, TypeOK, LocalOK, ReadOld
<1>2. functionHandlers[loc[r].name] \in Handler \union {0}
  BY <1>1 DEF IInv, TypeOK
<1>3. new \in Locals /\ new.name = loc[r].name /\ new.old = functionHandlers[loc[r].name]
  BY <1>1, <1>2 DEF Locals
<1>4. loc' = [loc EXCEPT ![r] = new]
  BY DEF ReadOld
<1>5. loc'[r] = new /\ pc'[r] = "lockUpload"
  BY <1>4 DEF IInv, TypeOK, ReadOld, Goto
<1>6. new.old = 0 \/ For(new.name, new.old)
  BY <1>1, <1>3 DEF IInv, TablesInv
<1>7. created' = created
  BY DEF ReadOld
<1>8. LocalOK(r)'
  BY <1>1, <1>3, <1>5, <1>6, <1>7 DEF LocalOK, HasNew, HasHandler, For
<1>9. "lockUpload" \in Label \ Critical
  BY DEF Label, Critical
<1> HIDE DEF new
<1> QED
  BY <1>3, <1>4, <1>8, <1>9, OutsideStep DEF ReadOld, tables, IInv, TypeOK, Critical

LEMMA ReadHandlerKeeps ==
  ASSUME IInv, NEW r \in Req, ReadHandler(r)
  PROVE  IInv'
<1>1. loc[r] \in Locals /\ loc[r].name \in Name
  BY DEF IInv, TypeOK, LocalOK, ReadHandler
<1>2. CASE functionHandlers[loc[r].name] = 0
  <2>1. loc' = [loc EXCEPT ![r] = loc[r]] /\ pc'[r] \in {"range", "done"}
    BY <1>2 DEF IInv, TypeOK, ReadHandler, Goto, Continue
  <2>2. LocalOK(r)'
    BY <2>1 DEF LocalOK, HasOld, HasNew, HasHandler
  <2> QED
    BY <1>1, <1>2, <2>1, <2>2, ContinueLabel, OutsideStep
       DEF ReadHandler, tables, IInv, TypeOK, Critical
<1>3. CASE functionHandlers[loc[r].name] # 0
  <2> DEFINE new == [loc[r] EXCEPT !.fh = functionHandlers[loc[r].name]]
  <2>1. functionHandlers[loc[r].name] \in Handler
    BY <1>1, <1>3 DEF IInv, TypeOK
  <2>2. new \in Locals /\ new.name = loc[r].name /\ new.fh = functionHandlers[loc[r].name]
    BY <1>1, <2>1 DEF Locals
  <2>3. loc' = [loc EXCEPT ![r] = new]
    BY <1>3 DEF ReadHandler
  <2>4. loc'[r] = new /\ pc'[r] = "lockDelete"
    BY <1>3, <2>3 DEF IInv, TypeOK, ReadHandler, Goto
  <2>5. For(new.name, new.fh) /\ created' = created
    BY <1>1, <1>3, <2>2 DEF IInv, TablesInv, ReadHandler
  <2>6. LocalOK(r)'
    BY <1>1, <2>2, <2>4, <2>5 DEF LocalOK, HasOld, HasNew, HasHandler, For
  <2>7. "lockDelete" \in Label \ Critical
    BY DEF Label, Critical
  <2> HIDE DEF new
  <2> QED
    BY <1>3, <2>2, <2>3, <2>6, <2>7, OutsideStep
       DEF ReadHandler, tables, IInv, TypeOK, Critical
<1> QED
  BY <1>2, <1>3

LEMMA RangeNextKeeps ==
  ASSUME IInv, NEW r \in Req, RangeNext(r)
  PROVE  IInv'
<1>1. PICK n \in Registered :
        loc' = [loc EXCEPT ![r] = [loc[r] EXCEPT !.name = n, !.seen = @ \union {n}]]
  BY DEF RangeNext
<1> DEFINE new == [loc[r] EXCEPT !.name = n, !.seen = @ \union {n}]
<1>2. loc[r] \in Locals /\ n \in Name
  BY DEF IInv, TypeOK, Registered
<1>3. new \in Locals /\ new.name = n
  BY <1>2 DEF Locals
<1>4. loc'[r] = new /\ pc'[r] = "readHandler"
  BY <1>1 DEF IInv, TypeOK, RangeNext, Goto
<1>5. LocalOK(r)'
  BY <1>2, <1>3, <1>4 DEF LocalOK, HasOld, HasNew, HasHandler
<1>6. "readHandler" \in Label \ Critical
  BY DEF Label, Critical
<1>7. loc' = [loc EXCEPT ![r] = new]
  BY <1>1
<1> HIDE DEF new
<1> QED
  BY <1>3, <1>5, <1>6, <1>7, OutsideStep DEF RangeNext, tables, IInv, TypeOK, Critical

LEMMA RangeEndKeeps ==
  ASSUME IInv, NEW r \in Req, RangeEnd(r)
  PROVE  IInv'
<1>1. loc' = [loc EXCEPT ![r] = loc[r]] /\ loc[r] \in Locals /\ pc'[r] = "done"
  BY DEF IInv, TypeOK, RangeEnd, Goto
<1>2. LocalOK(r)'
  BY <1>1 DEF LocalOK, HasOld, HasNew, HasHandler
<1>3. manager' \in {"up", "crashed", "exited"}
  BY DEF IInv, TypeOK, RangeEnd
<1> QED
  BY <1>1, <1>2, <1>3, ContinueLabel, OutsideStep DEF RangeEnd, tables, IInv, TypeOK, Critical

\* The lock is free only if nobody is in the critical section.
LEMMA LockKeeps ==
  ASSUME IInv, NEW r \in Req, Lock(r)
  PROVE  IInv'
<1>1. PICK label \in {"create", "destroy"} : Goto(r, label) /\ mutex' = r
  BY DEF Lock
<1>2. \A q \in Req : pc[q] \notin Critical
  BY DEF IInv, TypeOK, LockHeld, Lock, None
<1>3. pc' = [pc EXCEPT ![r] = label] /\ label \in Label /\ label \in Critical
  BY <1>1 DEF Goto, Label, Critical
<1>4. pc' \in [Req -> Label] /\ mutex' \in Req \union {None} /\ LockHeld'
  BY <1>1, <1>2, <1>3 DEF IInv, TypeOK, LockHeld
<1>5. TypeOK'
  BY <1>4 DEF IInv, TypeOK, Lock, tables
<1>6. \/ pc[r] = "lockUpload" /\ pc'[r] = "create"
      \/ pc[r] = "lockDelete" /\ pc'[r] = "destroy"
  <2>1. CASE pc[r] = "lockUpload"
    <3>1. Goto(r, "create")
      BY <2>1 DEF Lock
    <3> QED
      BY <2>1, <3>1 DEF IInv, TypeOK, Goto
  <2>2. CASE pc[r] = "lockDelete"
    <3>1. Goto(r, "destroy")
      BY <2>2 DEF Lock
    <3> QED
      BY <2>2, <3>1 DEF IInv, TypeOK, Goto
  <2> QED
    BY <2>1, <2>2 DEF Lock
<1>7. UNCHANGED <<hosts, docker, created, loc>>
  BY DEF Lock, tables
<1>8. LocalOK(r)'
  <2>1. LocalOK(r)
    BY DEF IInv
  <2> QED
    BY <1>6, <1>7, <2>1 DEF LocalOK, HasOld, HasNew, HasHandler, For
<1>9. ASSUME NEW q \in Req PROVE LocalOK(q)'
  <2>1. CASE q # r
    <3>1. pc'[q] = pc[q]
      BY <1>3, <2>1 DEF IInv, TypeOK
    <3> QED
      BY <1>7, <2>1, <3>1, OthersKept
  <2> QED
    BY <1>8, <2>1
<1>10. TablesInv'
  BY DEF IInv, TablesInv, For, Lock, tables
<1> QED
  BY <1>5, <1>9, <1>10 DEF IInv

-----------------------------------------------------------------------------
(***************************************************************************)
(* The critical section                                                    *)
(***************************************************************************)

\* After Return or Panic the request holds no handler.
LEMMA ReturnFacts ==
  ASSUME IInv, NEW r \in Req, pc[r] \in Critical, Return(r) \/ Panic(r)
  PROVE  /\ pc' \in [Req -> Label] /\ mutex' \in Req \union {None} /\ LockHeld'
         /\ \A q \in Req \ {r} : pc'[q] = pc[q]
         /\ LocalOK(r)'
<1>1. pc' \in [Req -> Label] /\ mutex' \in Req \union {None} /\ LockHeld'
  BY LockFreed DEF IInv
<1>2. pc'[r] \in {"range", "done"} /\ \A q \in Req \ {r} : pc'[q] = pc[q]
  BY DEF IInv, TypeOK, Return, Panic, Goto, Continue
<1>3. LocalOK(r)'
  BY <1>2 DEF LocalOK, HasOld, HasNew, HasHandler
<1> QED
  BY <1>1, <1>2, <1>3

\* A step that goes on inside the critical section.
LEMMA GotoFacts ==
  ASSUME IInv, NEW r \in Req, pc[r] \in Critical, NEW label \in Critical,
         Goto(r, label), mutex' = mutex
  PROVE  /\ pc' \in [Req -> Label] /\ mutex' \in Req \union {None} /\ LockHeld'
         /\ \A q \in Req \ {r} : pc'[q] = pc[q]
         /\ pc'[r] = label
<1>1. label \in Label
  BY DEF Label
<1>2. pc' \in [Req -> Label] /\ mutex' \in Req \union {None} /\ LockHeld'
  BY <1>1, LockKept DEF IInv
<1> QED
  BY <1>1, <1>2 DEF IInv, TypeOK, Goto

\* Handler numbers never exceed the bound.
LEMMA ForHandler ==
  ASSUME IInv
  PROVE  \A n, h : For(n, h) => h \in Handler
BY DEF IInv, TypeOK, For, Handler

LEMMA CreateKeeps ==
  ASSUME IInv, NEW r \in Req, Create(r)
  PROVE  IInv'
<1> DEFINE h == Len(created) + 1
<1>1. pc[r] = "create" /\ pc[r] \in Critical /\ loc[r] \in Locals /\ loc[r].name \in Name
  BY DEF IInv, TypeOK, LocalOK, Create, Critical
<1>2. created' = Append(created, loc[r].name) /\ created \in Seq(Name)
  BY DEF Create, IInv, TypeOK
<1>3. Len(created') = h /\ h \in Handler /\ h <= MaxHandler /\ created'[h] = loc[r].name
  BY <1>1, <1>2 DEF Create, IInv, TypeOK, Handler
<1>4. h \in 1 .. Len(created')
  BY <1>2, <1>3
<1>5. \A n, g : For(n, g) => For(n, g)' /\ g # Len(created) + 1
  <2>1. \A n, g : For(n, g) => For(n, g)'
    BY <1>1, <1>2, ForKept DEF IInv
  <2> QED
    BY <1>2, <2>1 DEF For
<1>6. TablesInv'
  BY <1>5 DEF IInv, TablesInv, Create, tables
<1>7. UNCHANGED <<functionHandlers, hosts, manager, rproxy>>
  BY DEF Create, tables
<1>8. CASE /\ Leave(Len(created'), IF loc[r].threads = 0 THEN "none" ELSE "created", TRUE)
           /\ loc' = [loc EXCEPT ![r].fh = Len(created')]
           /\ Goto(r, "store") /\ NoFault /\ UNCHANGED mutex
  <2> DEFINE new == [loc[r] EXCEPT !.fh = h]
  <2>1. new \in Locals /\ new.fh = h /\ new.name = loc[r].name /\ new.old = loc[r].old
    BY <1>1, <1>3 DEF Locals
  <2>2. loc' = [loc EXCEPT ![r] = new]
    BY <1>3, <1>8
  <2>3. loc' \in [Req -> Locals] /\ loc'[r] = new /\ \A q \in Req \ {r} : loc'[q] = loc[q]
    BY <2>1, <2>2, LocalType DEF IInv
  <2>4. docker' \in [Handler -> [containers : Containers, network : BOOLEAN]]
    BY <1>3, <1>8, LeaveType DEF Containers, IInv
  <2>5. "store" \in Critical
    BY DEF Critical
  <2>6. /\ pc' \in [Req -> Label] /\ mutex' \in Req \union {None} /\ LockHeld'
        /\ \A q \in Req \ {r} : pc'[q] = pc[q]
        /\ pc'[r] = "store"
    BY <1>1, <1>8, <2>5, GotoFacts
  <2>7. loc[r].old = 0 \/ For(loc[r].name, loc[r].old)
    BY <1>1 DEF IInv, LocalOK, HasOld
  <2>8. \A n \in Name : hosts'[n] # h
    BY <1>3, <1>5, <1>7 DEF IInv, TablesInv, Handler
  <2>9. h # loc[r].old
    BY <1>3, <1>5, <2>7 DEF Handler
  <2>10. LocalOK(r)'
    <3>1. \/ loc'[r].old = 0
          \/ loc'[r].old \in 1 .. Len(created') /\ created'[loc'[r].old] = loc'[r].name
      BY <1>5, <2>1, <2>3, <2>7 DEF For
    <3>2. /\ loc'[r].fh \in 1 .. Len(created') /\ created'[loc'[r].fh] = loc'[r].name
          /\ loc'[r].fh # loc'[r].old
      BY <1>3, <1>4, <2>1, <2>3, <2>9
    <3>3. loc'[r].name \in Name /\ \A n \in Name : hosts'[n] # loc'[r].fh
      BY <1>1, <2>1, <2>3, <2>8
    <3> HIDE DEF new, h
    <3> QED
      BY <2>6, <3>1, <3>2, <3>3 DEF LocalOK, HasHandler, For
  <2> HIDE DEF new, h
  <2> QED
    BY <1>1, <1>2, <1>3, <1>6, <1>7, <1>8, <2>3, <2>4, <2>6, <2>10, InsideStep
       DEF IInv, TypeOK
<1>9. CASE /\ \E c \in {"none", "created"}, n \in BOOLEAN :
                 (c = "created" => n) /\ Leave(Len(created'), c, n)
           /\ Return(r) /\ Fault /\ UNCHANGED loc
  <2>1. docker' \in [Handler -> [containers : Containers, network : BOOLEAN]]
    <3>1. PICK c \in {"none", "created"}, n \in BOOLEAN : Leave(h, c, n)
      BY <1>3, <1>9
    <3> QED
      BY <1>3, <3>1, LeaveType DEF Containers, IInv
  <2> HIDE DEF h
  <2> QED
    BY <1>1, <1>2, <1>3, <1>6, <1>7, <1>9, <2>1, ReturnFacts, InsideStep
       DEF IInv, TypeOK
<1> QED
  BY <1>8, <1>9 DEF Create

LEMMA StoreKeeps ==
  ASSUME IInv, NEW r \in Req, Store(r)
  PROVE  IInv'
<1>1. pc[r] = "store" /\ pc[r] \in Critical /\ "start" \in Critical /\ loc[r].name \in Name
  BY DEF IInv, LocalOK, Store, Critical
<1>2. /\ pc' \in [Req -> Label] /\ mutex' \in Req \union {None} /\ LockHeld'
      /\ \A q \in Req \ {r} : pc'[q] = pc[q]
      /\ pc'[r] = "start"
  BY <1>1, GotoFacts DEF Store
<1>3. For(loc[r].name, loc[r].fh) /\ loc[r].fh \in Handler
  BY <1>1, ForHandler DEF IInv, LocalOK, HasNew
<1>4. functionHandlers' \in [Name -> Handler \union {0}]
  BY <1>1, <1>3 DEF IInv, TypeOK, Store
<1>5. TablesInv'
  BY <1>1, <1>3 DEF IInv, TypeOK, TablesInv, For, Store
<1>6. UNCHANGED <<hosts, docker, created, loc, manager, rproxy, faults>>
  BY DEF Store
<1>7. LocalOK(r)'
  <2>1. LocalOK(r)
    BY DEF IInv
  <2> QED
    BY <1>1, <1>2, <1>6, <2>1 DEF LocalOK, HasOld, HasNew, HasHandler, For
<1> QED
  BY <1>1, <1>2, <1>4, <1>5, <1>6, <1>7, InsideStep DEF IInv, TypeOK, NoFault

LEMMA StartKeeps ==
  ASSUME IInv, NEW r \in Req, Start(r)
  PROVE  IInv'
<1>1. pc[r] = "start" /\ pc[r] \in Critical /\ "notifyAdd" \in Critical
  BY DEF IInv, LocalOK, Start, Critical
<1>2. UNCHANGED <<functionHandlers, hosts, created, loc, manager, rproxy>>
  BY DEF Start, tables
<1>3. TablesInv'
  BY <1>2 DEF IInv, TablesInv, For
<1>4. For(loc[r].name, loc[r].fh) /\ loc[r].fh \in Handler
  BY <1>1, ForHandler DEF IInv, LocalOK, HasNew
<1>5. CASE /\ IF loc[r].threads = 0 THEN UNCHANGED docker
              ELSE Leave(loc[r].fh, "ready", TRUE)
           /\ Goto(r, "notifyAdd") /\ NoFault /\ UNCHANGED mutex
  <2>1. /\ docker' \in [Handler -> [containers : Containers, network : BOOLEAN]]
        /\ loc[r].threads > 0 => docker'[loc[r].fh].containers = "ready"
    <3>1. CASE loc[r].threads = 0
      BY <1>5, <3>1 DEF IInv, TypeOK
    <3>2. CASE loc[r].threads # 0
      BY <1>4, <1>5, <3>2, LeaveType DEF IInv, Containers
    <3> QED
      BY <3>1, <3>2
  <2>2. /\ pc' \in [Req -> Label] /\ mutex' \in Req \union {None} /\ LockHeld'
        /\ \A q \in Req \ {r} : pc'[q] = pc[q]
        /\ pc'[r] = "notifyAdd"
    BY <1>1, <1>5, GotoFacts
  <2>3. LocalOK(r)'
    <3>1. LocalOK(r)
      BY DEF IInv
    <3> QED
      BY <1>1, <1>2, <2>1, <2>2, <3>1 DEF LocalOK, HasOld, HasNew, HasHandler, For
  <2> QED
    BY <1>1, <1>2, <1>3, <1>5, <2>1, <2>2, <2>3, InsideStep DEF IInv, TypeOK
<1>6. CASE /\ loc[r].threads > 0
           /\ \E c \in {"created", "started"} : Leave(loc[r].fh, c, TRUE)
           /\ Return(r) /\ Fault
  <2>1. docker' \in [Handler -> [containers : Containers, network : BOOLEAN]]
    BY <1>4, <1>6, LeaveType DEF IInv, Containers
  <2> QED
    BY <1>1, <1>2, <1>3, <1>6, <2>1, ReturnFacts, InsideStep DEF IInv, TypeOK
<1> QED
  BY <1>5, <1>6 DEF Start

LEMMA NotifyAddKeeps ==
  ASSUME IInv, NEW r \in Req, NotifyAdd(r)
  PROVE  IInv'
<1>1. /\ pc[r] = "notifyAdd" /\ pc[r] \in Critical /\ "destroyOld" \in Critical
      /\ loc[r] \in Locals /\ loc[r].name \in Name /\ loc[r].threads \in Nat
  BY DEF IInv, TypeOK, LocalOK, NotifyAdd, Critical, Locals
<1>2. For(loc[r].name, loc[r].fh) /\ loc[r].fh \in Handler
  BY <1>1, ForHandler DEF IInv, LocalOK, HasNew
<1>3. /\ UNCHANGED <<functionHandlers, docker, created, loc, rproxy>>
      /\ manager' \in {"up", "crashed", "exited"}
  BY DEF NotifyAdd, Panic, IInv, TypeOK
<1>4. PICK answer \in Answer :
        /\ Post(loc[r].name, loc[r].fh, loc[r].threads, answer)
        /\ \/ answer = "ok" /\ loc[r].old # 0 /\ Goto(r, "destroyOld") /\ UNCHANGED mutex
           \/ answer = "ok" /\ loc[r].old = 0 /\ Return(r)
           \/ answer = "error" /\ Return(r)
           \/ answer = "eof" /\ Panic(r)
  BY DEF NotifyAdd
<1> DEFINE new == IF loc[r].threads > 0 THEN loc[r].fh ELSE 0
<1>5. /\ hosts' \in [Name -> Handler \union {0}]
      /\ Fault \/ NoFault
      /\ \A m \in Name \ {loc[r].name} : hosts'[m] = hosts[m]
      /\ hosts'[loc[r].name] \in {hosts[loc[r].name], new}
      /\ answer = "ok" => hosts'[loc[r].name] = new
  BY <1>1, <1>2, <1>4, PostType DEF IInv
<1>6. TablesInv'
  <2>1. new \in {0, loc[r].fh}
    OBVIOUS
  <2> HIDE DEF new
  <2>2. \A n \in Name : hosts'[n] = 0 \/ For(n, hosts'[n])
    BY <1>1, <1>2, <1>5, <2>1 DEF IInv, TablesInv
  <2> QED
    BY <1>3, <2>2 DEF IInv, TablesInv, For
<1>7. CASE answer = "ok" /\ loc[r].old # 0 /\ Goto(r, "destroyOld") /\ UNCHANGED mutex
  <2>1. /\ pc' \in [Req -> Label] /\ mutex' \in Req \union {None} /\ LockHeld'
        /\ \A q \in Req \ {r} : pc'[q] = pc[q]
        /\ pc'[r] = "destroyOld"
    BY <1>1, <1>7, GotoFacts
  <2>2. LocalOK(r)'
    <3>1. LocalOK(r)
      BY DEF IInv
    <3> QED
      BY <1>1, <1>3, <1>5, <1>7, <2>1, <3>1 DEF LocalOK, HasOld, HasNew, HasHandler, For
  <2> QED
    BY <1>1, <1>3, <1>5, <1>6, <2>1, <2>2, InsideStep DEF IInv, TypeOK
<1>8. CASE Return(r) \/ Panic(r)
  BY <1>1, <1>3, <1>5, <1>6, <1>8, ReturnFacts, InsideStep DEF IInv, TypeOK
<1> QED
  BY <1>4, <1>7, <1>8

LEMMA DestroyOldKeeps ==
  ASSUME IInv, NEW r \in Req, DestroyOld(r)
  PROVE  IInv'
<1>1. pc[r] = "destroyOld" /\ pc[r] \in Critical /\ loc[r].old \in Handler
  BY ForHandler DEF IInv, LocalOK, DestroyOld, Critical, HasOld
<1>2. UNCHANGED <<functionHandlers, hosts, created, loc, manager, rproxy>> /\ Return(r)
  BY DEF DestroyOld, tables
<1>3. TablesInv'
  BY <1>2 DEF IInv, TablesInv, For
<1>4. docker' \in [Handler -> [containers : Containers, network : BOOLEAN]] /\ (Fault \/ NoFault)
  BY <1>1, DestroyType DEF IInv, DestroyOld
<1> QED
  BY <1>1, <1>2, <1>3, <1>4, ReturnFacts, InsideStep DEF IInv, TypeOK

LEMMA DestroyHandlerKeeps ==
  ASSUME IInv, NEW r \in Req, DestroyHandler(r)
  PROVE  IInv'
<1>1. /\ pc[r] = "destroy" /\ pc[r] \in Critical /\ "notifyDel" \in Critical
      /\ loc[r].fh \in Handler
  BY ForHandler DEF IInv, LocalOK, DestroyHandler, Critical, HasHandler
<1>2. UNCHANGED <<functionHandlers, hosts, created, loc, manager, rproxy>>
  BY DEF DestroyHandler, tables
<1>3. TablesInv'
  BY <1>2 DEF IInv, TablesInv, For
<1>4. docker' \in [Handler -> [containers : Containers, network : BOOLEAN]] /\ (Fault \/ NoFault)
  BY <1>1, DestroyType DEF IInv, DestroyHandler
<1>5. CASE Goto(r, "notifyDel") /\ UNCHANGED mutex
  <2>1. /\ pc' \in [Req -> Label] /\ mutex' \in Req \union {None} /\ LockHeld'
        /\ \A q \in Req \ {r} : pc'[q] = pc[q]
        /\ pc'[r] = "notifyDel"
    BY <1>1, <1>5, GotoFacts
  <2>2. LocalOK(r)'
    <3>1. LocalOK(r)
      BY DEF IInv
    <3> QED
      BY <1>1, <1>2, <2>1, <3>1 DEF LocalOK, HasOld, HasNew, HasHandler, For
  <2> QED
    BY <1>1, <1>2, <1>3, <1>4, <2>1, <2>2, InsideStep DEF IInv, TypeOK
<1>6. CASE Return(r)
  BY <1>1, <1>2, <1>3, <1>4, <1>6, ReturnFacts, InsideStep DEF IInv, TypeOK
<1> QED
  BY <1>5, <1>6 DEF DestroyHandler

LEMMA NotifyDelKeeps ==
  ASSUME IInv, NEW r \in Req, NotifyDel(r)
  PROVE  IInv'
<1>1. /\ pc[r] = "notifyDel" /\ pc[r] \in Critical /\ "remove" \in Critical
      /\ loc[r].name \in Name
  BY DEF IInv, LocalOK, NotifyDel, Critical
<1>2. /\ UNCHANGED <<functionHandlers, docker, created, loc, rproxy>>
      /\ manager' \in {"up", "crashed", "exited"}
  BY DEF NotifyDel, Panic, IInv, TypeOK
<1>3. PICK answer \in Answer : Post(loc[r].name, 0, 0, answer)
  BY DEF NotifyDel
<1>4. /\ hosts' \in [Name -> Handler \union {0}]
      /\ Fault \/ NoFault
      /\ \A m \in Name \ {loc[r].name} : hosts'[m] = hosts[m]
      /\ hosts'[loc[r].name] \in {hosts[loc[r].name], 0}
  BY <1>1, <1>3, PostType DEF IInv
<1>5. TablesInv'
  <2>1. \A n \in Name : hosts'[n] = 0 \/ hosts'[n] = hosts[n]
    BY <1>1, <1>4
  <2> QED
    BY <1>2, <2>1 DEF IInv, TablesInv, For
<1>6. CASE Goto(r, "remove") /\ UNCHANGED mutex
  <2>1. /\ pc' \in [Req -> Label] /\ mutex' \in Req \union {None} /\ LockHeld'
        /\ \A q \in Req \ {r} : pc'[q] = pc[q]
        /\ pc'[r] = "remove"
    BY <1>1, <1>6, GotoFacts
  <2>2. LocalOK(r)'
    <3>1. LocalOK(r)
      BY DEF IInv
    <3> QED
      BY <1>1, <1>2, <2>1, <3>1 DEF LocalOK, HasOld, HasNew, HasHandler, For
  <2> QED
    BY <1>1, <1>2, <1>4, <1>5, <2>1, <2>2, InsideStep DEF IInv, TypeOK
<1>7. CASE Return(r) \/ Panic(r)
  BY <1>1, <1>2, <1>4, <1>5, <1>7, ReturnFacts, InsideStep DEF IInv, TypeOK
<1> QED
  BY <1>6, <1>7 DEF NotifyDel

LEMMA RemoveKeeps ==
  ASSUME IInv, NEW r \in Req, Remove(r)
  PROVE  IInv'
<1>1. pc[r] = "remove" /\ pc[r] \in Critical
  BY DEF Remove, Critical
<1>2. UNCHANGED <<hosts, docker, created, loc, manager, rproxy, faults>> /\ Return(r)
  BY DEF Remove
<1>3. functionHandlers' \in [Name -> Handler \union {0}]
  BY DEF IInv, TypeOK, Remove
<1>4. TablesInv'
  BY <1>2 DEF IInv, TypeOK, TablesInv, For, Remove
<1> QED
  BY <1>1, <1>2, <1>3, <1>4, ReturnFacts, InsideStep DEF IInv, TypeOK, NoFault

-----------------------------------------------------------------------------
(***************************************************************************)
(* The theorems                                                            *)
(***************************************************************************)

\* Every step of a request keeps the invariant.
LEMMA StepKeeps ==
  ASSUME IInv, NEW r \in Req, Step(r)
  PROVE  IInv'
<1>1. CASE ReadOld(r) \/ ReadHandler(r) \/ RangeNext(r) \/ RangeEnd(r) \/ Lock(r)
  BY <1>1, ReadOldKeeps, ReadHandlerKeeps, RangeNextKeeps, RangeEndKeeps, LockKeeps
<1>2. CASE Create(r) \/ Store(r) \/ Start(r) \/ NotifyAdd(r) \/ DestroyOld(r)
  BY <1>2, CreateKeeps, StoreKeeps, StartKeeps, NotifyAddKeeps, DestroyOldKeeps
<1>3. CASE DestroyHandler(r) \/ NotifyDel(r) \/ Remove(r)
  BY <1>3, DestroyHandlerKeeps, NotifyDelKeeps, RemoveKeeps
<1> QED
  BY <1>1, <1>2, <1>3 DEF Step

LEMMA InitHolds == Init => IInv
<1> SUFFICES ASSUME Init PROVE IInv
  OBVIOUS
<1>1. NoLocals \in Locals
  BY DEF NoLocals, Locals
<1>2. NoResources \in [containers : Containers, network : BOOLEAN]
  BY DEF NoResources, Containers
<1>3. LockHeld
  BY DEF Init, LockHeld, Critical, None
<1>4. TypeOK
  BY <1>1, <1>2, <1>3 DEF Init, TypeOK, Label
<1>5. TablesInv
  BY DEF Init, TablesInv
<1>6. \A r \in Req : LocalOK(r)
  BY DEF Init, LocalOK, HasOld, HasNew, HasHandler
<1> QED
  BY <1>4, <1>5, <1>6 DEF IInv

LEMMA NextKeeps == IInv /\ [Next]_vars => IInv'
<1> SUFFICES ASSUME IInv, [Next]_vars PROVE IInv'
  OBVIOUS
<1>1. CASE \E r \in Req : Begin(r)
  <2>1. PICK r \in Req : Begin(r)
    BY <1>1
  <2>2. CASE \E n \in Name, threads \in Threads : BeginUpload(r, n, threads)
    BY <2>2, BeginUploadKeeps
  <2>3. CASE \E n \in Name : BeginDelete(r, n)
    BY <2>3, BeginDeleteKeeps
  <2>4. CASE BeginWipe(r) \/ BeginStop(r)
    BY <2>4, BeginWipeKeeps, BeginStopKeeps
  <2> QED
    BY <2>1, <2>2, <2>3, <2>4 DEF Begin
<1>2. CASE \E r \in Req : Step(r)
  BY <1>2, StepKeeps
<1>3. CASE MapRace
  BY <1>3 DEF MapRace, tables, IInv, TypeOK, LockHeld, TablesInv, For, LocalOK
<1>4. CASE UNCHANGED vars
  BY <1>4 DEF vars, IInv, TypeOK, LockHeld, TablesInv, For, LocalOK
<1> QED
  BY <1>1, <1>2, <1>3, <1>4 DEF Next

LEMMA Inductive == Spec => []IInv
  BY InitHolds, NextKeeps, PTL DEF Spec

\* Types are kept and the lock is held by exactly the request in the critical
\* section (TypeOK), for any number of requests.
THEOREM TypeInvariant == Spec => []TypeOK
<1>1. IInv => TypeOK
  BY DEF IInv
<1> QED
  BY <1>1, Inductive, PTL

\* No step that is not a delete's, a zero-thread upload's or the end of rproxy
\* takes a served function out of service.
LEMMA ServedStep ==
  ASSUME IInv, NEW r \in Req, Step(r), NEW n \in Name, Served(n),
         ~(loc[r].name = n /\ pc[r] \in {"destroy", "notifyDel"}),
         ~(loc[r].name = n /\ pc[r] = "notifyAdd" /\ loc[r].threads = 0)
  PROVE  Served(n)'
<1>1. hosts[n] \in Handler /\ For(n, hosts[n]) /\ docker[hosts[n]].containers = "ready"
  BY DEF Served, IInv, TypeOK, TablesInv
<1>2. CASE UNCHANGED <<hosts, docker>>
  BY <1>2 DEF Served
<1>3. CASE Create(r)
  <2>1. hosts[n] # Len(created')
    BY <1>1, <1>3 DEF IInv, TypeOK, For, Create
  <2>2. docker'[hosts[n]] = docker[hosts[n]] /\ hosts' = hosts
    BY <1>1, <1>3, <2>1 DEF IInv, TypeOK, Create, Leave, tables
  <2> QED
    BY <1>1, <2>2 DEF Served, Handler
<1>4. CASE Start(r)
  <2>1. hosts[n] # loc[r].fh
    BY <1>4 DEF IInv, LocalOK, Start
  <2>2. docker'[hosts[n]] = docker[hosts[n]] /\ hosts' = hosts
    BY <1>1, <1>4, <2>1 DEF IInv, TypeOK, Start, Leave, tables
  <2> QED
    BY <1>1, <2>2 DEF Served, Handler
<1>5. CASE NotifyAdd(r)
  <2>1. /\ loc[r].name \in Name /\ loc[r].threads \in Nat /\ loc[r].fh \in Handler
        /\ loc[r].threads > 0 => docker[loc[r].fh].containers = "ready"
    BY <1>5, ForHandler DEF IInv, TypeOK, LocalOK, NotifyAdd, HasNew, Locals
  <2>2. PICK answer \in Answer : Post(loc[r].name, loc[r].fh, loc[r].threads, answer)
    BY <1>5 DEF NotifyAdd
  <2>3. /\ \A m \in Name \ {loc[r].name} : hosts'[m] = hosts[m]
        /\ hosts'[loc[r].name] \in
              {hosts[loc[r].name], IF loc[r].threads > 0 THEN loc[r].fh ELSE 0}
    BY <2>1, <2>2, PostType DEF IInv
  <2>4. docker' = docker /\ pc[r] = "notifyAdd"
    BY <1>5 DEF NotifyAdd
  <2> QED
    BY <1>1, <2>1, <2>3, <2>4 DEF Served, Handler
<1>6. CASE DestroyOld(r)
  <2>1. /\ loc[r].name \in Name /\ loc[r].old \in Handler /\ For(loc[r].name, loc[r].old)
        /\ hosts[loc[r].name] \in {0, loc[r].fh} /\ loc[r].old # loc[r].fh
    BY <1>6, ForHandler DEF IInv, LocalOK, DestroyOld, HasOld, HasNew
  <2>2. hosts[n] # loc[r].old
    BY <1>1, <2>1 DEF For, Handler
  <2>3. PICK ok \in BOOLEAN : Destroy(loc[r].old, ok)
    BY <1>6 DEF DestroyOld
  <2>4. docker'[hosts[n]] = docker[hosts[n]] /\ hosts' = hosts
    BY <1>1, <1>6, <2>1, <2>2, <2>3, DestroyType DEF IInv, DestroyOld, tables
  <2> QED
    BY <1>1, <2>4 DEF Served, Handler
<1>7. CASE DestroyHandler(r)
  <2>1. loc[r].fh \in Handler /\ For(loc[r].name, loc[r].fh) /\ loc[r].name # n
    BY <1>7, ForHandler DEF IInv, LocalOK, DestroyHandler, HasHandler
  <2>2. hosts[n] # loc[r].fh
    BY <1>1, <2>1 DEF For
  <2>3. PICK ok \in BOOLEAN : Destroy(loc[r].fh, ok)
    BY <1>7 DEF DestroyHandler
  <2>4. docker'[hosts[n]] = docker[hosts[n]] /\ hosts' = hosts
    BY <1>1, <1>7, <2>1, <2>2, <2>3, DestroyType DEF IInv, DestroyHandler, tables
  <2> QED
    BY <1>1, <2>4 DEF Served, Handler
<1>8. CASE NotifyDel(r)
  <2>1. loc[r].name \in Name /\ loc[r].name # n
    BY <1>8 DEF IInv, LocalOK, NotifyDel
  <2>2. PICK answer \in Answer : Post(loc[r].name, 0, 0, answer)
    BY <1>8 DEF NotifyDel
  <2>3. hosts'[n] = hosts[n] /\ docker' = docker
    BY <1>8, <2>1, <2>2, PostType DEF IInv, NotifyDel
  <2> QED
    BY <2>3 DEF Served
<1>9. Step(r) =>
        \/ UNCHANGED <<hosts, docker>>
        \/ Create(r) \/ Start(r) \/ NotifyAdd(r) \/ DestroyOld(r)
        \/ DestroyHandler(r) \/ NotifyDel(r)
  BY DEF Step, ReadOld, Lock, Store, ReadHandler, Remove, RangeNext, RangeEnd, tables
<1> QED
  BY <1>2, <1>3, <1>4, <1>5, <1>6, <1>7, <1>8, <1>9

\* An upload never takes a served function out of service, whatever fails and
\* however many requests race (UploadKeepsServing): the old handler is destroyed
\* only after rproxy has confirmed the new route.
THEOREM UploadsKeepServing == Spec => UploadKeepsServing
<1> DEFINE Kept == \A n \in Name :
        Served(n) /\ ~Served(n)' =>
            \/ ~rproxy'
            \/ \E r \in Req :
                  /\ loc[r].name = n
                  /\ \/ pc[r] \in {"destroy", "notifyDel"}
                     \/ pc[r] = "notifyAdd" /\ loc[r].threads = 0
<1>1. IInv /\ [Next]_vars => [Kept]_vars
  <2> SUFFICES ASSUME IInv, Next, NEW n \in Name, Served(n), ~Served(n)', rproxy'
               PROVE  \E r \in Req :
                         /\ loc[r].name = n
                         /\ \/ pc[r] \in {"destroy", "notifyDel"}
                            \/ pc[r] = "notifyAdd" /\ loc[r].threads = 0
    OBVIOUS
  <2>1. CASE \E r \in Req : Begin(r)
    BY <2>1 DEF Begin, BeginUpload, BeginDelete, BeginWipe, BeginStop, Served, tables
  <2>2. CASE \E r \in Req : Step(r)
    BY <2>2, ServedStep
  <2>3. CASE MapRace
    BY <2>3 DEF MapRace, Served, tables
  <2> QED
    BY <2>1, <2>2, <2>3 DEF Next
<1>2. [][Kept]_vars <=> UploadKeepsServing
  BY PTL DEF UploadKeepsServing
<1> QED
  BY <1>1, <1>2, Inductive, PTL DEF Spec

-----------------------------------------------------------------------------
(***************************************************************************)
(* Routes and the two tables when no call has failed                       *)
(***************************************************************************)

\* A request's step leaves the control and the locals of the others alone.
LEMMA OthersUnchanged ==
  ASSUME IInv, NEW r \in Req, Step(r) \/ Begin(r), NEW q \in Req, q # r
  PROVE  pc'[q] = pc[q] /\ loc'[q] = loc[q]
<1>1. CASE Begin(r)
  BY <1>1 DEF IInv, TypeOK, Begin, BeginUpload, BeginDelete, BeginWipe, BeginStop, Goto
<1>2. CASE ReadOld(r) \/ ReadHandler(r) \/ RangeNext(r) \/ RangeEnd(r) \/ Lock(r)
  BY <1>2 DEF IInv, TypeOK, ReadOld, ReadHandler, RangeNext, RangeEnd, Lock, Goto
<1>3. CASE Create(r) \/ Store(r) \/ Start(r)
  BY <1>3 DEF IInv, TypeOK, Create, Store, Start, Return, Goto
<1>4. CASE NotifyAdd(r) \/ DestroyOld(r) \/ DestroyHandler(r) \/ NotifyDel(r) \/ Remove(r)
  BY <1>4 DEF IInv, TypeOK, NotifyAdd, DestroyOld, DestroyHandler, NotifyDel, Remove,
              Return, Panic, Goto
<1> QED
  BY <1>1, <1>2, <1>3, <1>4 DEF Step

\* Outside the critical section a step changes no table and no container.
LEMMA OutsideUnchanged ==
  ASSUME NEW r \in Req, Step(r), pc[r] \notin Critical
  PROVE  UNCHANGED <<functionHandlers, hosts, docker, rproxy, faults>>
BY DEF Step, ReadOld, Lock, Create, Store, Start, NotifyAdd, DestroyOld, ReadHandler,
       DestroyHandler, NotifyDel, Remove, RangeNext, RangeEnd, Critical, tables

\* A request that arrives changes only the routes, when it stops the manager.
LEMMA BeginUnchanged ==
  ASSUME IInv, NEW r \in Req, Begin(r)
  PROVE  /\ UNCHANGED <<functionHandlers, docker, faults>>
         /\ \/ UNCHANGED <<hosts, rproxy>>
            \/ hosts' = [n \in Name |-> 0] /\ rproxy' = FALSE
         /\ pc[r] \notin Critical /\ pc'[r] \notin Critical
BY DEF IInv, TypeOK, Begin, BeginUpload, BeginDelete, BeginWipe, BeginStop, Goto, tables,
       Critical

\* A run without a failure has had none before, and a step of it is none.
LEMMA NoFailure ==
  ASSUME IInv, faults' = 0, Fault \/ UNCHANGED faults
  PROVE  faults = 0 /\ ~Fault
BY DEF IInv, TypeOK, Fault

LEMMA StepFaults ==
  ASSUME NEW r \in Req, Step(r)
  PROVE  Fault \/ UNCHANGED faults
<1>1. CASE ReadOld(r) \/ ReadHandler(r) \/ RangeNext(r) \/ RangeEnd(r) \/ Lock(r)
  BY <1>1 DEF ReadOld, ReadHandler, RangeNext, RangeEnd, Lock
<1>2. CASE Create(r) \/ Store(r) \/ Start(r) \/ Remove(r)
  BY <1>2 DEF Create, Store, Start, Remove, NoFault
<1>3. CASE NotifyAdd(r) \/ NotifyDel(r)
  BY <1>3 DEF NotifyAdd, NotifyDel, Post, NoFault
<1>4. CASE DestroyOld(r) \/ DestroyHandler(r)
  BY <1>4 DEF DestroyOld, DestroyHandler, Destroy, NoFault
<1> QED
  BY <1>1, <1>2, <1>3, <1>4 DEF Step

\* A destruction that fails without a fault destroys nothing that runs.
LEMMA DestroyUnfaulted ==
  ASSUME TypeOK, NEW h \in Handler, NEW ok \in BOOLEAN, Destroy(h, ok), ~Fault
  PROVE  docker'[h].containers = "none" /\ (ok <=> docker[h].network)
<1>1. CASE docker[h].network /\ Leave(h, "none", FALSE) /\ ok = TRUE
  BY <1>1, LeaveType DEF Containers
<1>2. CASE ~docker[h].network /\ Leave(h, "none", FALSE) /\ ok = FALSE
  BY <1>2, LeaveType DEF Containers
<1> QED
  BY <1>1, <1>2 DEF Destroy

\* Running containers have their network, and only a live rproxy has routes.
NetworkOK == faults = 0 => \A h \in Handler : docker[h].containers # "none" => docker[h].network
RoutesUp == rproxy \/ \A n \in Name : hosts[n] = 0

RouteInv == IInv /\ NetworkOK /\ RoutesUp /\ RouteLive

\* What Create and Start make of the containers.
LEMMA CreateDocker ==
  ASSUME IInv, NEW r \in Req, Create(r)
  PROVE  \E c \in {"none", "created"}, n \in BOOLEAN :
            /\ Leave(Len(created) + 1, c, n)
            /\ c = "created" => n
            /\ Fault \/ NoFault
<1>1. Len(created') = Len(created) + 1
  <2>1. created' = Append(created, loc[r].name) /\ created \in Seq(Name)
    BY DEF Create, IInv, TypeOK
  <2>2. loc[r].name \in Name
    BY DEF IInv, LocalOK, Create
  <2> QED
    BY <2>1, <2>2
<1>2. CASE /\ Leave(Len(created'), IF loc[r].threads = 0 THEN "none" ELSE "created", TRUE)
           /\ loc' = [loc EXCEPT ![r].fh = Len(created')]
           /\ Goto(r, "store") /\ NoFault /\ UNCHANGED mutex
  <2>1. Leave(Len(created) + 1, IF loc[r].threads = 0 THEN "none" ELSE "created", TRUE) /\ NoFault
    BY <1>1, <1>2
  <2> QED
    BY <2>1
<1>3. CASE /\ \E c \in {"none", "created"}, n \in BOOLEAN :
                 (c = "created" => n) /\ Leave(Len(created'), c, n)
           /\ Return(r) /\ Fault /\ UNCHANGED loc
  BY <1>1, <1>3
<1> QED
  BY <1>2, <1>3 DEF Create

LEMMA StartDocker ==
  ASSUME IInv, NEW r \in Req, Start(r)
  PROVE  /\ loc[r].fh \in Handler
         /\ UNCHANGED docker \/ \E c \in Containers : Leave(loc[r].fh, c, TRUE)
         /\ Fault \/ NoFault
<1>1. loc[r].fh \in Handler
  BY ForHandler DEF IInv, LocalOK, Start, HasNew
<1>2. UNCHANGED docker \/ \E c \in Containers : Leave(loc[r].fh, c, TRUE)
  BY DEF Start, Containers
<1>3. Fault \/ NoFault
  BY DEF Start
<1> QED
  BY <1>1, <1>2, <1>3

LEMMA NetworkStep ==
  ASSUME IInv, NetworkOK, NEW r \in Req, Step(r)
  PROVE  NetworkOK'
<1> SUFFICES ASSUME faults' = 0, NEW h \in Handler, docker'[h].containers # "none"
             PROVE  docker'[h].network
  BY DEF NetworkOK
<1>1. Fault \/ UNCHANGED faults
  BY StepFaults
<1>2. faults = 0 /\ ~Fault
  BY <1>1, NoFailure
<1>3. CASE UNCHANGED docker
  BY <1>2, <1>3 DEF NetworkOK
<1>4. ASSUME NEW g \in Handler, NEW c \in Containers, NEW n \in BOOLEAN,
             Leave(g, c, n), c = "none" \/ n
      PROVE  docker'[h].network
  BY <1>2, <1>4 DEF Leave, NetworkOK, IInv, TypeOK
<1>5. CASE Create(r)
  <2>1. Len(created) + 1 \in Handler
    BY <1>5 DEF Create, IInv, TypeOK, Handler
  <2> QED
    BY <1>4, <1>5, <2>1, CreateDocker DEF Containers
<1>11. CASE Start(r)
  BY <1>3, <1>4, <1>11, StartDocker
<1>6. ASSUME NEW g \in Handler, NEW ok \in BOOLEAN, Destroy(g, ok)
      PROVE  docker'[h].network
  BY <1>2, <1>6, DestroyUnfaulted, DestroyType DEF NetworkOK, IInv
<1>7. DestroyOld(r) => loc[r].old \in Handler
  BY ForHandler DEF IInv, LocalOK, DestroyOld, HasOld
<1>8. DestroyHandler(r) => loc[r].fh \in Handler
  BY ForHandler DEF IInv, LocalOK, DestroyHandler, HasHandler
<1>9. CASE DestroyOld(r) \/ DestroyHandler(r)
  BY <1>6, <1>7, <1>8, <1>9 DEF DestroyOld, DestroyHandler
<1>10. Step(r) => UNCHANGED docker \/ Create(r) \/ Start(r) \/ DestroyOld(r) \/ DestroyHandler(r)
  BY DEF Step, ReadOld, Lock, Store, NotifyAdd, ReadHandler, NotifyDel, Remove, RangeNext,
         RangeEnd
<1> QED
  BY <1>3, <1>5, <1>9, <1>10, <1>11

LEMMA RoutesUpStep ==
  ASSUME IInv, RoutesUp, NEW r \in Req, Step(r)
  PROVE  RoutesUp'
<1>1. rproxy' = rproxy
  BY DEF Step, ReadOld, Lock, Create, Store, Start, NotifyAdd, DestroyOld, ReadHandler,
         DestroyHandler, NotifyDel, Remove, RangeNext, RangeEnd
<1>2. rproxy \/ hosts' = hosts
  BY DEF Step, ReadOld, Lock, Create, Store, Start, NotifyAdd, DestroyOld, ReadHandler,
         DestroyHandler, NotifyDel, Remove, RangeNext, RangeEnd, Post, tables
<1> QED
  BY <1>1, <1>2 DEF RoutesUp

\* A post without a failure leaves no route, or one that a request has set.
LEMMA PostUnfaulted ==
  ASSUME IInv, RoutesUp, NEW n \in Name, NEW h \in Handler \union {0}, NEW threads \in Nat,
         NEW answer \in Answer, Post(n, h, threads, answer), ~Fault
  PROVE  /\ \A m \in Name \ {n} : hosts'[m] = hosts[m]
         /\ hosts'[n] # 0 => threads > 0 /\ hosts'[n] = h
BY DEF IInv, TypeOK, RoutesUp, Post, SetRoute

LEMMA RouteLiveStep ==
  ASSUME RouteInv, NEW r \in Req, Step(r)
  PROVE  RouteLive'
<1> SUFFICES ASSUME NEW n \in Name, faults' = 0, hosts'[n] # 0, ~Served(n)'
             PROVE  \E q \in Req : pc'[q] = "notifyDel" /\ loc'[q].fh = hosts'[n]
  BY DEF RouteLive
<1>1. IInv /\ NetworkOK /\ RoutesUp /\ TypeOK
  BY DEF RouteInv, IInv
<1>2. faults = 0 /\ ~Fault
  BY <1>1, StepFaults, NoFailure
<1>3. CASE hosts[n] # 0 /\ ~Served(n)
  <2>1. PICK q \in Req : pc[q] = "notifyDel" /\ loc[q].fh = hosts[n]
    BY <1>2, <1>3 DEF RouteInv, RouteLive
  <2>2. CASE q # r
    <3>1. pc[r] \notin Critical
      BY <1>1, <2>1, <2>2 DEF TypeOK, LockHeld, Critical
    <3> QED
      BY <1>1, <2>1, <2>2, <3>1, OthersUnchanged, OutsideUnchanged
  <2>3. CASE q = r
    <3>1. NotifyDel(r)
      BY <2>1, <2>3 DEF Step, ReadOld, Lock, Create, Store, Start, NotifyAdd, DestroyOld,
         ReadHandler, DestroyHandler, Remove, RangeNext, RangeEnd
    <3>2. loc[r].name \in Name /\ For(loc[r].name, loc[r].fh) /\ For(n, hosts[n])
      BY <1>1, <1>3, <2>1, <2>3 DEF IInv, TablesInv, LocalOK, HasHandler
    <3>3. loc[r].name = n
      BY <2>1, <2>3, <3>2 DEF For
    <3>4. PICK answer \in Answer : Post(loc[r].name, 0, 0, answer)
      BY <3>1 DEF NotifyDel
    <3> QED
      BY <1>1, <1>2, <3>2, <3>3, <3>4, PostUnfaulted
  <2> QED
    BY <2>2, <2>3
<1>4. CASE Served(n)
  <2>1. hosts[n] \in Handler
    BY <1>1, <1>4 DEF Served, TypeOK
  <2>2. CASE DestroyHandler(r)
    <3>1. loc[r].fh \in Handler
      BY <1>1, <2>2, ForHandler DEF IInv, LocalOK, DestroyHandler, HasHandler
    <3>2. PICK ok \in BOOLEAN :
             Destroy(loc[r].fh, ok) /\ ((ok /\ Goto(r, "notifyDel")) \/ ~ok)
      BY <2>2 DEF DestroyHandler
    <3>3. hosts' = hosts /\ loc' = loc
      BY <2>2 DEF DestroyHandler, tables
    <3>4. loc[r].fh = hosts[n]
      BY <1>1, <1>4, <2>1, <3>1, <3>2, <3>3, DestroyType DEF Served
    <3>5. ok
      BY <1>1, <1>2, <1>4, <2>1, <3>1, <3>2, <3>4, DestroyUnfaulted DEF Served, NetworkOK
    <3> QED
      BY <1>1, <3>2, <3>3, <3>4, <3>5 DEF TypeOK, Goto
  <2>3. CASE NotifyDel(r)
    <3>1. loc[r].name \in Name /\ docker' = docker
      BY <1>1, <2>3 DEF IInv, LocalOK, NotifyDel
    <3>2. PICK answer \in Answer : Post(loc[r].name, 0, 0, answer)
      BY <2>3 DEF NotifyDel
    <3> QED
      BY <1>1, <1>2, <1>4, <3>1, <3>2, PostUnfaulted DEF Served
  <2>4. CASE NotifyAdd(r)
    <3>1. /\ loc[r].name \in Name /\ loc[r].threads \in Nat /\ loc[r].fh \in Handler
          /\ loc[r].threads > 0 => docker[loc[r].fh].containers = "ready"
          /\ docker' = docker
      BY <1>1, <2>4, ForHandler DEF IInv, TypeOK, LocalOK, NotifyAdd, HasNew, Locals
    <3>2. PICK answer \in Answer : Post(loc[r].name, loc[r].fh, loc[r].threads, answer)
      BY <2>4 DEF NotifyAdd
    <3> QED
      BY <1>1, <1>2, <1>4, <3>1, <3>2, PostUnfaulted DEF Served
  <2>5. ~(loc[r].name = n /\ pc[r] \in {"destroy", "notifyDel"})
        /\ ~(loc[r].name = n /\ pc[r] = "notifyAdd" /\ loc[r].threads = 0) => Served(n)'
    BY <1>1, <1>4, ServedStep
  <2>6. pc[r] \in {"destroy", "notifyDel", "notifyAdd"} =>
            DestroyHandler(r) \/ NotifyDel(r) \/ NotifyAdd(r)
    BY DEF Step, ReadOld, Lock, Create, Store, Start, DestroyOld, ReadHandler, Remove,
           RangeNext, RangeEnd
  <2> QED
    BY <2>2, <2>3, <2>4, <2>5, <2>6
<1>5. CASE hosts[n] = 0
  <2>1. CASE NotifyAdd(r)
    <3>1. /\ loc[r].name \in Name /\ loc[r].threads \in Nat /\ loc[r].fh \in Handler
          /\ loc[r].threads > 0 => docker[loc[r].fh].containers = "ready"
          /\ docker' = docker
      BY <1>1, <2>1, ForHandler DEF IInv, TypeOK, LocalOK, NotifyAdd, HasNew, Locals
    <3>2. PICK answer \in Answer : Post(loc[r].name, loc[r].fh, loc[r].threads, answer)
      BY <2>1 DEF NotifyAdd
    <3> QED
      BY <1>1, <1>2, <1>5, <3>1, <3>2, PostUnfaulted DEF Served
  <2>2. CASE NotifyDel(r)
    <3>1. loc[r].name \in Name
      BY <1>1, <2>2 DEF IInv, LocalOK, NotifyDel
    <3>2. PICK answer \in Answer : Post(loc[r].name, 0, 0, answer)
      BY <2>2 DEF NotifyDel
    <3>3. /\ \A m \in Name \ {loc[r].name} : hosts'[m] = hosts[m]
          /\ ~(hosts'[loc[r].name] # 0)
      BY <1>1, <1>2, <3>1, <3>2, PostUnfaulted
    <3> QED
      BY <1>5, <3>1, <3>3
  <2>3. Create(r) \/ Start(r) => hosts' = hosts
    BY DEF Create, Start, tables
  <2>4. hosts' = hosts \/ NotifyAdd(r) \/ NotifyDel(r)
    BY <2>3 DEF Step, ReadOld, Lock, Store, DestroyOld, ReadHandler,
                DestroyHandler, Remove, RangeNext, RangeEnd, tables
  <2> QED
    BY <1>5, <2>1, <2>2, <2>4
<1> QED
  BY <1>3, <1>4, <1>5

LEMMA RouteInvariantInit == Init => RouteInv
<1> SUFFICES ASSUME Init PROVE RouteInv
  OBVIOUS
<1>1. NetworkOK /\ RoutesUp /\ RouteLive
  BY DEF Init, NetworkOK, RoutesUp, RouteLive, NoResources
<1> QED
  BY <1>1, InitHolds DEF RouteInv

LEMMA RouteNext == RouteInv /\ [Next]_vars => RouteInv'
<1> SUFFICES ASSUME RouteInv, [Next]_vars PROVE RouteInv'
  OBVIOUS
<1>1. IInv'
  BY NextKeeps DEF RouteInv
<1>2. CASE \E r \in Req : Begin(r)
  <2>1. PICK r \in Req : Begin(r)
    BY <1>2
  <2>2. /\ UNCHANGED <<functionHandlers, docker, faults>>
        /\ \/ UNCHANGED <<hosts, rproxy>>
           \/ hosts' = [n \in Name |-> 0] /\ rproxy' = FALSE
        /\ pc[r] \notin Critical
    BY <2>1, BeginUnchanged DEF RouteInv
  <2>3. \A q \in Req : pc[q] = "notifyDel" => pc'[q] = pc[q] /\ loc'[q] = loc[q]
    BY <2>1, <2>2, OthersUnchanged DEF RouteInv, Critical
  <2>4. NetworkOK' /\ RoutesUp'
    BY <2>2 DEF RouteInv, NetworkOK, RoutesUp
  <2>5. RouteLive'
    BY <2>2, <2>3 DEF RouteInv, RouteLive, Served
  <2> QED
    BY <1>1, <2>4, <2>5 DEF RouteInv
<1>3. CASE \E r \in Req : Step(r)
  BY <1>1, <1>3, NetworkStep, RoutesUpStep, RouteLiveStep DEF RouteInv
<1>4. CASE MapRace \/ UNCHANGED vars
  BY <1>1, <1>4 DEF RouteInv, NetworkOK, RoutesUp, RouteLive, Served, MapRace, vars, tables
<1> QED
  BY <1>2, <1>3, <1>4 DEF Next

LEMMA RouteInvariant == Spec => []RouteInv
BY RouteInvariantInit, RouteNext, PTL DEF Spec

\* As long as no call has failed, a route leads to running containers unless a
\* delete has destroyed them and is about to tell rproxy (RouteLive), however
\* the requests that read the map before they got the lock interleave.
THEOREM RoutesAreLive == Spec => []RouteLive
<1>1. RouteInv => RouteLive
  BY DEF RouteInv
<1> QED
  BY <1>1, RouteInvariant, PTL

\* What the two tables say of function n.
Agree(n) ==
    /\ hosts[n] # 0 => functionHandlers[n] = hosts[n]
    /\ functionHandlers[n] # 0 /\ docker[functionHandlers[n]].containers = "ready" =>
           hosts[n] = functionHandlers[n]

\* A request is between its two changes of the tables.
Between(n) ==
    \E r \in Req : loc[r].name = n /\ pc[r] \in {"start", "notifyAdd", "remove"}

\* What a request knows of the tables while it is there.
TableOK(r) ==
    /\ pc[r] \in {"start", "notifyAdd"} => functionHandlers[loc[r].name] = loc[r].fh
    /\ pc[r] \in {"store", "start", "notifyAdd"} /\ loc[r].threads = 0 =>
           docker[loc[r].fh].containers # "ready"
    /\ pc[r] = "remove" => hosts[loc[r].name] = 0

AgreeInv ==
    /\ RouteInv
    /\ \A r \in Req : TableOK(r)
    /\ faults = 0 /\ rproxy => \A n \in Name : Agree(n) \/ Between(n)

\* As OthersKept: what a request knows survives the steps of the others.
LEMMA OthersTables ==
  ASSUME AgreeInv, NEW r \in Req, Step(r) \/ Begin(r), NEW q \in Req, q # r
  PROVE  TableOK(q)'
<1>1. pc'[q] = pc[q] /\ loc'[q] = loc[q] /\ TableOK(q)
  BY OthersUnchanged DEF AgreeInv, RouteInv
<1>2. CASE pc[r] \in Critical
  <2>1. pc[q] \notin Critical
    BY <1>2 DEF AgreeInv, RouteInv, IInv, TypeOK, LockHeld
  <2> QED
    BY <1>1, <2>1 DEF TableOK, Critical
<1>3. CASE pc[r] \notin Critical
  <2>1. /\ UNCHANGED <<functionHandlers, docker>>
        /\ hosts' = hosts \/ hosts' = [n \in Name |-> 0]
    BY <1>3, OutsideUnchanged, BeginUnchanged DEF AgreeInv, RouteInv
  <2>2. pc[q] = "remove" => loc[q].name \in Name
    BY DEF AgreeInv, RouteInv, IInv, LocalOK
  <2> QED
    BY <1>1, <2>1, <2>2 DEF TableOK
<1> QED
  BY <1>2, <1>3

\* The other functions' entries are not disturbed by a step on one function.
LEMMA AgreeKept ==
  ASSUME NEW n \in Name, Agree(n),
         functionHandlers'[n] = functionHandlers[n], hosts'[n] = hosts[n],
         functionHandlers[n] # 0 /\ docker'[functionHandlers[n]].containers = "ready" =>
             docker[functionHandlers[n]].containers = "ready"
  PROVE  Agree(n)'
BY DEF Agree

LEMMA BetweenKept ==
  ASSUME AgreeInv, NEW r \in Req, Step(r) \/ Begin(r), NEW n \in Name, Between(n),
         ~(loc[r].name = n /\ pc[r] \in {"start", "notifyAdd", "remove"})
  PROVE  Between(n)'
<1>1. PICK q \in Req : loc[q].name = n /\ pc[q] \in {"start", "notifyAdd", "remove"}
  BY DEF Between
<1> QED
  BY <1>1, OthersUnchanged DEF AgreeInv, RouteInv, Between

\* No destruction makes containers ready.
LEMMA DestroyStops ==
  ASSUME TypeOK, NEW h \in Handler, NEW ok \in BOOLEAN, Destroy(h, ok)
  PROVE  \A g \in Handler : docker'[g].containers = "ready" => docker[g].containers = "ready"
<1>1. CASE UNCHANGED docker
  BY <1>1
<1>2. ASSUME NEW c \in {"none", "created"}, NEW n \in BOOLEAN, Leave(h, c, n)
      PROVE  docker'[h].containers # "ready" /\ \A g \in Handler \ {h} : docker'[g] = docker[g]
  BY <1>2, LeaveType DEF Containers
<1>3. UNCHANGED docker \/ \E c \in {"none", "created"}, n \in BOOLEAN : Leave(h, c, n)
  BY DEF Destroy
<1> QED
  BY <1>1, <1>2, <1>3

\* What a request knows when it has moved on.
LEMMA StepTableOK ==
  ASSUME AgreeInv, NEW r \in Req, Step(r)
  PROVE  TableOK(r)'
<1>1. IInv /\ TypeOK /\ TableOK(r)
  BY DEF AgreeInv, RouteInv, IInv
<1>2. CASE ReadOld(r) \/ ReadHandler(r) \/ RangeNext(r) \/ RangeEnd(r) \/ Lock(r)
  <2>1. pc'[r] \notin {"store", "start", "notifyAdd", "remove"}
    BY <1>1, <1>2 DEF ReadOld, ReadHandler, RangeNext, RangeEnd, Lock, Goto, Continue, TypeOK
  <2> QED
    BY <2>1 DEF TableOK
<1>3. CASE Create(r)
  <2>1. CASE /\ Leave(Len(created'), IF loc[r].threads = 0 THEN "none" ELSE "created", TRUE)
             /\ loc' = [loc EXCEPT ![r].fh = Len(created')]
             /\ Goto(r, "store") /\ NoFault /\ UNCHANGED mutex
    <3>1. pc'[r] = "store"
      BY <1>1, <2>1 DEF TypeOK, Goto
    <3>2. Len(created') \in Handler
      <4>1. loc[r].name \in Name /\ created \in Seq(Name)
        BY <1>1, <1>3 DEF IInv, TypeOK, LocalOK, Create
      <4>2. created' = Append(created, loc[r].name) /\ Len(created) < MaxHandler
        BY <1>3 DEF Create
      <4> QED
        BY <4>1, <4>2 DEF Handler
    <3> DEFINE h == Len(created')
    <3>3. loc'[r].fh = h /\ loc'[r].threads = loc[r].threads
      <4>1. loc' = [loc EXCEPT ![r] = [loc[r] EXCEPT !.fh = h]]
        BY <2>1
      <4>2. loc[r] \in Locals
        BY <1>1 DEF TypeOK
      <4>3. loc'[r] = [loc[r] EXCEPT !.fh = h]
        BY <1>1, <4>1 DEF TypeOK
      <4> QED
        BY <4>2, <4>3 DEF Locals
    <3>4. loc[r].threads = 0 => docker'[h].containers = "none"
      BY <1>1, <2>1, <3>2, LeaveType DEF Containers
    <3> HIDE DEF h
    <3> QED
      BY <3>1, <3>3, <3>4 DEF TableOK
  <2>2. CASE Return(r)
    <3>1. pc'[r] \in {"range", "done"}
      BY <1>1, <2>2 DEF Return, Goto, Continue, TypeOK
    <3> QED
      BY <3>1 DEF TableOK
  <2> QED
    BY <1>3, <2>1, <2>2 DEF Create
<1>4. CASE Store(r)
  <2>1. pc'[r] = "start" /\ pc[r] = "store" /\ UNCHANGED <<loc, docker>>
    BY <1>1, <1>4 DEF Store, Goto, TypeOK
  <2>2. loc[r].name \in Name
    BY <1>1, <1>4 DEF IInv, LocalOK, Store
  <2>3. functionHandlers'[loc[r].name] = loc[r].fh
    BY <1>1, <1>4, <2>2 DEF Store, TypeOK
  <2> QED
    BY <1>1, <2>1, <2>3 DEF TableOK
<1>5. CASE Start(r)
  <2>1. UNCHANGED <<loc, functionHandlers, hosts>> /\ pc[r] = "start"
    BY <1>5 DEF Start, tables
  <2>2. CASE /\ IF loc[r].threads = 0 THEN UNCHANGED docker
                ELSE Leave(loc[r].fh, "ready", TRUE)
             /\ Goto(r, "notifyAdd") /\ NoFault /\ UNCHANGED mutex
    <3>1. pc'[r] = "notifyAdd"
      BY <1>1, <2>2 DEF Goto, TypeOK
    <3> QED
      BY <1>1, <2>1, <2>2, <3>1 DEF TableOK
  <2>3. CASE Return(r)
    <3>1. pc'[r] \in {"range", "done"}
      BY <1>1, <2>3 DEF Return, Goto, Continue, TypeOK
    <3> QED
      BY <3>1 DEF TableOK
  <2> QED
    BY <1>5, <2>2, <2>3 DEF Start
<1>6. CASE NotifyDel(r)
  <2>1. PICK answer \in Answer :
          /\ Post(loc[r].name, 0, 0, answer)
          /\ \/ answer = "ok" /\ Goto(r, "remove") /\ UNCHANGED mutex
             \/ answer = "error" /\ Return(r)
             \/ answer = "eof" /\ Panic(r)
    BY <1>6 DEF NotifyDel
  <2>2. loc[r].name \in Name /\ loc' = loc
    BY <1>1, <1>6 DEF IInv, LocalOK, NotifyDel
  <2>3. answer = "ok" => hosts'[loc[r].name] = 0
    BY <1>1, <2>1, <2>2, PostType
  <2>4. pc'[r] \in {"range", "done", "remove"} /\ (pc'[r] = "remove" => answer = "ok")
    BY <1>1, <2>1 DEF Return, Panic, Goto, Continue, TypeOK
  <2> QED
    BY <2>2, <2>3, <2>4 DEF TableOK
<1>7. CASE NotifyAdd(r) \/ DestroyOld(r) \/ DestroyHandler(r) \/ Remove(r)
  <2>1. pc'[r] \in {"range", "done", "destroyOld", "notifyDel"}
    BY <1>1, <1>7 DEF NotifyAdd, DestroyOld, DestroyHandler, Remove, Return, Panic, Goto,
                      Continue, TypeOK
  <2> QED
    BY <2>1 DEF TableOK
<1> QED
  BY <1>2, <1>3, <1>4, <1>5, <1>6, <1>7 DEF Step

\* The tables agree on every function but the one that is being changed.
LEMMA StepAgree ==
  ASSUME AgreeInv, NEW r \in Req, Step(r), faults' = 0, rproxy', NEW n \in Name
  PROVE  Agree(n)' \/ Between(n)'
<1>1. IInv /\ TypeOK /\ TableOK(r) /\ RoutesUp
  BY DEF AgreeInv, RouteInv, IInv
<1>2. faults = 0 /\ ~Fault
  BY <1>1, StepFaults, NoFailure
<1>3. rproxy
  BY DEF Step, ReadOld, Lock, Create, Store, Start, NotifyAdd, DestroyOld, ReadHandler,
         DestroyHandler, NotifyDel, Remove, RangeNext, RangeEnd
<1>4. Agree(n) \/ Between(n)
  BY <1>2, <1>3 DEF AgreeInv
<1>5. CASE Between(n) /\ ~(loc[r].name = n /\ pc[r] \in {"start", "notifyAdd", "remove"})
  BY <1>5, BetweenKept
<1>6. CASE loc[r].name = n /\ pc[r] = "start"
  <2>1. Start(r)
    BY <1>6 DEF Step, ReadOld, Lock, Create, Store, NotifyAdd, DestroyOld, ReadHandler,
         DestroyHandler, NotifyDel, Remove, RangeNext, RangeEnd
  <2>2. Goto(r, "notifyAdd") /\ loc' = loc
    BY <1>2, <2>1 DEF Start
  <2> QED
    BY <1>1, <1>6, <2>2 DEF Between, Goto, TypeOK
<1>7. CASE loc[r].name = n /\ pc[r] = "notifyAdd"
  <2>1. NotifyAdd(r)
    BY <1>7 DEF Step, ReadOld, Lock, Create, Store, Start, DestroyOld, ReadHandler,
         DestroyHandler, NotifyDel, Remove, RangeNext, RangeEnd
  <2>2. PICK answer \in Answer : Post(n, loc[r].fh, loc[r].threads, answer)
    BY <1>7, <2>1 DEF NotifyAdd
  <2>3. loc[r].threads \in Nat
    BY <1>1 DEF TypeOK, Locals
  <2>4. hosts' = [hosts EXCEPT ![n] = IF loc[r].threads > 0 THEN loc[r].fh ELSE 0]
    BY <1>2, <1>3, <2>2 DEF Post, SetRoute
  <2>5. hosts'[n] = IF loc[r].threads > 0 THEN loc[r].fh ELSE 0
    BY <1>1, <2>4 DEF TypeOK
  <2>6. UNCHANGED <<functionHandlers, docker>>
    BY <2>1 DEF NotifyAdd
  <2> QED
    BY <1>1, <1>7, <2>3, <2>5, <2>6 DEF Agree, TableOK
<1>8. CASE loc[r].name = n /\ pc[r] = "remove"
  <2>1. Remove(r)
    BY <1>8 DEF Step, ReadOld, Lock, Create, Store, Start, NotifyAdd, DestroyOld, ReadHandler,
         DestroyHandler, NotifyDel, RangeNext, RangeEnd
  <2> QED
    BY <1>1, <1>8, <2>1 DEF Remove, Agree, TableOK, TypeOK
<1>9. CASE Agree(n) /\ ~(loc[r].name = n /\ pc[r] \in {"start", "notifyAdd", "remove"})
  <2>1. functionHandlers[n] # 0 => functionHandlers[n] \in Handler /\ For(n, functionHandlers[n])
    BY <1>1 DEF IInv, TypeOK, TablesInv
  <2>2. CASE Create(r)
    <3>1. PICK c \in {"none", "created"}, k \in BOOLEAN : Leave(Len(created) + 1, c, k)
      BY <1>1, <2>2, CreateDocker
    <3>2. Len(created) + 1 \in Handler /\ functionHandlers[n] # Len(created) + 1
      BY <1>1, <2>1, <2>2 DEF Create, TypeOK, Handler, For
    <3>3. functionHandlers[n] # 0 => docker'[functionHandlers[n]] = docker[functionHandlers[n]]
      BY <1>1, <2>1, <3>1, <3>2, LeaveType DEF Containers
    <3>4. UNCHANGED <<functionHandlers, hosts>>
      BY <2>2 DEF Create, tables
    <3> QED
      BY <1>9, <3>3, <3>4, AgreeKept
  <2>3. CASE Start(r)
    <3>1. loc[r].fh \in Handler /\ For(loc[r].name, loc[r].fh) /\ loc[r].name # n
      BY <1>1, <1>9, <2>3, StartDocker DEF IInv, LocalOK, HasNew, Start
    <3>2. functionHandlers[n] # 0 => docker'[functionHandlers[n]] = docker[functionHandlers[n]]
      <4>1. functionHandlers[n] # 0 => functionHandlers[n] # loc[r].fh
        BY <2>1, <3>1 DEF For
      <4>2. CASE UNCHANGED docker
        BY <4>2
      <4>3. CASE \E c \in Containers : Leave(loc[r].fh, c, TRUE)
        BY <1>1, <2>1, <3>1, <4>1, <4>3, LeaveType
      <4> QED
        BY <1>1, <2>3, <4>2, <4>3, StartDocker
    <3>3. UNCHANGED <<functionHandlers, hosts>>
      BY <2>3 DEF Start, tables
    <3> QED
      BY <1>9, <3>2, <3>3, AgreeKept
  <2>4. CASE Store(r)
    <3>1. loc[r].name \in Name /\ UNCHANGED <<loc, hosts, docker>> /\ Goto(r, "start")
      BY <1>1, <2>4 DEF IInv, LocalOK, Store
    <3>2. CASE loc[r].name = n
      BY <1>1, <3>1, <3>2 DEF Between, Goto, TypeOK
    <3>3. CASE loc[r].name # n
      <4>1. functionHandlers'[n] = functionHandlers[n]
        BY <1>1, <2>4, <3>1, <3>3 DEF Store, TypeOK
      <4> QED
        BY <1>9, <3>1, <4>1, AgreeKept
    <3> QED
      BY <3>2, <3>3
  <2>5. CASE Remove(r)
    <3>1. loc[r].name \in Name /\ loc[r].name # n /\ UNCHANGED <<hosts, docker>>
      BY <1>1, <1>9, <2>5 DEF IInv, LocalOK, Remove
    <3>2. functionHandlers'[n] = functionHandlers[n]
      BY <1>1, <2>5, <3>1 DEF Remove, TypeOK
    <3> QED
      BY <1>9, <3>1, <3>2, AgreeKept
  <2>6. CASE NotifyAdd(r)
    <3>1. /\ loc[r].name \in Name /\ loc[r].name # n
          /\ loc[r].threads \in Nat /\ loc[r].fh \in Handler
          /\ UNCHANGED <<functionHandlers, docker>>
      BY <1>1, <1>9, <2>6, ForHandler DEF IInv, LocalOK, HasNew, NotifyAdd, TypeOK, Locals
    <3>2. hosts'[n] = hosts[n]
      BY <1>1, <2>6, <3>1, PostType DEF NotifyAdd
    <3> QED
      BY <1>9, <3>1, <3>2, AgreeKept
  <2>7. CASE NotifyDel(r)
    <3>1. loc[r].name \in Name /\ loc' = loc /\ UNCHANGED <<functionHandlers, docker>>
      BY <1>1, <2>7 DEF IInv, LocalOK, NotifyDel
    <3>2. PICK answer \in Answer :
            /\ Post(loc[r].name, 0, 0, answer)
            /\ \/ answer = "ok" /\ Goto(r, "remove") /\ UNCHANGED mutex
               \/ answer = "error" /\ Return(r)
               \/ answer = "eof" /\ Panic(r)
      BY <2>7 DEF NotifyDel
    <3>3. \A m \in Name \ {loc[r].name} : hosts'[m] = hosts[m]
      BY <1>1, <3>1, <3>2, PostType
    <3>4. CASE loc[r].name # n
      BY <1>9, <3>1, <3>3, <3>4, AgreeKept
    <3>5. CASE loc[r].name = n /\ answer = "ok"
      BY <1>1, <3>1, <3>2, <3>5 DEF Between, Goto, TypeOK
    <3>6. CASE loc[r].name = n /\ answer # "ok"
      <4>1. hosts' = [hosts EXCEPT ![n] = 0] /\ hosts[n] = 0
        BY <1>2, <1>3, <3>2, <3>6 DEF Post, SetRoute, RouteAnswer
      <4>2. hosts'[n] = hosts[n]
        BY <1>1, <4>1 DEF TypeOK
      <4> QED
        BY <1>9, <3>1, <4>2, AgreeKept
    <3> QED
      BY <3>4, <3>5, <3>6
  <2>8. CASE DestroyOld(r) \/ DestroyHandler(r)
    <3>1. /\ DestroyOld(r) => loc[r].old \in Handler
          /\ DestroyHandler(r) => loc[r].fh \in Handler
      BY <1>1, ForHandler DEF IInv, LocalOK, HasOld, HasHandler, DestroyOld, DestroyHandler
    <3>2. \A g \in Handler : docker'[g].containers = "ready" => docker[g].containers = "ready"
      BY <1>1, <2>8, <3>1, DestroyStops DEF DestroyOld, DestroyHandler
    <3>3. UNCHANGED <<functionHandlers, hosts>>
      BY <2>8 DEF DestroyOld, DestroyHandler, tables
    <3> QED
      BY <1>9, <2>1, <3>2, <3>3, AgreeKept
  <2>9. CASE ReadOld(r) \/ ReadHandler(r) \/ RangeNext(r) \/ RangeEnd(r) \/ Lock(r)
    <3>1. UNCHANGED <<functionHandlers, hosts, docker>>
      BY <2>9 DEF ReadOld, ReadHandler, RangeNext, RangeEnd, Lock, tables
    <3> QED
      BY <1>9, <3>1, AgreeKept
  <2> QED
    BY <2>2, <2>3, <2>4, <2>5, <2>6, <2>7, <2>8, <2>9 DEF Step
<1> QED
  BY <1>4, <1>5, <1>6, <1>7, <1>8, <1>9

LEMMA AgreeInvariant == Spec => []AgreeInv
<1>1. Init => AgreeInv
  <2> SUFFICES ASSUME Init PROVE (\A r \in Req : TableOK(r)) /\ (\A n \in Name : Agree(n))
    BY RouteInvariantInit DEF AgreeInv
  <2> QED
    BY DEF Init, TableOK, Agree
<1>2. AgreeInv /\ RouteInv' /\ [Next]_vars => AgreeInv'
  <2> SUFFICES ASSUME AgreeInv, RouteInv', [Next]_vars PROVE AgreeInv'
    OBVIOUS
  <2>1. CASE \E r \in Req : Begin(r)
    <3>1. PICK r \in Req : Begin(r)
      BY <2>1
    <3>2. /\ UNCHANGED <<functionHandlers, docker, faults>>
          /\ UNCHANGED <<hosts, rproxy>> \/ rproxy' = FALSE
          /\ pc[r] \notin Critical /\ pc'[r] \notin Critical
      BY <3>1, BeginUnchanged DEF AgreeInv, RouteInv
    <3>3. \A q \in Req : TableOK(q)'
      BY <3>1, <3>2, OthersTables DEF TableOK, Critical
    <3>4. \A n \in Name : Between(n) => Between(n)'
      BY <3>1, <3>2, BetweenKept DEF Critical
    <3>5. rproxy' => \A n \in Name : Agree(n) => Agree(n)'
      BY <3>2 DEF Agree
    <3> QED
      BY <3>2, <3>3, <3>4, <3>5 DEF AgreeInv
  <2>2. CASE \E r \in Req : Step(r)
    <3>1. PICK r \in Req : Step(r)
      BY <2>2
    <3>2. \A q \in Req : TableOK(q)'
      BY <3>1, OthersTables, StepTableOK
    <3>3. faults' = 0 /\ rproxy' => \A n \in Name : Agree(n)' \/ Between(n)'
      BY <3>1, StepAgree
    <3> QED
      BY <3>2, <3>3 DEF AgreeInv
  <2>3. CASE MapRace \/ UNCHANGED vars
    BY <2>3 DEF AgreeInv, TableOK, Agree, Between, MapRace, vars, tables
  <2> QED
    BY <2>1, <2>2, <2>3 DEF Next
<1> QED
  BY <1>1, <1>2, RouteInvariant, PTL DEF Spec

\* Between two requests the manager's map and rproxy's table agree, as long as
\* no call has failed and rproxy is up (TablesAgree).
THEOREM TablesAgreeAtRest == Spec => []TablesAgree
<1>1. AgreeInv => TablesAgree
  BY DEF AgreeInv, TablesAgree, Agree, Between
<1> QED
  BY <1>1, AgreeInvariant, PTL

-----------------------------------------------------------------------------
(***************************************************************************)
(* Requests end                                                            *)
(***************************************************************************)

\* How many steps a request can take from a control state until it is answered,
\* or until the range of its wipe goes on.
Ahead == [label \in Label |->
    CASE label = "readOld" -> 7
      [] label = "lockUpload" -> 6
      [] label \in {"create", "readHandler"} -> 5
      [] label \in {"store", "lockDelete"} -> 4
      [] label \in {"start", "destroy"} -> 3
      [] label \in {"notifyAdd", "notifyDel"} -> 2
      [] label \in {"destroyOld", "remove"} -> 1
      [] OTHER -> 0]

Unseen(r) == Name \ loc[r].seen

Ranges(r) == pc[r] = "range" \/ loc[r].op \in {"wipe", "stop"}

\* A wipe may still take six steps for every name it has not visited, entries
\* that are added meanwhile included, and one to end its range.
StepsLeft(r) ==
    IF pc[r] = "done" THEN 0
    ELSE Ahead[pc[r]] + (IF Ranges(r) THEN 6 * Cardinality(Unseen(r)) + 1 ELSE 0)

\* Every step of a request that has begun brings its answer nearer, whatever
\* fails and whatever the other requests do to the map meanwhile: nothing is
\* retried, and a wipe visits no name twice.
AnswerNearer ==
    [][\A r \in Req :
        pc[r] # "idle" => UNCHANGED <<pc[r], loc[r]>> \/ StepsLeft(r)' < StepsLeft(r)]_vars

\* A request has a number of steps left, and never more than this one.
StepsBounded ==
    \A r \in Req : StepsLeft(r) \in 0 .. 6 * Cardinality(Name) + 8

LEMMA AheadType ==
  /\ \A label \in Label : Ahead[label] \in 0 .. 7
  /\ Ahead["range"] = 0 /\ Ahead["done"] = 0
  /\ \A label \in Critical : Ahead[label] > 0
BY DEF Ahead, Label, Critical

\* Names that are still unseen are counted.
LEMMA UnseenCounts ==
  ASSUME TypeOK, IsFiniteSet(Name), NEW r \in Req
  PROVE  /\ IsFiniteSet(Unseen(r))
         /\ Cardinality(Unseen(r)) \in 0 .. Cardinality(Name)
         /\ Cardinality(Name) \in Nat
<1>1. Unseen(r) \subseteq Name
  BY DEF Unseen
<1> QED
  BY <1>1, FS_Subset, FS_CardinalityType

LEMMA StepsBoundedNow ==
  ASSUME TypeOK, IsFiniteSet(Name)
  PROVE  StepsBounded
<1> SUFFICES ASSUME NEW r \in Req
             PROVE  StepsLeft(r) \in 0 .. 6 * Cardinality(Name) + 8
  BY DEF StepsBounded
<1>1. pc[r] \in Label
  BY DEF TypeOK
<1> QED
  BY <1>1, AheadType, UnseenCounts DEF StepsLeft

\* A request that moves on to a control state with fewer steps ahead of it comes
\* nearer to its answer.
LEMMA NearerWithin ==
  ASSUME TypeOK, IsFiniteSet(Name), NEW r \in Req, NEW label \in Label, Goto(r, label),
         Ahead[label] < Ahead[pc[r]],
         loc'[r].op = loc[r].op, loc'[r].seen = loc[r].seen,
         label = "range" => Ranges(r)
  PROVE  StepsLeft(r)' < StepsLeft(r)
<1>1. pc'[r] = label /\ pc[r] \in Label /\ pc[r] \notin {"done", "range"}
  BY AheadType DEF TypeOK, Goto
<1>2. Unseen(r)' = Unseen(r)
  BY DEF Unseen
<1>3. Ranges(r)' => Ranges(r)
  BY <1>1 DEF Ranges
<1>4. Ahead[label] \in 0 .. 7 /\ Ahead[pc[r]] \in 0 .. 7 /\ Cardinality(Unseen(r)) \in Nat
  BY <1>1, AheadType, UnseenCounts
<1>5. StepsLeft(r)' <= Ahead[label] + (IF Ranges(r) THEN 6 * Cardinality(Unseen(r)) + 1 ELSE 0)
  BY <1>1, <1>2, <1>3, <1>4 DEF StepsLeft
<1>6. StepsLeft(r) = Ahead[pc[r]] + (IF Ranges(r) THEN 6 * Cardinality(Unseen(r)) + 1 ELSE 0)
  BY <1>1 DEF StepsLeft
<1>7. StepsLeft(r)' \in Int /\ StepsLeft(r) \in Int
  BY <1>1, <1>2, <1>4 DEF StepsLeft
<1> QED
  BY <1>4, <1>5, <1>6, <1>7

\* So does one that ends.
LEMMA NearerDone ==
  ASSUME TypeOK, IsFiniteSet(Name), NEW r \in Req, Goto(r, "done"),
         pc[r] # "done", Ahead[pc[r]] > 0 \/ pc[r] = "range"
  PROVE  StepsLeft(r)' < StepsLeft(r)
<1>1. pc'[r] = "done" /\ pc[r] \in Label
  BY DEF TypeOK, Goto
<1>2. Ahead[pc[r]] \in 0 .. 7 /\ Cardinality(Unseen(r)) \in Nat
  BY <1>1, AheadType, UnseenCounts
<1>3. StepsLeft(r)' = 0
  BY <1>1 DEF StepsLeft
<1>4. StepsLeft(r) > 0
  BY <1>2 DEF StepsLeft, Ranges
<1> QED
  BY <1>3, <1>4

\* Returning from the critical section, or from a lookup that found nothing.
LEMMA NearerReturn ==
  ASSUME TypeOK, IsFiniteSet(Name), NEW r \in Req,
         pc[r] \in Critical \union {"readHandler"},
         Goto(r, Continue(r)) \/ Goto(r, "done"),
         UNCHANGED loc
  PROVE  StepsLeft(r)' < StepsLeft(r)
<1>1. Ahead[pc[r]] > 0 /\ Ahead[pc[r]] \in 0 .. 7 /\ pc[r] # "done"
  BY DEF Label, Critical, Ahead
<1>2. CASE Goto(r, "done")
  BY <1>1, <1>2, NearerDone
<1>3. CASE Goto(r, "range") /\ Ranges(r)
  <2>1. "range" \in Label /\ Ahead["range"] < Ahead[pc[r]]
    BY <1>1, AheadType DEF Label
  <2> QED
    BY <1>3, <2>1, NearerWithin
<1> QED
  BY <1>2, <1>3 DEF Continue, Ranges

\* Every step of a request does.
LEMMA StepNearer ==
  ASSUME TypeOK, IsFiniteSet(Name), NEW r \in Req, Step(r)
  PROVE  StepsLeft(r)' < StepsLeft(r)
<1>1. /\ Ahead["readOld"] = 7 /\ Ahead["lockUpload"] = 6
      /\ Ahead["create"] = 5 /\ Ahead["readHandler"] = 5
      /\ Ahead["store"] = 4 /\ Ahead["lockDelete"] = 4
      /\ Ahead["start"] = 3 /\ Ahead["destroy"] = 3
      /\ Ahead["notifyAdd"] = 2 /\ Ahead["notifyDel"] = 2
      /\ Ahead["destroyOld"] = 1 /\ Ahead["remove"] = 1
  BY DEF Ahead, Label, Critical
<1>2. {"lockUpload", "create", "store", "start", "notifyAdd", "destroyOld", "readHandler",
       "lockDelete", "destroy", "notifyDel", "remove"} \subseteq Label \ {"range"}
  BY DEF Label, Critical
<1>3. ASSUME NEW label, label \in Label \ {"range"}, Goto(r, label),
             Ahead[label] < Ahead[pc[r]],
             loc'[r].op = loc[r].op, loc'[r].seen = loc[r].seen
      PROVE  StepsLeft(r)' < StepsLeft(r)
  BY <1>3, NearerWithin
<1>4. ASSUME pc[r] \in Critical \union {"readHandler"}, Return(r) \/ Panic(r) \/ Goto(r, Continue(r)),
             UNCHANGED loc
      PROVE  StepsLeft(r)' < StepsLeft(r)
  BY <1>4, NearerReturn DEF Return, Panic
<1>5. loc \in [Req -> Locals]
  BY DEF TypeOK
<1>6. CASE ReadOld(r)
  <2>1. loc'[r].op = loc[r].op /\ loc'[r].seen = loc[r].seen
    BY <1>5, <1>6 DEF ReadOld, Locals
  <2> QED
    BY <1>1, <1>2, <1>3, <1>6, <2>1 DEF ReadOld
<1>7. CASE Lock(r)
  BY <1>1, <1>2, <1>3, <1>7 DEF Lock
<1>8. CASE Create(r)
  <2>1. CASE Goto(r, "store") /\ loc' = [loc EXCEPT ![r].fh = Len(created')]
    <3>1. loc'[r].op = loc[r].op /\ loc'[r].seen = loc[r].seen
      BY <1>5, <2>1 DEF Locals
    <3> QED
      BY <1>1, <1>2, <1>3, <1>8, <2>1, <3>1 DEF Create
  <2>2. CASE Return(r) /\ UNCHANGED loc
    BY <1>4, <1>8, <2>2 DEF Create, Critical
  <2> QED
    BY <1>8, <2>1, <2>2 DEF Create
<1>9. CASE Store(r)
  BY <1>1, <1>2, <1>3, <1>9 DEF Store
<1>10. CASE Start(r)
  <2>1. CASE Goto(r, "notifyAdd")
    BY <1>1, <1>2, <1>3, <1>10, <2>1 DEF Start
  <2>2. CASE Return(r)
    BY <1>4, <1>10, <2>2 DEF Start, Critical
  <2> QED
    BY <1>10, <2>1, <2>2 DEF Start
<1>11. CASE NotifyAdd(r)
  <2>1. CASE Goto(r, "destroyOld")
    BY <1>1, <1>2, <1>3, <1>11, <2>1 DEF NotifyAdd
  <2>2. CASE Return(r) \/ Panic(r)
    BY <1>4, <1>11, <2>2 DEF NotifyAdd, Critical
  <2> QED
    BY <1>11, <2>1, <2>2 DEF NotifyAdd
<1>12. CASE DestroyOld(r)
  BY <1>4, <1>12 DEF DestroyOld, Critical
<1>13. CASE ReadHandler(r)
  <2>1. CASE Goto(r, "lockDelete") /\ loc' = [loc EXCEPT ![r].fh = functionHandlers[loc[r].name]]
    <3>1. loc'[r].op = loc[r].op /\ loc'[r].seen = loc[r].seen
      BY <1>5, <2>1 DEF Locals
    <3> QED
      BY <1>1, <1>2, <1>3, <1>13, <2>1, <3>1 DEF ReadHandler
  <2>2. CASE Goto(r, Continue(r)) /\ UNCHANGED loc
    BY <1>4, <1>13, <2>2 DEF ReadHandler
  <2> QED
    BY <1>13, <2>1, <2>2 DEF ReadHandler
<1>14. CASE DestroyHandler(r)
  <2>1. CASE Goto(r, "notifyDel")
    BY <1>1, <1>2, <1>3, <1>14, <2>1 DEF DestroyHandler
  <2>2. CASE Return(r)
    BY <1>4, <1>14, <2>2 DEF DestroyHandler, Critical
  <2> QED
    BY <1>14, <2>1, <2>2 DEF DestroyHandler
<1>15. CASE NotifyDel(r)
  <2>1. CASE Goto(r, "remove")
    BY <1>1, <1>2, <1>3, <1>15, <2>1 DEF NotifyDel
  <2>2. CASE Return(r) \/ Panic(r)
    BY <1>4, <1>15, <2>2 DEF NotifyDel, Critical
  <2> QED
    BY <1>15, <2>1, <2>2 DEF NotifyDel
<1>16. CASE Remove(r)
  BY <1>4, <1>16 DEF Remove, Critical
<1>17. CASE RangeNext(r)
  <2>1. PICK n \in Registered \ loc[r].seen :
            loc' = [loc EXCEPT ![r].name = n, ![r].seen = @ \union {n}]
    BY <1>17 DEF RangeNext
  <2>2. pc[r] = "range" /\ pc'[r] = "readHandler"
    BY <1>17 DEF RangeNext, Goto, TypeOK
  <2>3. n \in Unseen(r) /\ Unseen(r)' = Unseen(r) \ {n}
    BY <1>5, <2>1 DEF Unseen, Registered, Locals
  <2>4. Cardinality(Unseen(r)') = Cardinality(Unseen(r)) - 1 /\ Cardinality(Unseen(r)) \in Nat
    <3>1. \A S, x : IsFiniteSet(S) /\ x \in S => Cardinality(S \ {x}) = Cardinality(S) - 1
      BY FS_RemoveElement
    <3>2. IsFiniteSet(Unseen(r)) /\ Cardinality(Unseen(r)) \in Nat
      BY UnseenCounts
    <3>3. Cardinality(Unseen(r) \ {n}) = Cardinality(Unseen(r)) - 1
      BY <2>3, <3>1, <3>2
    <3> QED
      BY <2>3, <3>2, <3>3
  <2>5. Cardinality(Unseen(r)') \in Nat
    <3>1. IsFiniteSet(Unseen(r) \ {n})
      BY UnseenCounts, FS_RemoveElement
    <3> QED
      BY <2>3, <3>1, FS_CardinalityType
  <2>6. StepsLeft(r) = 6 * Cardinality(Unseen(r)) + 1
    BY <2>2, <2>4, AheadType DEF StepsLeft, Ranges
  <2>7. StepsLeft(r)' <= 5 + 6 * Cardinality(Unseen(r)') + 1 /\ StepsLeft(r)' \in Int
    BY <1>1, <2>2, <2>5 DEF StepsLeft
  <2> QED
    BY <2>4, <2>6, <2>7
<1>18. CASE RangeEnd(r)
  BY <1>18, NearerDone DEF RangeEnd
<1> QED
  BY <1>6, <1>7, <1>8, <1>9, <1>10, <1>11, <1>12, <1>13, <1>14, <1>15, <1>16, <1>17, <1>18 DEF Step

\* Requests leave each other's control state and locals alone.
LEMMA OthersStay ==
  ASSUME TypeOK, NEW q \in Req, Begin(q) \/ Step(q), NEW r \in Req, r # q
  PROVE  UNCHANGED <<pc[r], loc[r]>>
<1>1. \A label : Goto(q, label) => pc'[r] = pc[r]
  BY DEF TypeOK, Goto
<1>2. CASE Begin(q)
  BY <1>1, <1>2 DEF TypeOK, Begin, BeginUpload, BeginDelete, BeginWipe, BeginStop
<1>3. CASE Step(q)
  <2>1. pc'[r] = pc[r]
    BY <1>1, <1>3 DEF Step, ReadOld, Lock, Create, Store, Start, NotifyAdd, DestroyOld,
       ReadHandler, DestroyHandler, NotifyDel, Remove, RangeNext, RangeEnd, Return, Panic
  <2>2. loc'[r] = loc[r]
    BY <1>3 DEF TypeOK, Step, ReadOld, Lock, Create, Store, Start, NotifyAdd, DestroyOld,
       ReadHandler, DestroyHandler, NotifyDel, Remove, RangeNext, RangeEnd
  <2> QED
    BY <2>1, <2>2
<1> QED
  BY <1>2, <1>3

\* A step of the system is not the request's own or brings its answer nearer, once
\* it has begun.
LEMMA NextNearer ==
  ASSUME TypeOK, IsFiniteSet(Name), [Next]_vars, NEW r \in Req, pc[r] # "idle"
  PROVE  UNCHANGED <<pc[r], loc[r]>> \/ StepsLeft(r)' < StepsLeft(r)
<1>1. CASE \E q \in Req : Begin(q) \/ Step(q)
  <2>1. PICK q \in Req : Begin(q) \/ Step(q)
    BY <1>1
  <2>2. CASE q # r
    BY <2>1, <2>2, OthersStay
  <2>3. CASE q = r
    <3>1. ~Begin(r)
      BY DEF Begin, BeginUpload, BeginDelete, BeginWipe, BeginStop
    <3>2. Step(r)
      BY <2>1, <2>3, <3>1
    <3> QED
      BY <3>2, StepNearer
  <2> QED
    BY <2>2, <2>3
<1>2. CASE MapRace \/ UNCHANGED vars
  BY <1>2 DEF MapRace, vars
<1> QED
  BY <1>1, <1>2 DEF Next

\* Every request is answered after a bounded number of its own steps: what
\* RequestsAnswered asks beyond the fairness of the scheduler and of the lock
\* holds for any number of functions and requests.
THEOREM AnswersComeNearer ==
  ASSUME IsFiniteSet(Name)
  PROVE  Spec => AnswerNearer /\ []StepsBounded
<1>1. TypeOK => StepsBounded
  BY StepsBoundedNow
<1>2. TypeOK /\ [Next]_vars =>
          [\A r \in Req :
              pc[r] # "idle" => UNCHANGED <<pc[r], loc[r]>> \/ StepsLeft(r)' < StepsLeft(r)]_vars
  BY NextNearer
<1> QED
  BY <1>1, <1>2, TypeInvariant, PTL DEF Spec, AnswerNearer

=============================================================================
