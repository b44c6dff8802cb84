-------------------------- MODULE ProxyCallsProofs --------------------------
(***************************************************************************)
(* Theorems about calls through rproxy, for any callers, functions,        *)
(* requests and faults.                                                    *)
(***************************************************************************)
EXTENDS ProxyCalls, FunctionManagerProofs

USE ManagerAssumption, NoneAssumption

\* A handler that is not yet routed is the newest one: it was created under the
\* lock that its request still holds.
NewestInv == \A r \in Req : pc[r] \in {"store", "start", "notifyAdd"} => loc[r].fh = Len(created)

\* No caller has seen a version newer than the one that is routed now, nor than
\* the newest one; a call that is on its way has a route.
SeenInv ==
    \A c \in Caller : \A n \in Name :
        /\ route[c][n] \in Handler \union {0}
        /\ route[c][n] <= Len(created)
        /\ hosts[n] # 0 => route[c][n] <= hosts[n]

CallTypeInv ==
    /\ at \in [Caller -> {"idle", "reading", "posting"}]
    /\ called \in [Caller -> Name \union {None}]
    /\ route \in [Caller -> [Name -> Handler \union {0}]]
    /\ \A c \in Caller : at[c] # "idle" => called[c] \in Name
    /\ \A c \in Caller : at[c] = "posting" => route[c][called[c]] # 0

CallInv == RouteInv /\ NewestInv /\ CallTypeInv /\ SeenInv

-----------------------------------------------------------------------------
(***************************************************************************)
(* The manager's steps                                                     *)
(***************************************************************************)

\* The handlers that exist only grow in number.
LEMMA CreatedGrows ==
  ASSUME IInv, NEW r \in Req, Step(r)
  PROVE  /\ Len(created) \in Nat /\ Len(created') \in Nat
         /\ Len(created) <= Len(created')
         /\ ~Create(r) => created' = created
<1>1. created \in Seq(Name)
  BY DEF IInv, TypeOK
<1>2. CASE Create(r)
  <2>1. loc[r].name \in Name /\ created' = Append(created, loc[r].name)
    BY <1>2 DEF Create, IInv, LocalOK
  <2> QED
    BY <1>1, <1>2, <2>1
<1>3. CASE ~Create(r)
  <2>1. created' = created
    BY <1>3 DEF Step, ReadOld, Lock, Store, Start, NotifyAdd, DestroyOld, ReadHandler,
                DestroyHandler, NotifyDel, Remove, RangeNext, RangeEnd
  <2> QED
    BY <1>1, <2>1
<1> QED
  BY <1>2, <1>3

LEMMA NewestStep ==
  ASSUME IInv, NewestInv, NEW r \in Req, Step(r)
  PROVE  NewestInv'
<1> DEFINE New == {"store", "start", "notifyAdd"}
<1> SUFFICES ASSUME NEW q \in Req, pc'[q] \in New PROVE loc'[q].fh = Len(created')
  BY DEF NewestInv
<1>1. TypeOK
  BY DEF IInv
<1>2. CASE q # r
  <2>1. pc[q] \in New /\ loc'[q] = loc[q]
    BY <1>2, OthersUnchanged
  <2>2. pc[r] \notin Critical
    BY <1>1, <1>2, <2>1 DEF TypeOK, LockHeld, Critical
  <2>3. ~Create(r)
    BY <2>2 DEF Create, Critical
  <2> QED
    BY <2>1, <2>3, CreatedGrows DEF NewestInv
<1>3. CASE q = r
  <2>1. CASE Create(r)
    <3>1. CASE /\ Leave(Len(created'), IF loc[r].threads = 0 THEN "none" ELSE "created", TRUE)
               /\ loc' = [loc EXCEPT ![r].fh = Len(created')]
               /\ Goto(r, "store") /\ NoFault /\ UNCHANGED mutex
      <4> DEFINE h == Len(created')
      <4>1. loc' = [loc EXCEPT ![r] = [loc[r] EXCEPT !.fh = h]]
        BY <3>1
      <4>2. loc[r] \in Locals
        BY <1>1 DEF TypeOK
      <4>3. loc'[r] = [loc[r] EXCEPT !.fh = h]
        BY <1>1, <4>1 DEF TypeOK
      <4> QED
        BY <1>3, <4>2, <4>3 DEF Locals
    <3>2. CASE Return(r)
      <4>1. pc'[r] \in {"range", "done"}
        BY <1>1, <3>2 DEF Return, Goto, Continue, TypeOK
      <4> QED
        BY <1>3, <4>1
    <3> QED
      BY <2>1, <3>1, <3>2 DEF Create
  <2>2. CASE Store(r) \/ Start(r)
    <3>1. pc[r] \in New /\ loc' = loc /\ created' = created
      BY <2>2 DEF Store, Start
    <3> QED
      BY <1>3, <3>1 DEF NewestInv
  <2>3. CASE ReadOld(r) \/ ReadHandler(r) \/ RangeNext(r) \/ RangeEnd(r) \/ Lock(r)
    <3>1. pc'[r] \notin New
      BY <1>1, <2>3 DEF ReadOld, ReadHandler, RangeNext, RangeEnd, Lock, Goto, Continue, TypeOK
    <3> QED
      BY <1>3, <3>1
  <2>4. CASE \/ NotifyAdd(r) \/ DestroyOld(r) \/ DestroyHandler(r)
             \/ NotifyDel(r) \/ Remove(r)
    <3>1. pc'[r] \notin New
      BY <1>1, <2>4 DEF NotifyAdd, DestroyOld, DestroyHandler, NotifyDel, Remove, Return,
                        Panic, Goto, Continue, TypeOK
    <3> QED
      BY <1>3, <3>1
  <2> QED
    BY <2>1, <2>2, <2>3, <2>4 DEF Step
<1> QED
  BY <1>2, <1>3

\* A route changes only to the newest handler, or goes.
LEMMA HostsStep ==
  ASSUME IInv, NewestInv, NEW r \in Req, Step(r), NEW n \in Name
  PROVE  hosts'[n] \in {hosts[n], 0, Len(created)}
<1>1. CASE NotifyAdd(r)
  <2>1. /\ loc[r].name \in Name /\ loc[r].threads \in Nat /\ loc[r].fh \in Handler
        /\ loc[r].fh = Len(created)
    BY <1>1, ForHandler DEF IInv, LocalOK, HasNew, NotifyAdd, TypeOK, Locals, NewestInv
  <2>2. PICK answer \in Answer : Post(loc[r].name, loc[r].fh, loc[r].threads, answer)
    BY <1>1 DEF NotifyAdd
  <2>3. /\ \A m \in Name \ {loc[r].name} : hosts'[m] = hosts[m]
        /\ hosts'[loc[r].name] \in
              {hosts[loc[r].name], IF loc[r].threads > 0 THEN loc[r].fh ELSE 0}
    BY <2>1, <2>2, PostType DEF IInv
  <2> QED
    BY <2>1, <2>3
<1>2. CASE NotifyDel(r)
  <2>1. loc[r].name \in Name
    BY <1>2 DEF IInv, LocalOK, NotifyDel
  <2>2. PICK answer \in Answer : Post(loc[r].name, 0, 0, answer)
    BY <1>2 DEF NotifyDel
  <2>3. /\ \A m \in Name \ {loc[r].name} : hosts'[m] = hosts[m]
        /\ hosts'[loc[r].name] \in {hosts[loc[r].name], 0}
    BY <2>1, <2>2, PostType DEF IInv
  <2> QED
    BY <2>1, <2>3
<1>3. Create(r) \/ Start(r) => hosts' = hosts
  BY DEF Create, Start, tables
<1>4. hosts' = hosts \/ NotifyAdd(r) \/ NotifyDel(r)
  BY <1>3 DEF Step, ReadOld, Lock, Store, DestroyOld, ReadHandler, DestroyHandler, Remove,
              RangeNext, RangeEnd, tables
<1> QED
  BY <1>1, <1>2, <1>4

\* The manager keeps what the callers rely on.
LEMMA ManagerKeeps ==
  ASSUME CallInv, Next, UNCHANGED callVars
  PROVE  CallInv'
<1>1. IInv /\ NewestInv
  BY DEF CallInv, RouteInv
<1>2. RouteInv'
  BY RouteNext DEF CallInv
<1>3. CallTypeInv'
  BY DEF CallInv, CallTypeInv, callVars
<1>4. route' = route
  BY DEF callVars
<1>5. CASE \E r \in Req : Begin(r)
  <2>1. PICK r \in Req : Begin(r)
    BY <1>5
  <2>2. created' = created /\ (hosts' = hosts \/ hosts' = [n \in Name |-> 0])
    BY <2>1 DEF Begin, BeginUpload, BeginDelete, BeginWipe, BeginStop, tables
  <2>3. NewestInv'
    <3>1. \A q \in Req : pc'[q] \in {"store", "start", "notifyAdd"} =>
             pc'[q] = pc[q] /\ loc'[q] = loc[q]
      BY <1>1, <2>1, OthersUnchanged, BeginUnchanged DEF Critical
    <3> QED
      BY <1>1, <2>2, <3>1 DEF NewestInv
  <2>4. SeenInv'
    BY <1>4, <2>2 DEF CallInv, SeenInv
  <2> QED
    BY <1>2, <1>3, <2>3, <2>4 DEF CallInv
<1>6. CASE \E r \in Req : Step(r)
  <2>1. PICK r \in Req : Step(r)
    BY <1>6
  <2>2. NewestInv'
    BY <1>1, <2>1, NewestStep
  <2>3. SeenInv'
    <3> SUFFICES ASSUME NEW c \in Caller, NEW n \in Name
                 PROVE  /\ route'[c][n] \in Handler \union {0}
                        /\ route'[c][n] <= Len(created')
                        /\ hosts'[n] # 0 => route'[c][n] <= hosts'[n]
      BY DEF SeenInv
    <3>1. /\ route[c][n] \in Handler \union {0}
          /\ route[c][n] <= Len(created)
          /\ hosts[n] # 0 => route[c][n] <= hosts[n]
      BY DEF CallInv, SeenInv
    <3>2. hosts'[n] \in {hosts[n], 0, Len(created)}
      BY <1>1, <2>1, HostsStep
    <3>3. /\ Len(created) \in Nat /\ Len(created') \in Nat
          /\ Len(created) <= Len(created')
      BY <1>1, <2>1, CreatedGrows
    <3>4. route[c][n] \in Nat
      BY <3>1 DEF Handler
    <3> QED
      BY <1>4, <3>1, <3>2, <3>3, <3>4
  <2> QED
    BY <1>2, <1>3, <2>2, <2>3 DEF CallInv
<1>7. CASE MapRace
  <2>1. UNCHANGED <<created, hosts, pc, loc>>
    BY <1>7 DEF MapRace, tables
  <2> QED
    BY <1>2, <1>3, <1>4, <2>1 DEF CallInv, NewestInv, SeenInv
<1> QED
  BY <1>5, <1>6, <1>7 DEF Next

-----------------------------------------------------------------------------
(***************************************************************************)
(* The steps of the calls and the abort                                    *)
(***************************************************************************)

LEMMA CallerKeeps ==
  ASSUME CallInv, NEW c \in Caller,
         CallStep(c) \/ \E n \in Name : Arrive(c, n)
  PROVE  CallInv'
<1>1. UNCHANGED vars
  BY DEF CallStep, ReadRoute, Finish, Reset, Arrive, callVars
<1>2. RouteInv' /\ NewestInv'
  <2>1. RouteInv'
    BY <1>1, RouteNext DEF CallInv
  <2> QED
    BY <1>1, <2>1 DEF CallInv, NewestInv, vars
<1>3. hosts' = hosts /\ created' = created
  BY <1>1 DEF vars
<1>4. CASE route' = route /\ (Answered(c) \/ \E n \in Name : Arrive(c, n))
  <2>1. CallTypeInv'
    <3>1. PICK a \in {"idle", "reading"}, n \in Name \union {None} :
             /\ at' = [at EXCEPT ![c] = a]
             /\ called' = [called EXCEPT ![c] = n]
             /\ a = "idle" \/ n \in Name
      BY <1>4 DEF Answered, Arrive
    <3>2. /\ at' \in [Caller -> {"idle", "reading", "posting"}]
          /\ called' \in [Caller -> Name \union {None}]
          /\ at'[c] = a /\ called'[c] = n
          /\ \A d \in Caller \ {c} : at'[d] = at[d] /\ called'[d] = called[d]
      BY <3>1 DEF CallInv, CallTypeInv
    <3> QED
      BY <1>4, <3>1, <3>2 DEF CallInv, CallTypeInv
  <2>2. SeenInv'
    BY <1>3, <1>4 DEF CallInv, SeenInv
  <2> QED
    BY <1>2, <2>1, <2>2 DEF CallInv
<1>5. CASE ReadRoute(c) /\ Found(c)
  <2> DEFINE n == called[c]
             h == hosts[n]
  <2>1. n \in Name /\ h \in Handler /\ h # 0
    BY <1>5 DEF CallInv, CallTypeInv, RouteInv, IInv, TypeOK, ReadRoute, Found
  <2>2. h <= Len(created)
    BY <2>1 DEF CallInv, RouteInv, IInv, TablesInv, For
  <2>3. route' = [route EXCEPT ![c] = [route[c] EXCEPT ![n] = h]]
    BY <1>5 DEF Found
  <2>4. /\ route' \in [Caller -> [Name -> Handler \union {0}]]
        /\ route'[c][n] = h
        /\ \A d \in Caller : \A m \in Name : d # c \/ m # n => route'[d][m] = route[d][m]
    <3> HIDE DEF n, h
    <3> QED
      BY <2>1, <2>3 DEF CallInv, CallTypeInv
  <2>5. SeenInv'
    <3>1. h <= h /\ h \in Nat
      BY <2>1 DEF Handler
    <3> SUFFICES ASSUME NEW d \in Caller, NEW m \in Name
                 PROVE  /\ route'[d][m] \in Handler \union {0}
                        /\ route'[d][m] <= Len(created)
                        /\ hosts[m] # 0 => route'[d][m] <= hosts[m]
      BY <1>3 DEF SeenInv
    <3>2. CASE d = c /\ m = n
      BY <2>1, <2>2, <2>4, <3>1, <3>2
    <3>3. CASE d # c \/ m # n
      BY <2>4, <3>3 DEF CallInv, SeenInv
    <3> QED
      BY <3>2, <3>3
  <2>6. CallTypeInv'
    <3>1. \/ at' = [at EXCEPT ![c] = "idle"] /\ called' = [called EXCEPT ![c] = None]
          \/ at' = [at EXCEPT ![c] = "posting"] /\ UNCHANGED called
      BY <1>5 DEF Found, Answered
    <3> HIDE DEF n, h
    <3>2. /\ at' \in [Caller -> {"idle", "reading", "posting"}]
          /\ called' \in [Caller -> Name \union {None}]
      BY <3>1 DEF CallInv, CallTypeInv
    <3>3. \A d \in Caller : at'[d] # "idle" => called'[d] = called[d] /\ called[d] \in Name
      BY <2>1, <3>1 DEF CallInv, CallTypeInv, n
    <3>4. \A d \in Caller : at'[d] = "posting" => route'[d][called'[d]] # 0
      <4> SUFFICES ASSUME NEW d \in Caller, at'[d] = "posting"
                   PROVE  route'[d][called'[d]] # 0
        OBVIOUS
      <4>1. called'[d] = called[d] /\ called[d] \in Name
        BY <3>3
      <4>2. CASE d = c
        BY <2>1, <2>4, <4>1, <4>2 DEF n
      <4>3. CASE d # c
        <5>1. at[d] = "posting"
          BY <3>1, <4>3 DEF CallInv, CallTypeInv
        <5> QED
          BY <2>4, <4>1, <4>3, <5>1 DEF CallInv, CallTypeInv
      <4> QED
        BY <4>2, <4>3
    <3> QED
      BY <2>4, <3>2, <3>3, <3>4 DEF CallTypeInv
  <2> QED
    BY <1>2, <2>5, <2>6 DEF CallInv
<1> QED
  BY <1>4, <1>5 DEF CallStep, ReadRoute, NotFound, Finish, Reset, Arrive

\* The abort frees the lock and takes every route.
LEMMA ProxyRaceKeeps ==
  ASSUME CallInv, NEW c \in Caller, NEW r \in Req, ProxyRace(c, r)
  PROVE  CallInv'
<1>1. IInv /\ TypeOK
  BY DEF CallInv, RouteInv, IInv
<1>2. pc[r] \in {"notifyAdd", "notifyDel"} /\ pc[r] \in Critical
  BY DEF ProxyRace, WritesTable, Critical
<1>3. /\ rproxy' = FALSE /\ hosts' = [n \in Name |-> 0]
      /\ Return(r) \/ Panic(r)
      /\ manager' \in {manager, "crashed"}
      /\ UNCHANGED <<functionHandlers, docker, created, loc, faults>>
      /\ UNCHANGED callVars
  BY DEF ProxyRace, Panic
<1>4. /\ pc' \in [Req -> Label] /\ mutex' \in Req \union {None} /\ LockHeld'
      /\ \A q \in Req \ {r} : pc'[q] = pc[q]
      /\ LocalOK(r)'
  BY <1>1, <1>2, <1>3, ReturnFacts
<1>5. pc'[r] \in {"range", "done"}
  BY <1>1, <1>3 DEF Return, Panic, Goto, Continue, TypeOK
<1>6. IInv'
  <2>1. TypeOK'
    BY <1>1, <1>3, <1>4 DEF TypeOK
  <2>2. TablesInv'
    BY <1>1, <1>3 DEF IInv, TablesInv, For
  <2>3. \A q \in Req : LocalOK(q)'
    BY <1>1, <1>2, <1>3, <1>4, OthersKept
  <2> QED
    BY <2>1, <2>2, <2>3 DEF IInv
<1>7. RouteInv'
  BY <1>3, <1>6 DEF CallInv, RouteInv, NetworkOK, RoutesUp, RouteLive
<1>8. NewestInv'
  BY <1>3, <1>4, <1>5 DEF CallInv, NewestInv
<1>9. CallTypeInv' /\ SeenInv'
  BY <1>3 DEF CallInv, CallTypeInv, SeenInv, callVars
<1> QED
  BY <1>7, <1>8, <1>9 DEF CallInv

LEMMA CallNextKeeps == CallInv /\ [CallNext]_<<vars, callVars>> => CallInv'
<1> SUFFICES ASSUME CallInv, [CallNext]_<<vars, callVars>> PROVE CallInv'
  OBVIOUS
<1>1. CASE CallNext
  BY <1>1, ManagerKeeps, CallerKeeps, ProxyRaceKeeps DEF CallNext
<1>2. CASE UNCHANGED <<vars, callVars>>
  <2>1. RouteInv'
    BY <1>2, RouteNext DEF CallInv
  <2> QED
    BY <1>2, <2>1 DEF CallInv, NewestInv, CallTypeInv, SeenInv, vars, callVars
<1> QED
  BY <1>1, <1>2

LEMMA CallInvariant == CallSpec => []CallInv
<1>1. CallInit => CallInv
  <2> SUFFICES ASSUME CallInit PROVE CallInv
    OBVIOUS
  <2>1. Init
    BY DEF CallInit
  <2>2. Len(created) = 0
    BY <2>1 DEF Init
  <2>3. NewestInv
    BY <2>1 DEF Init, NewestInv
  <2>4. CallTypeInv
    BY DEF CallInit, CallTypeInv
  <2>5. SeenInv
    <3>1. hosts = [n \in Name |-> 0] /\ route = [c \in Caller |-> [n \in Name |-> 0]]
      BY <2>1 DEF Init, CallInit
    <3>2. \A c \in Caller : \A n \in Name : route[c][n] = 0 /\ hosts[n] = 0
      BY <3>1
    <3>3. 0 <= Len(created)
      BY <2>2
    <3> QED
      BY <3>2, <3>3 DEF SeenInv
  <2> QED
    BY <2>1, <2>3, <2>4, <2>5, RouteInvariantInit DEF CallInv
<1> QED
  BY <1>1, CallNextKeeps, PTL DEF CallSpec

-----------------------------------------------------------------------------
\* A caller never goes back to an older version of a function
\* (VersionsForward): routes lead only to handlers that were created later than
\* all those that were routed before.
THEOREM VersionsGoForward == CallSpec => VersionsForward
<1> DEFINE Forward == \A c \in Caller, n \in Name : route[c][n] <= route'[c][n]
<1>1. CallInv /\ [CallNext]_<<vars, callVars>> => [Forward]_<<vars, callVars>>
  <2> SUFFICES ASSUME CallInv, CallNext, NEW c \in Caller, NEW n \in Name
               PROVE  route[c][n] <= route'[c][n]
    OBVIOUS
  <2>1. /\ route[c][n] \in Nat
        /\ hosts[n] # 0 => route[c][n] <= hosts[n]
    BY DEF CallInv, SeenInv, Handler
  <2>2. CASE route' = route
    BY <2>1, <2>2
  <2>3. ASSUME NEW d \in Caller, Found(d), ReadRoute(d)
        PROVE  route[c][n] <= route'[c][n]
    <3>1. called[d] \in Name
      BY <2>3 DEF ReadRoute, CallInv, CallTypeInv
    <3>2. route' = [route EXCEPT ![d] = [route[d] EXCEPT ![called[d]] = hosts[called[d]]]]
      BY <2>3 DEF Found
    <3>3. CASE c = d /\ n = called[d]
      <4>1. route'[c][n] = hosts[n]
        BY <3>1, <3>2, <3>3 DEF CallInv, CallTypeInv
      <4> QED
        BY <2>1, <2>3, <3>3, <4>1 DEF Found
    <3>4. CASE ~(c = d /\ n = called[d])
      <4>1. route'[c][n] = route[c][n]
        BY <3>1, <3>2, <3>4 DEF CallInv, CallTypeInv
      <4> QED
        BY <2>1, <4>1
    <3> QED
      BY <3>3, <3>4
  <2>4. route' = route \/ \E d \in Caller : Found(d) /\ ReadRoute(d)
    BY DEF CallNext, CallStep, Arrive, ReadRoute, NotFound, Finish, Reset, ProxyRace, callVars
  <2> QED
    BY <2>2, <2>3, <2>4
<1>2. [][Forward]_<<vars, callVars>> <=> VersionsForward
  BY PTL DEF VersionsForward
<1> QED
  BY <1>1, <1>2, CallInvariant, PTL DEF CallSpec

=============================================================================
