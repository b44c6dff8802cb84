----------------------------- MODULE ProxyCalls -----------------------------
(***************************************************************************)
(* Calls of functions through tinyFaaS's reverse proxy while the manager   *)
(* replaces and deletes them.  Call reads the routing table without the    *)
(* lock hl that Add and Del hold, and posts to the containers it found     *)
(* there, which may be gone by then.  When the Go runtime detects the      *)
(* concurrent access it aborts rproxy; nobody starts it again.             *)
(***************************************************************************)
EXTENDS FunctionManager

CONSTANT
    Caller      \* the functions' callers, each with one call at a time

VARIABLES
    at,         \* [Caller -> "idle", "reading" or "posting"]
    called,     \* [Caller -> Name or None]: the function of the call
    route       \* [Caller -> [Name -> Handler or 0]]: the last route it found

callVars == <<at, called, route>>

CallInit ==
    /\ Init
    /\ at = [c \in Caller |-> "idle"]
    /\ called = [c \in Caller |-> None]
    /\ route = [c \in Caller |-> [n \in Name |-> 0]]

-----------------------------------------------------------------------------
Arrive(c, n) ==
    /\ at[c] = "idle"
    /\ rproxy
    /\ at' = [at EXCEPT ![c] = "reading"]
    /\ called' = [called EXCEPT ![c] = n]
    /\ UNCHANGED <<vars, route>>

Answered(c) ==
    /\ at' = [at EXCEPT ![c] = "idle"]
    /\ called' = [called EXCEPT ![c] = None]

\* Call without a route is answered with 404.
NotFound(c) == hosts[called[c]] = 0 /\ Answered(c) /\ UNCHANGED route

\* An asynchronous call is answered with 202, a synchronous one waits for the
\* post.
Found(c) ==
    /\ hosts[called[c]] # 0
    /\ route' = [route EXCEPT ![c][called[c]] = hosts[called[c]]]
    /\ \/ Answered(c)
       \/ at' = [at EXCEPT ![c] = "posting"] /\ UNCHANGED called

ReadRoute(c) ==
    /\ at[c] = "reading"
    /\ rproxy
    /\ NotFound(c) \/ Found(c)
    /\ UNCHANGED vars

\* The post to a container returns, with a result or an error.
Finish(c) ==
    /\ at[c] = "posting"
    /\ Answered(c)
    /\ UNCHANGED <<vars, route>>

\* rproxy is gone, and with it the connection to the caller.
Reset(c) ==
    /\ at[c] # "idle"
    /\ ~rproxy
    /\ Answered(c)
    /\ UNCHANGED <<vars, route>>

\* Request r is at a post that will write the table.
WritesTable(r) ==
    \/ pc[r] = "notifyAdd" /\ (loc[r].threads > 0 \/ hosts[loc[r].name] # 0)
    \/ pc[r] = "notifyDel" /\ hosts[loc[r].name] # 0

\* The abort: every route is lost, and the post of the request that wrote ends
\* with an error or with io.EOF.
ProxyRace(c, r) ==
    /\ manager = "up"
    /\ rproxy
    /\ at[c] = "reading"
    /\ WritesTable(r)
    /\ rproxy' = FALSE
    /\ hosts' = [n \in Name |-> 0]
    /\ (Return(r) /\ UNCHANGED manager) \/ Panic(r)
    /\ UNCHANGED <<functionHandlers, docker, created, loc, faults, callVars>>

CallStep(c) ==
    \/ ReadRoute(c)
    \/ Finish(c)
    \/ Reset(c)

CallNext ==
    \/ Next /\ UNCHANGED callVars
    \/ \E c \in Caller, n \in Name : Arrive(c, n)
    \/ \E c \in Caller : CallStep(c)
    \/ \E c \in Caller, r \in Req : ProxyRace(c, r)

CallSpec == CallInit /\ [][CallNext]_<<vars, callVars>>

\* FairSpec's fairness of the manager.  Nothing is assumed of the callers: a post
\* to a container has no timeout and may never return.
CallFairSpec ==
    /\ CallSpec
    /\ \A r \in Req :
          /\ WF_<<vars, callVars>>(manager = "up" /\ Step(r) /\ UNCHANGED callVars)
          /\ SF_<<vars, callVars>>(manager = "up" /\ Lock(r) /\ UNCHANGED callVars)

-----------------------------------------------------------------------------
\* A caller that calls a function again never gets an older version of it than
\* before, whatever uploads, deletes and lost answers lie between.
VersionsForward ==
    [][\A c \in Caller, n \in Name : route[c][n] <= route'[c][n]]_<<vars, callVars>>

=============================================================================
