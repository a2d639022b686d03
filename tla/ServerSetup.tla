---------------------------- MODULE ServerSetup ----------------------------
(***************************************************************************)
(* QuicheServerSocket::__construct (src/conn.rs) on several PHP threads at *)
(* once: get_runtime (src/quiche/runtime.rs), which all threads share, and *)
(* QuicheServerSocketImpl::bind (src/quiche/socket.rs), which takes the    *)
(* addresses of the host.  The eventfd half of __construct is in           *)
(* EventFdShutdown.                                                        *)
(*                                                                         *)
(* Definitions named X_Y are wrong versions of X, as in the other modules. *)
(***************************************************************************)
EXTENDS Config, FiniteSets

CONSTANTS
  Threads,      \* the PHP threads, each with a script of its own
  Addrs,        \* the socket addresses of the host
  AddrLists,    \* what a script may pass as $sockets
  EnvWorkers,   \* QUICHE_WORKER_THREADS as a number; None: unset, no number
  Cores         \* available_parallelism; None: not known

MinWorkerThreads == 2

ASSUME SetupAssumption ==
  /\ AddrLists \subseteq Seq(Addrs)
  /\ EnvWorkers \subseteq Nat \cup {None}
  /\ Cores \subseteq (Nat \ {0}) \cup {None}

VARIABLES
  at,        \* where each thread is in __construct
  RUNTIME,   \* the static OnceLock: at most one runtime
  alive,     \* the runtimes that exist
  home,      \* the runtime each thread's server was bound on, at most one
  given,     \* the addresses of its __construct
  toBind,    \* those UdpSocket::bind has yet to take
  owner      \* external: who has a socket on each address, at most one thread

setupVars == <<inner, at, RUNTIME, alive, home, given, toBind, owner>>

\* "script"   outside __construct      "get"      RUNTIME.get()
\* "build"    found no runtime         "set"      has built one
\* "read"     RUNTIME is set           "bind"     in bind
\* "running"  has a server
SetupStates == {"script", "get", "build", "set", "read", "bind", "running"}

\* A runtime is its builder and its number of worker threads, which tokio
\* wants to be positive.
Runtime == [by: Threads, workers: Nat \ {0}]

\* Every variable has its type.
SetupTypeOK ==
  /\ ConfigTypeOK
  /\ at \in [Threads -> SetupStates]
  /\ RUNTIME \in SUBSET Runtime /\ alive \in SUBSET Runtime
  /\ home \in [Threads -> SUBSET Runtime]
  /\ given \in [Threads -> Seq(Addrs)] /\ toBind \in [Threads -> Seq(Addrs)]
  /\ owner \in [Addrs -> SUBSET Threads]

SetupInit ==
  /\ ConfigInit
  /\ at = [t \in Threads |-> "script"]
  /\ RUNTIME = {} /\ alive = {} /\ home = [t \in Threads |-> {}]
  /\ given = [t \in Threads |-> <<>>] /\ toBind = [t \in Threads |-> <<>>]
  /\ owner = [a \in Addrs |-> {}]

-----------------------------------------------------------------------------
Step(t, from, to) ==
  at[t] = from /\ at' = [at EXCEPT ![t] = to] /\ UNCHANGED inner

\* A $on_stream that is not callable is refused before anything happens.
Construct(t) ==
  /\ Step(t, "script", "get")
  /\ \E list \in AddrLists : given' = [given EXCEPT ![t] = list]
  /\ UNCHANGED <<RUNTIME, alive, home, toBind, owner>>

(***************************************************************************)
(* get_runtime.                                                            *)
(***************************************************************************)
WorkerThreadCount_AnyNumber(env, cores) ==
  IF env # None THEN env
  ELSE IF cores > MinWorkerThreads THEN cores ELSE MinWorkerThreads

WorkerThreadCount(env, cores) ==
  IF env >= 1 THEN env
  ELSE IF cores > MinWorkerThreads THEN cores ELSE MinWorkerThreads

FindRuntime(t) ==
  /\ Step(t, "get", IF RUNTIME = {} THEN "build" ELSE "read")
  /\ UNCHANGED <<RUNTIME, alive, home, given, toBind, owner>>

BuildRuntime(t) ==
  /\ Step(t, "build", "set")
  /\ \E env \in EnvWorkers, cores \in Cores :
       alive' = alive \cup {[by |-> t, workers |-> WorkerThreadCount(env, cores)]}
  /\ UNCHANGED <<RUNTIME, home, given, toBind, owner>>

BuildFails(t) ==
  /\ Step(t, "build", "script")
  /\ given' = [given EXCEPT ![t] = <<>>]
  /\ UNCHANGED <<RUNTIME, alive, home, toBind, owner>>

SetRuntime_Replace(t, r) ==
  /\ Step(t, "set", "read")
  /\ RUNTIME' = {r} /\ alive' = alive \ RUNTIME
  /\ UNCHANGED <<home, given, toBind, owner>>

SetRuntime_Expect(t, r) ==
  /\ RUNTIME = {} /\ Step(t, "set", "read")
  /\ RUNTIME' = {r}
  /\ UNCHANGED <<alive, home, given, toBind, owner>>

\* RUNTIME.set: the first one stays, the runtime of a later one is dropped.
SetRuntime(t, r) ==
  /\ Step(t, "set", "read")
  /\ IF RUNTIME = {} THEN RUNTIME' = {r} /\ UNCHANGED alive
     ELSE UNCHANGED RUNTIME /\ alive' = alive \ {r}
  /\ UNCHANGED <<home, given, toBind, owner>>

\* The RUNTIME.get() that ends get_runtime, with its error; block_on begins.
ReadRuntime(t) ==
  /\ Step(t, "read", IF RUNTIME = {} THEN "script" ELSE "bind")
  /\ home' = [home EXCEPT ![t] = RUNTIME]
  /\ toBind' = [toBind EXCEPT ![t] = given[t]]
  /\ UNCHANGED <<RUNTIME, alive, given, owner>>

(***************************************************************************)
(* bind.                                                                   *)
(***************************************************************************)
Release_Forget(t) == UNCHANGED owner

\* The sockets that were bound are dropped with the future that failed.
Release(t) == owner' = [a \in Addrs |-> owner[a] \ {t}]

Raise(t) ==
  /\ Step(t, "bind", "script")
  /\ Release(t)
  /\ home' = [home EXCEPT ![t] = {}]
  /\ given' = [given EXCEPT ![t] = <<>>] /\ toBind' = [toBind EXCEPT ![t] = <<>>]
  /\ UNCHANGED <<RUNTIME, alive>>

\* try_join_all: a name is resolved when it is, so in any order.
BindOne(t, i) ==
  LET a == toBind[t][i] IN
  /\ Step(t, "bind", "bind") /\ owner[a] = {}
  /\ owner' = [owner EXCEPT ![a] = {t}]
  /\ toBind' = [toBind EXCEPT ![t] = RemoveAt(@, i)]
  /\ UNCHANGED <<RUNTIME, alive, home, given>>

\* No address at all, an address in use or that cannot be bound, a list()
\* that fails (the certificate, say).
BindFails(t) == Raise(t)

Listening(t) ==
  /\ Step(t, "bind", "running")
  /\ given[t] # <<>> /\ toBind[t] = <<>>
  /\ UNCHANGED <<RUNTIME, alive, home, given, toBind, owner>>

-----------------------------------------------------------------------------
ConstructStep(t) ==
  \/ FindRuntime(t) \/ BuildRuntime(t) \/ BuildFails(t) \/ ReadRuntime(t)
  \/ \E r \in alive : r.by = t /\ SetRuntime(t, r)
  \/ \E i \in DOMAIN toBind[t] : BindOne(t, i)
  \/ BindFails(t) \/ Listening(t)

SetupNext ==
  \/ \E t \in Threads : Construct(t) \/ ConstructStep(t)
  \/ ConfigStep /\ UNCHANGED <<at, RUNTIME, alive, home, given, toBind, owner>>

SetupSpec == SetupInit /\ [][SetupNext]_setupVars

\* A thread inside __construct goes on.
FairSetupSpec == SetupSpec /\ \A t \in Threads : WF_setupVars(ConstructStep(t))

-----------------------------------------------------------------------------
\* Whoever wins the race to set RUNTIME, all servers are bound on the one
\* runtime, which is never replaced or dropped under them, and of the others
\* only those are left whose builder is about to drop them.
OneRuntime ==
  /\ \A t \in Threads : home[t] \subseteq RUNTIME
  /\ RUNTIME \subseteq alive
  /\ \A r \in alive \ RUNTIME : at[r.by] = "set"
  /\ \A q, r \in RUNTIME : q = r

\* A server has a socket on all the addresses it was given, and a __construct
\* that failed has left none behind: not when another thread was there first,
\* not when the list names an address twice.
AllOrNothing ==
  \A t \in Threads :
    LET mine == {a \in Addrs : t \in owner[a]} IN
    /\ at[t] = "running" => mine = ToSet(given[t])
    /\ at[t] \notin {"bind", "running"} => mine = {}

\* __construct ends, with a server or an exception, also for the threads that
\* lose the race to set RUNTIME.
ConstructEnds ==
  \A t \in Threads : at[t] = "get" ~> at[t] \in {"script", "running"}
=============================================================================
