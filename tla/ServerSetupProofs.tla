------------------------- MODULE ServerSetupProofs -------------------------
(***************************************************************************)
(* Theorems about ServerSetup, for any number of PHP threads, any lists of *)
(* addresses and any texts and timeouts given to the Config object.        *)
(***************************************************************************)
EXTENDS ServerSetup, ConfigProofs

(***************************************************************************)
(* Types, those of the Config object apart.                                *)
(***************************************************************************)
ThreadTypes ==
  /\ at \in [Threads -> SetupStates]
  /\ RUNTIME \in SUBSET Runtime /\ alive \in SUBSET Runtime
  /\ home \in [Threads -> SUBSET Runtime]
  /\ given \in [Threads -> Seq(Addrs)] /\ toBind \in [Threads -> Seq(Addrs)]
  /\ owner \in [Addrs -> SUBSET Threads]

\* Binding one address takes it off the list and nothing else.
LEMMA TakenOff ==
  ASSUME NEW list \in Seq(Addrs), NEW i \in DOMAIN list
  PROVE  /\ RemoveAt(list, i) \in Seq(Addrs)
         /\ list[i] \in Addrs
         /\ ToSet(list) = ToSet(RemoveAt(list, i)) \cup {list[i]}
<1> DEFINE n == Len(list)
           front == SubSeq(list, 1, i - 1)
           back == SubSeq(list, i + 1, n)
           rest == front \o back
<1>1. /\ n \in Nat /\ i \in 1 .. n /\ DOMAIN list = 1 .. n
      /\ \A j \in 1 .. n : list[j] \in Addrs
  OBVIOUS
<1>2. /\ front \in Seq(Addrs) /\ Len(front) = i - 1
      /\ \A j \in 1 .. i - 1 : front[j] = list[j]
  <2>1. \A j \in 1 .. i - 1 : list[j] \in Addrs
    BY <1>1
  <2>2. 1 \in Int /\ i - 1 \in Int
    BY <1>1
  <2> HIDE DEF n
  <2>3. /\ front \in Seq(Addrs)
        /\ Len(front) = IF 1 <= i - 1 THEN i - 1 - 1 + 1 ELSE 0
        /\ \A j \in 1 .. i - 1 - 1 + 1 : front[j] = list[1 + j - 1]
    BY <2>1, <2>2, SubSeqProperties
  <2> HIDE DEF front
  <2> QED
    BY <1>1, <2>3
<1>3. /\ back \in Seq(Addrs) /\ Len(back) = n - i
      /\ \A j \in 1 .. n - i : back[j] = list[i + j]
  <2>1. \A j \in i + 1 .. n : list[j] \in Addrs
    BY <1>1
  <2>2. i + 1 \in Int /\ n \in Int
    BY <1>1
  <2> HIDE DEF n
  <2>3. /\ back \in Seq(Addrs)
        /\ Len(back) = IF i + 1 <= n THEN n - (i + 1) + 1 ELSE 0
        /\ \A j \in 1 .. n - (i + 1) + 1 : back[j] = list[i + 1 + j - 1]
    BY <2>1, <2>2, SubSeqProperties
  <2> HIDE DEF back
  <2>4. n - (i + 1) + 1 = n - i /\ (i + 1 <= n \/ n - i = 0)
    BY <1>1
  <2>5. ASSUME NEW j \in 1 .. n - i PROVE back[j] = list[i + j]
    <3>1. i + 1 + j - 1 = i + j
      BY <1>1
    <3> QED
      BY <2>3, <2>4, <3>1
  <2> QED
    BY <2>3, <2>4, <2>5
<1> HIDE DEF n, front, back
<1>4. /\ rest \in Seq(Addrs) /\ Len(rest) = n - 1
      /\ \A j \in 1 .. n - 1 : rest[j] = IF j <= i - 1 THEN front[j] ELSE back[j - (i - 1)]
  <2>1. /\ rest \in Seq(Addrs)
        /\ Len(rest) = Len(front) + Len(back)
        /\ \A j \in 1 .. Len(front) + Len(back) :
             rest[j] = IF j <= Len(front) THEN front[j] ELSE back[j - Len(front)]
    BY <1>2, <1>3, ConcatProperties
  <2>2. Len(front) = i - 1 /\ Len(front) + Len(back) = n - 1
    BY <1>1, <1>2, <1>3
  <2> HIDE DEF rest
  <2> QED
    BY <2>1, <2>2
<1> HIDE DEF rest
<1>5. DOMAIN rest = 1 .. n - 1
  BY <1>1, <1>4
<1>6. ASSUME NEW j \in 1 .. n - 1
      PROVE  rest[j] = IF j < i THEN list[j] ELSE list[j + 1]
  <2>1. CASE j < i
    <3>1. j \in 1 .. i - 1 /\ j <= i - 1
      BY <1>1, <2>1
    <3> QED
      BY <1>2, <1>4, <2>1, <3>1
  <2>2. CASE ~(j < i)
    <3>1. /\ j - (i - 1) \in 1 .. n - i /\ ~(j <= i - 1)
          /\ i + (j - (i - 1)) = j + 1
      BY <1>1, <2>2
    <3>2. rest[j] = back[j - (i - 1)] /\ back[j - (i - 1)] = list[i + (j - (i - 1))]
      BY <1>3, <1>4, <3>1
    <3> QED
      BY <2>2, <3>1, <3>2
  <2> QED
    BY <2>1, <2>2
<1>7. ASSUME NEW j \in 1 .. n, j # i PROVE \E k \in 1 .. n - 1 : rest[k] = list[j]
  <2>1. CASE j < i
    BY <1>1, <1>6, <2>1
  <2>2. CASE j > i
    <3>1. j - 1 \in 1 .. n - 1 /\ ~(j - 1 < i) /\ j - 1 + 1 = j
      BY <1>1, <2>2
    <3> QED
      BY <1>6, <3>1
  <2> QED
    BY <1>1, <1>7, <2>1, <2>2
<1>8. \A j \in 1 .. n - 1 : \E k \in 1 .. n : rest[j] = list[k]
  BY <1>1, <1>6
<1>9. ToSet(list) = ToSet(rest) \cup {list[i]}
  <2>1. \A x : x \in ToSet(list) <=> \E j \in 1 .. n : x = list[j]
    BY <1>1 DEF ToSet
  <2>2. \A x : x \in ToSet(rest) <=> \E j \in 1 .. n - 1 : x = rest[j]
    BY <1>5 DEF ToSet
  <2> QED
    BY <1>1, <1>7, <1>8, <2>1, <2>2
<1> QED
  BY <1>1, <1>4, <1>9 DEF rest, front, back, n, RemoveAt

LEMMA InitThreadTypes == SetupInit => ThreadTypes
BY DEF SetupInit, ThreadTypes, SetupStates

\* tokio wants at least one worker, whatever the environment says.
LEMMA SomeWorkers ==
  ASSUME NEW env \in EnvWorkers, NEW cores \in Cores
  PROVE  WorkerThreadCount(env, cores) \in Nat \ {0}
BY SetupAssumption DEF WorkerThreadCount, MinWorkerThreads, None

LEMMA StepThreadTypes == ThreadTypes /\ [SetupNext]_setupVars => ThreadTypes'
<1> SUFFICES ASSUME ThreadTypes, [SetupNext]_setupVars PROVE ThreadTypes'
  OBVIOUS
<1> USE DEF ThreadTypes, SetupStates, Step
<1>1. ASSUME NEW t \in Threads, Construct(t) PROVE ThreadTypes'
  BY <1>1, SetupAssumption DEF Construct
<1>2. ASSUME NEW t \in Threads, FindRuntime(t) PROVE ThreadTypes'
  BY <1>2 DEF FindRuntime
<1>3. ASSUME NEW t \in Threads, BuildRuntime(t) PROVE ThreadTypes'
  <2>1. PICK env \in EnvWorkers, cores \in Cores :
          alive' = alive \cup {[by |-> t, workers |-> WorkerThreadCount(env, cores)]}
    BY <1>3 DEF BuildRuntime
  <2>2. [by |-> t, workers |-> WorkerThreadCount(env, cores)] \in Runtime
    BY SomeWorkers DEF Runtime
  <2>3. alive' \in SUBSET Runtime
    BY <2>1, <2>2
  <2> QED
    BY <1>3, <2>3 DEF BuildRuntime
<1>4. ASSUME NEW t \in Threads, BuildFails(t) PROVE ThreadTypes'
  BY <1>4 DEF BuildFails
<1>5. ASSUME NEW t \in Threads, NEW r \in alive, SetRuntime(t, r) PROVE ThreadTypes'
  BY <1>5 DEF SetRuntime
<1>6. ASSUME NEW t \in Threads, ReadRuntime(t) PROVE ThreadTypes'
  BY <1>6 DEF ReadRuntime
<1>7. ASSUME NEW t \in Threads, BindFails(t) PROVE ThreadTypes'
  BY <1>7 DEF BindFails, Raise, Release
<1>8. ASSUME NEW t \in Threads, NEW i \in DOMAIN toBind[t], BindOne(t, i) PROVE ThreadTypes'
  <2>1. toBind[t] \in Seq(Addrs)
    OBVIOUS
  <2>2. toBind[t][i] \in Addrs /\ RemoveAt(toBind[t], i) \in Seq(Addrs)
    BY <2>1, TakenOff
  <2>3. /\ toBind' = [toBind EXCEPT ![t] = RemoveAt(toBind[t], i)]
        /\ owner' = [owner EXCEPT ![toBind[t][i]] = {t}]
        /\ at' = [at EXCEPT ![t] = "bind"]
        /\ UNCHANGED <<RUNTIME, alive, home, given>>
    BY <1>8 DEF BindOne
  <2> QED
    BY <2>2, <2>3
<1>9. ASSUME NEW t \in Threads, Listening(t) PROVE ThreadTypes'
  BY <1>9 DEF Listening
<1>10. CASE UNCHANGED <<at, RUNTIME, alive, home, given, toBind, owner>>
  BY <1>10
<1> QED
  BY <1>1, <1>2, <1>3, <1>4, <1>5, <1>6, <1>7, <1>8, <1>9, <1>10
     DEF SetupNext, ConstructStep, setupVars

-----------------------------------------------------------------------------
(***************************************************************************)
(* The Config object.                                                      *)
(***************************************************************************)
LEMMA StepConfigType == ConfigTypeOK /\ [SetupNext]_setupVars => ConfigTypeOK'
<1> SUFFICES ASSUME ConfigTypeOK, [SetupNext]_setupVars PROVE ConfigTypeOK'
  OBVIOUS
<1>1. CASE ConfigStep
  BY <1>1, ConfigStepType
<1>2. CASE UNCHANGED inner
  BY <1>2 DEF ConfigTypeOK
<1>3. ASSUME NEW t \in Threads, Construct(t) \/ ConstructStep(t) PROVE UNCHANGED inner
  <2>1. PICK from, to : Step(t, from, to)
    BY <1>3 DEF Construct, ConstructStep, FindRuntime, BuildRuntime, BuildFails, ReadRuntime,
                SetRuntime, BindOne, BindFails, Raise, Listening
  <2> QED
    BY <2>1 DEF Step
<1> QED
  BY <1>1, <1>2, <1>3 DEF SetupNext, setupVars

\* Every variable has its type: a runtime has at least one worker, whatever
\* QUICHE_WORKER_THREADS says, a timeout is less than a second in its rest, and
\* a token is no more than the largest number, whatever text it was set from.
THEOREM SetupTypeCorrect == SetupSpec => []SetupTypeOK
<1>1. SetupInit => SetupTypeOK
  BY ConfigInitType, InitThreadTypes DEF SetupInit, SetupTypeOK, ThreadTypes
<1>2. SetupTypeOK /\ [SetupNext]_setupVars => SetupTypeOK'
  BY StepConfigType, StepThreadTypes DEF SetupTypeOK, ThreadTypes
<1> QED
  BY <1>1, <1>2, PTL DEF SetupSpec

\* config.rs:357-369 and the timeouts there: a Config that is handed what the getters
\* of another return is the same as it, at any radix and any largest number.
THEOREM ConfigCopiesOver == SetupSpec => []CopiesOver
<1>1. SetupInit => ConfigTypeOK
  BY ConfigInitType DEF SetupInit
<1> QED
  BY <1>1, StepConfigType, TypedCopiesOver, PTL DEF SetupSpec

-----------------------------------------------------------------------------
(***************************************************************************)
(* One runtime.                                                            *)
(***************************************************************************)
\* A thread has built at most one runtime that was not set, and it has nothing
\* left to build or to set once its own one is RUNTIME.
RuntimeInv ==
  /\ ThreadTypes /\ OneRuntime
  /\ \A q, r \in alive \ RUNTIME : q.by = r.by => q = r
  /\ \A r \in RUNTIME : at[r.by] \notin {"build", "set"}

LEMMA InitRuntime == SetupInit => RuntimeInv
BY InitThreadTypes DEF SetupInit, RuntimeInv, OneRuntime

LEMMA StepRuntime == RuntimeInv /\ [SetupNext]_setupVars => RuntimeInv'
<1> SUFFICES ASSUME RuntimeInv, [SetupNext]_setupVars PROVE RuntimeInv'
  OBVIOUS
<1>0. ThreadTypes'
  BY StepThreadTypes DEF RuntimeInv
<1> DEFINE Goal == RuntimeInv'
\* A thread that neither is at "set" nor moves to "build" or "set".
<1>1. ASSUME NEW t \in Threads, UNCHANGED <<RUNTIME, alive, home>>,
             NEW from \in SetupStates, NEW to \in SetupStates, Step(t, from, to),
             from # "set", to \notin {"build", "set"}
      PROVE  Goal
  BY <1>0, <1>1 DEF RuntimeInv, OneRuntime, ThreadTypes, Runtime, Step
<1>2. ASSUME NEW t \in Threads, Construct(t) \/ BuildFails(t) \/ Listening(t) PROVE Goal
  BY <1>1, <1>2 DEF Construct, BuildFails, Listening, SetupStates
<1>3. ASSUME NEW t \in Threads, FindRuntime(t) PROVE Goal
  <2>1. CASE RUNTIME = {}
    <3>1. /\ at[t] = "get" /\ at' = [at EXCEPT ![t] = "build"]
          /\ UNCHANGED <<RUNTIME, alive, home>>
      BY <1>3, <2>1 DEF FindRuntime, Step
    <3>2. \A u \in Threads : at'[u] = IF u = t THEN "build" ELSE at[u]
      BY <3>1 DEF RuntimeInv, ThreadTypes
    <3>3. \A r \in alive : r.by \in Threads
      BY DEF RuntimeInv, ThreadTypes, Runtime
    <3> QED
      BY <1>0, <2>1, <3>1, <3>2, <3>3 DEF RuntimeInv, OneRuntime
  <2>2. CASE RUNTIME # {}
    BY <1>1, <1>3, <2>2 DEF FindRuntime, SetupStates
  <2> QED
    BY <2>1, <2>2
<1>4. ASSUME NEW t \in Threads, BuildRuntime(t) PROVE Goal
  <2>1. PICK new : alive' = alive \cup {new} /\ new.by = t
    <3>1. PICK env \in EnvWorkers, cores \in Cores :
            alive' = alive \cup {[by |-> t, workers |-> WorkerThreadCount(env, cores)]}
      BY <1>4, Zenon DEF BuildRuntime
    <3>2. [by |-> t, workers |-> WorkerThreadCount(env, cores)].by = t
      OBVIOUS
    <3> QED
      BY <3>1, <3>2, Zenon
  <2>2. at[t] = "build" /\ at' = [at EXCEPT ![t] = "set"] /\ UNCHANGED <<RUNTIME, home>>
    BY <1>4 DEF BuildRuntime, Step
  <2>3. \A r \in alive : r.by # t
    BY <2>2 DEF RuntimeInv, OneRuntime
  <2>4. \A u \in Threads : at'[u] = IF u = t THEN "set" ELSE at[u]
    BY <2>2 DEF RuntimeInv, ThreadTypes
  <2>5. \A r \in alive : r.by \in Threads
    BY DEF RuntimeInv, ThreadTypes, Runtime
  <2> QED
    BY <1>0, <2>1, <2>2, <2>3, <2>4, <2>5 DEF RuntimeInv, OneRuntime
<1>5. ASSUME NEW t \in Threads, NEW r \in alive, r.by = t, SetRuntime(t, r) PROVE Goal
  <2>1. at[t] = "set" /\ at' = [at EXCEPT ![t] = "read"] /\ UNCHANGED home
    BY <1>5 DEF SetRuntime, Step
  <2>2. r \notin RUNTIME /\ \A q \in alive \ RUNTIME : q.by = t => q = r
    BY <1>5, <2>1 DEF RuntimeInv
  <2>3. \A u \in Threads : at'[u] = IF u = t THEN "read" ELSE at[u]
    BY <2>1 DEF RuntimeInv, ThreadTypes
  <2>4. \A q \in alive : q.by \in Threads
    BY DEF RuntimeInv, ThreadTypes, Runtime
  <2>5. CASE RUNTIME = {}
    <3>1. RUNTIME' = {r} /\ alive' = alive
      BY <1>5, <2>5 DEF SetRuntime
    <3> QED
      BY <1>0, <1>5, <2>1, <2>2, <2>3, <2>4, <2>5, <3>1 DEF RuntimeInv, OneRuntime
  <2>6. CASE RUNTIME # {}
    <3>1. RUNTIME' = RUNTIME /\ alive' = alive \ {r}
      BY <1>5, <2>6 DEF SetRuntime
    <3> QED
      BY <1>0, <2>1, <2>2, <2>3, <2>4, <3>1 DEF RuntimeInv, OneRuntime
  <2> QED
    BY <2>5, <2>6
\* The server's runtime is what RUNTIME holds, or is forgotten.
<1>6. ASSUME NEW t \in Threads, ReadRuntime(t) \/ BindFails(t) PROVE Goal
  <2>1. /\ at[t] \in {"read", "bind"}
        /\ \E to \in {"script", "bind"} : at' = [at EXCEPT ![t] = to]
        /\ UNCHANGED <<RUNTIME, alive>>
    BY <1>6 DEF ReadRuntime, BindFails, Raise, Step
  <2>2. \E held \in {RUNTIME, {}} : home' = [home EXCEPT ![t] = held]
    BY <1>6 DEF ReadRuntime, BindFails, Raise
  <2>3. \A u \in Threads : home'[u] \subseteq RUNTIME'
    BY <2>1, <2>2 DEF RuntimeInv, OneRuntime, ThreadTypes
  <2>4. \A u \in Threads : u # t => at'[u] = at[u]
    BY <2>1 DEF RuntimeInv, ThreadTypes
  <2>5. \A r \in alive : r.by \in Threads
    BY DEF RuntimeInv, ThreadTypes, Runtime
  <2>6. at[t] # "set" /\ at'[t] \notin {"build", "set"}
    BY <2>1 DEF RuntimeInv, ThreadTypes
  <2> QED
    BY <1>0, <2>1, <2>3, <2>4, <2>5, <2>6 DEF RuntimeInv, OneRuntime
<1>7. ASSUME NEW t \in Threads, NEW i \in DOMAIN toBind[t], BindOne(t, i) PROVE Goal
  BY <1>1, <1>7 DEF BindOne, SetupStates
<1>8. CASE UNCHANGED <<at, RUNTIME, alive, home, given, toBind, owner>>
  BY <1>0, <1>8 DEF RuntimeInv, OneRuntime
<1> QED
  BY <1>2, <1>3, <1>4, <1>5, <1>6, <1>7, <1>8 DEF SetupNext, ConstructStep, setupVars

\* Whichever thread wins the race to set RUNTIME, every server is bound on the
\* runtime that is in it, nobody replaces or drops that one, and each other
\* runtime is about to be dropped by the thread that built it.
THEOREM RuntimeIsOne == SetupSpec => []OneRuntime
<1>1. RuntimeInv => OneRuntime
  BY DEF RuntimeInv
<1> QED
  BY <1>1, InitRuntime, StepRuntime, PTL DEF SetupSpec

-----------------------------------------------------------------------------
(***************************************************************************)
(* A server is bound on all its addresses, or nobody holds any for it.     *)
(***************************************************************************)
\* The addresses t has a socket on.
Mine(t) == {a \in Addrs : t \in owner[a]}

\* In bind, what is bound and what is left make up what was given.
BindInv ==
  /\ ThreadTypes
  /\ \A t \in Threads :
       /\ at[t] = "bind" => Mine(t) \cup ToSet(toBind[t]) = ToSet(given[t])
       /\ at[t] = "running" => Mine(t) = ToSet(given[t])
       /\ at[t] \notin {"bind", "running"} => Mine(t) = {}

\* A step of t that leaves every socket where it is, and t outside bind.
LEMMA OutsideBind ==
  ASSUME BindInv, ThreadTypes', NEW t \in Threads, UNCHANGED <<toBind, owner>>,
         NEW from \in SetupStates \ {"bind", "running"},
         NEW to \in SetupStates \ {"bind", "running"},
         Step(t, from, to),
         given' = given \/ \E list \in Seq(Addrs) : given' = [given EXCEPT ![t] = list]
  PROVE  BindInv'
<1>1. \A u \in Threads : at'[u] = IF u = t THEN to ELSE at[u]
  BY DEF BindInv, ThreadTypes, Step
<1>2. \A u \in Threads : u # t => given'[u] = given[u]
  BY DEF BindInv, ThreadTypes
<1>3. at[t] = from
  BY DEF Step
<1>4. \A u \in Threads : Mine(u)' = Mine(u)
  BY DEF Mine
<1> QED
  BY <1>1, <1>2, <1>3, <1>4 DEF BindInv

LEMMA StepBind == BindInv /\ [SetupNext]_setupVars => BindInv'
<1> SUFFICES ASSUME BindInv, [SetupNext]_setupVars PROVE BindInv'
  OBVIOUS
<1>0. ThreadTypes /\ ThreadTypes'
  BY StepThreadTypes DEF BindInv
<1> DEFINE Goal == BindInv'
<1>1. ASSUME NEW t \in Threads, Construct(t) \/ BuildFails(t) PROVE Goal
  <2>1. \E list \in Seq(Addrs) : given' = [given EXCEPT ![t] = list]
    <3>1. CASE Construct(t)
      <4>1. \E list \in AddrLists : given' = [given EXCEPT ![t] = list]
        BY <3>1, Zenon DEF Construct
      <4>2. AddrLists \subseteq Seq(Addrs)
        BY SetupAssumption
      <4> QED
        BY <4>1, <4>2, Zenon
    <3>2. CASE BuildFails(t)
      <4>1. given' = [given EXCEPT ![t] = <<>>] /\ <<>> \in Seq(Addrs)
        BY <3>2 DEF BuildFails
      <4> QED
        BY <4>1, Zenon
    <3> QED
      BY <1>1, <3>1, <3>2
  <2>2. /\ \/ Step(t, "script", "get") \/ Step(t, "build", "script")
        /\ UNCHANGED <<toBind, owner>>
    BY <1>1 DEF Construct, BuildFails
  <2> QED
    BY <1>0, <2>1, <2>2, OutsideBind DEF SetupStates
<1>2. ASSUME NEW t \in Threads, FindRuntime(t) \/ BuildRuntime(t) PROVE Goal
  <2>1. /\ \/ Step(t, "get", "build") \/ Step(t, "get", "read") \/ Step(t, "build", "set")
        /\ UNCHANGED <<given, toBind, owner>>
    BY <1>2 DEF FindRuntime, BuildRuntime
  <2> QED
    BY <1>0, <2>1, OutsideBind DEF SetupStates
<1>3. ASSUME NEW t \in Threads, NEW r \in alive, SetRuntime(t, r) PROVE Goal
  <2>1. Step(t, "set", "read") /\ UNCHANGED <<given, toBind, owner>>
    BY <1>3 DEF SetRuntime
  <2> QED
    BY <1>0, <2>1, OutsideBind DEF SetupStates
<1>4. ASSUME NEW t \in Threads, ReadRuntime(t) PROVE Goal
  <2>1. /\ at[t] = "read" /\ UNCHANGED <<given, owner>>
        /\ \E to \in {"script", "bind"} : at' = [at EXCEPT ![t] = to]
        /\ toBind' = [toBind EXCEPT ![t] = given[t]]
    BY <1>4 DEF ReadRuntime, Step
  <2>2. \A u \in Threads : Mine(u)' = Mine(u)
    BY <2>1 DEF Mine
  <2>3. Mine(t) = {} /\ toBind'[t] = given[t] /\ at'[t] \in {"script", "bind"}
    BY <1>0, <2>1 DEF BindInv, ThreadTypes
  <2>4. \A u \in Threads : u # t => at'[u] = at[u] /\ toBind'[u] = toBind[u]
    BY <1>0, <2>1 DEF ThreadTypes
  <2> QED
    BY <1>0, <2>1, <2>2, <2>3, <2>4 DEF BindInv
<1>5. ASSUME NEW t \in Threads, BindFails(t) PROVE Goal
  <2>1. /\ at' = [at EXCEPT ![t] = "script"]
        /\ owner' = [a \in Addrs |-> owner[a] \ {t}]
        /\ given' = [given EXCEPT ![t] = <<>>] /\ toBind' = [toBind EXCEPT ![t] = <<>>]
    BY <1>5 DEF BindFails, Raise, Release, Step
  <2>2. \A u \in Threads : Mine(u)' = IF u = t THEN {} ELSE Mine(u)
    BY <2>1 DEF Mine
  <2>3. /\ at'[t] = "script"
        /\ \A u \in Threads : u # t => /\ at'[u] = at[u] /\ toBind'[u] = toBind[u]
                                       /\ given'[u] = given[u]
    BY <1>0, <2>1 DEF ThreadTypes
  <2> QED
    BY <1>0, <2>2, <2>3 DEF BindInv
<1>6. ASSUME NEW t \in Threads, NEW i \in DOMAIN toBind[t], BindOne(t, i) PROVE Goal
  <2> DEFINE b == toBind[t][i]
  <2>1. /\ at[t] = "bind" /\ at' = [at EXCEPT ![t] = "bind"]
        /\ owner[b] = {} /\ owner' = [owner EXCEPT ![b] = {t}]
        /\ toBind' = [toBind EXCEPT ![t] = RemoveAt(toBind[t], i)]
        /\ given' = given
    BY <1>6 DEF BindOne, Step
  <2>2. /\ b \in Addrs
        /\ ToSet(toBind[t]) = ToSet(RemoveAt(toBind[t], i)) \cup {b}
    BY <1>0, TakenOff DEF ThreadTypes
  <2> HIDE DEF b
  <2>3. \A a \in Addrs : owner'[a] = IF a = b THEN {t} ELSE owner[a]
    BY <1>0, <2>1 DEF ThreadTypes
  <2>4. \A u \in Threads : Mine(u)' = IF u = t THEN Mine(t) \cup {b} ELSE Mine(u)
    <3>1. \A a \in Addrs, u \in Threads :
            u \in owner'[a] <=> (u \in owner[a] \/ (u = t /\ a = b))
      BY <2>1, <2>3
    <3>2. Mine(t)' = Mine(t) \cup {b}
      BY <2>2, <3>1 DEF Mine
    <3>3. ASSUME NEW u \in Threads, u # t PROVE Mine(u)' = Mine(u)
      BY <3>1, <3>3 DEF Mine
    <3> QED
      BY <3>2, <3>3
  <2>5. /\ \A u \in Threads : at'[u] = at[u]
        /\ \A u \in Threads : u # t => toBind'[u] = toBind[u]
        /\ toBind'[t] = RemoveAt(toBind[t], i)
    BY <1>0, <2>1 DEF ThreadTypes
  <2>6. Mine(t) \cup ToSet(toBind[t]) = ToSet(given[t])
    BY <2>1 DEF BindInv
  <2>7. Mine(t)' \cup ToSet(toBind'[t]) = ToSet(given[t])
    BY <2>2, <2>4, <2>5, <2>6
  <2>8. ASSUME NEW u \in Threads
        PROVE  /\ at'[u] = "bind" => Mine(u)' \cup ToSet(toBind'[u]) = ToSet(given'[u])
               /\ at'[u] = "running" => Mine(u)' = ToSet(given'[u])
               /\ at'[u] \notin {"bind", "running"} => Mine(u)' = {}
    BY <2>1, <2>4, <2>5, <2>7 DEF BindInv
  <2> QED
    BY <1>0, <2>8 DEF BindInv
<1>7. ASSUME NEW t \in Threads, Listening(t) PROVE Goal
  <2>1. /\ at[t] = "bind" /\ at' = [at EXCEPT ![t] = "running"]
        /\ toBind[t] = <<>> /\ UNCHANGED <<given, toBind, owner>>
    BY <1>7 DEF Listening, Step
  <2>2. \A u \in Threads : Mine(u)' = Mine(u)
    BY <2>1 DEF Mine
  <2>3. ToSet(toBind[t]) = {}
    BY <2>1 DEF ToSet
  <2>4. at'[t] = "running" /\ \A u \in Threads : u # t => at'[u] = at[u]
    BY <1>0, <2>1 DEF ThreadTypes
  <2> QED
    BY <1>0, <2>1, <2>2, <2>3, <2>4 DEF BindInv
<1>8. CASE UNCHANGED <<at, RUNTIME, alive, home, given, toBind, owner>>
  <2>1. \A u \in Threads : Mine(u)' = Mine(u)
    BY <1>8 DEF Mine
  <2> QED
    BY <1>0, <1>8, <2>1 DEF BindInv
<1> QED
  BY <1>1, <1>2, <1>3, <1>4, <1>5, <1>6, <1>7, <1>8 DEF SetupNext, ConstructStep, setupVars

\* A running server has a socket on each of its addresses and a __construct
\* that raised has none, whatever addresses other threads took in between and
\* at whatever address it stopped.
THEOREM BindIsAllOrNothing == SetupSpec => []AllOrNothing
<1>1. SetupInit => BindInv
  BY InitThreadTypes DEF SetupInit, BindInv, Mine
<1>2. BindInv => AllOrNothing
  BY DEF BindInv, AllOrNothing, Mine
<1> QED
  BY <1>1, <1>2, StepBind, PTL DEF SetupSpec
=============================================================================
