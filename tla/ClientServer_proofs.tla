------------------------- MODULE ClientServer_proofs -------------------------
(***************************************************************************)
(* Proofs about ClientServer and SecurityManager, for any number of        *)
(* threads, addresses, failures and connections.                           *)
(***************************************************************************)
EXTENDS ClientServer, TLAPS

(***************************************************************************)
(* The order of shutdown.                                                  *)
(***************************************************************************)

\* Where the thread of runServer is before and while the server serves.
Before == {"none", "sleep", "bind", "spawn"}
Serving == {"start", "join"}
Stopping == {"stop", "wait"}

\* Threads that have not ended.
Alive == {"run", "hung"}

\* The thread of runServer, which main starts, knows which threads may run and what it has freed.
LifeInv ==
  /\ worker \in [Parts -> {"none", "run", "hung", "ended"}]
  /\ io \in [Threads -> {"none", "run", "ended"}]
  /\ main = "start" => srv.at = "none"
  /\ main # "start" => srv.at # "none"
  /\ srv.at \in Before \cup Serving => freed = {}
  /\ srv.at \notin Serving => \A t \in Threads : io[t] # "run"
  /\ srv.at \notin Serving \cup Stopping => \A p \in Parts : worker[p] \notin Alive
  /\ \A p \in Parts \cap freed : worker[p] \notin Alive
  /\ srv.at \in Stopping => /\ srv.part \in 1..3
                            /\ \A j \in 1..3 : j < srv.part => StopOrder[j] \in freed
                            /\ "pool" \notin freed

LEMMA InitLife == Init => LifeInv
BY DEF Init, LifeInv, Step, Before, Serving, Stopping, Parts, Alive

LEMMA StepFields == \A w, i : Step(w, i).at = w /\ Step(w, i).part = i
BY DEF Step

LEMMA SrvKeeps ==
  ASSUME LifeInv, main # "start",
         RunServer \/ Spawn \/ StartPart \/ JoinThreads \/ StopPart \/ FreePart \/ FreeRest
  PROVE  LifeInv'
<1>0. main' # "start"
  BY DEF RunServer, Spawn, StartPart, JoinThreads, StopPart, FreePart, FreeRest
<1>1. CASE RunServer
  BY <1>0, <1>1, StepFields DEF RunServer, LifeInv, Before, Serving, Stopping
<1>2. CASE Spawn
  BY <1>0, <1>2, StepFields DEF Spawn, LifeInv, Before, Serving, Stopping
<1>3. CASE StartPart
  <2>1. srv.at = "start" /\ srv'.at \in Serving /\ UNCHANGED <<io, freed>>
    BY <1>3, StepFields DEF StartPart, Serving
  <2>2. worker' \in [Parts -> {"none", "run", "hung", "ended"}]
    BY <1>3 DEF StartPart, LifeInv
  <2>3. freed = {}
    BY <2>1 DEF LifeInv, Serving
  <2>. QED
    BY <1>0, <2>1, <2>2, <2>3 DEF LifeInv, Before, Serving, Stopping
<1>4. CASE JoinThreads
  <2>1. srv' = Step("stop", 1) /\ srv.at = "join" /\ UNCHANGED <<io, worker, freed>>
    BY <1>4 DEF JoinThreads
  <2>2. freed = {} /\ \A t \in Threads : io[t] # "run"
    BY <1>4, <2>1 DEF JoinThreads, LifeInv, Serving
  <2>. QED
    BY <1>0, <2>1, <2>2, StepFields DEF LifeInv, Before, Serving, Stopping
<1>5. CASE StopPart
  <2>1. srv.at = "stop" /\ srv' = Step("wait", srv.part) /\ UNCHANGED <<io, worker, freed>>
    BY <1>5 DEF StopPart
  <2>. QED
    BY <1>0, <2>1, StepFields DEF LifeInv, Before, Serving, Stopping
<1>6. CASE FreePart
  <2>. DEFINE p == StopOrder[srv.part]
  <2>1. /\ srv.at = "wait" /\ worker[p] \notin Alive /\ freed' = freed \cup {p}
        /\ srv' = IF srv.part = 3 THEN Step("free", 0) ELSE Step("stop", srv.part + 1)
        /\ UNCHANGED <<io, worker>>
    BY <1>6 DEF FreePart, Alive
  <2>2. /\ srv.part \in 1..3 /\ "pool" \notin freed
        /\ \A j \in 1..3 : j < srv.part => StopOrder[j] \in freed
    BY <2>1 DEF LifeInv, Stopping
  <2>3. \A t \in Threads : io'[t] # "run"
    BY <2>1 DEF LifeInv, Serving
  <2>4. \A q \in Parts \cap freed' : worker'[q] \notin Alive
    BY <2>1 DEF LifeInv
  <2>5. CASE srv.part = 3
    <3>1. p = "pool" /\ StopOrder[1] = "blocks" /\ StopOrder[2] = "history"
      BY <2>5 DEF StopOrder
    <3>2. Parts \subseteq freed'
      BY <2>1, <2>2, <2>5, <3>1 DEF Parts
    <3>3. \A q \in Parts : worker'[q] \notin Alive
      BY <2>4, <3>2
    <3>. QED
      BY <1>0, <2>1, <2>3, <2>4, <2>5, <3>3, StepFields DEF LifeInv, Before, Serving, Stopping
  <2>6. CASE srv.part # 3
    <3>1. p # "pool"
      BY <2>2, <2>6 DEF StopOrder
    <3>2. srv'.at = "stop" /\ srv'.part = srv.part + 1 /\ srv'.part \in 1..3
      BY <2>1, <2>2, <2>6, StepFields
    <3>3. \A j \in 1..3 : j < srv'.part => StopOrder[j] \in freed'
      BY <2>1, <2>2, <3>2
    <3>. QED
      BY <1>0, <2>1, <2>2, <2>3, <2>4, <3>1, <3>2, <3>3 DEF LifeInv, Before, Serving, Stopping
  <2>. QED
    BY <2>5, <2>6
<1>7. CASE FreeRest
  <2>1. srv.at = "free" /\ srv'.at = "ended" /\ UNCHANGED <<io, worker>>
    BY <1>7, StepFields DEF FreeRest
  <2>. QED
    BY <1>0, <2>1 DEF LifeInv, Before, Serving, Stopping
<1>. QED
  BY <1>1, <1>2, <1>3, <1>4, <1>5, <1>6, <1>7

\* Threads that end, and steps that start none.
LEMMA ThreadsKeep ==
  ASSUME LifeInv,
         UNCHANGED <<main, srv, freed>>,
         worker' \in [Parts -> {"none", "run", "hung", "ended"}],
         io' \in [Threads -> {"none", "run", "ended"}],
         \A p \in Parts : worker'[p] \in Alive => worker[p] \in Alive,
         \A t \in Threads : io'[t] = "run" => io[t] = "run"
  PROVE  LifeInv'
BY DEF LifeInv, Before, Serving, Stopping

LEMMA MainKeeps ==
  ASSUME LifeInv, Main
  PROVE  LifeInv'
<1>1. UNCHANGED <<io, worker, freed>>
  BY DEF Main
<1>2. CASE main = "start"
  <2>1. srv.at = "none" /\ srv'.at = "sleep" /\ main' # "start"
    BY <1>2, StepFields DEF Main, LifeInv
  <2>. QED
    BY <1>1, <2>1 DEF LifeInv, Before, Serving, Stopping
<1>3. CASE main # "start"
  BY <1>1, <1>3 DEF Main, LifeInv, Before, Serving, Stopping
<1>. QED
  BY <1>2, <1>3

LEMMA NextLife == LifeInv /\ [Next]_vars => LifeInv'
<1>. SUFFICES ASSUME LifeInv, [Next]_vars PROVE LifeInv'
  OBVIOUS
<1>1. CASE RunServer \/ Spawn \/ StartPart \/ JoinThreads \/ StopPart \/ FreePart \/ FreeRest
  <2>1. srv.at # "none"
    BY <1>1 DEF RunServer, Spawn, StartPart, JoinThreads, StopPart, FreePart, FreeRest
  <2>. QED
    BY <1>1, <2>1, SrvKeeps DEF LifeInv
<1>2. CASE Main
  BY <1>2, MainKeeps
<1>3. ASSUME NEW p \in Parts, WorkerEnds(p) \/ WorkerHangs(p) PROVE LifeInv'
  BY <1>3, ThreadsKeep DEF WorkerEnds, WorkerHangs, LifeInv, Alive
<1>4. ASSUME NEW t \in Threads, ThreadEnds(t) PROVE LifeInv'
  BY <1>4, ThreadsKeep DEF ThreadEnds, LifeInv
<1>5. CASE UNCHANGED <<main, srv, freed, worker, io>>
  BY <1>5, ThreadsKeep DEF LifeInv
<1>6. CASE LookupEnds \/ LookupHangs \/ Signal \/ Clients \/ UNCHANGED vars
  BY <1>6, <1>5 DEF LookupEnds, LookupHangs, Signal, Clients, vars, lifeVars
<1>7. ASSUME NEW t \in Threads, Serve(t) \/ CheckTimeout(t) PROVE LifeInv'
  BY <1>7, <1>5 DEF Serve, CheckTimeout, lifeVars
<1>. QED
  BY <1>1, <1>2, <1>3, <1>4, <1>6, <1>7 DEF Next, Server

\* Nothing is freed under a thread that uses it, for any number of threads and
\* whichever parts are enabled: the order in which http_server::run joins and
\* frees is right although workers go on after the signal.
THEOREM NoUseAfterFreeHolds == Spec => []NoUseAfterFree
<1>1. LifeInv => NoUseAfterFree
  <2>. SUFFICES ASSUME LifeInv PROVE NoUseAfterFree
    OBVIOUS
  <2>1. (\E t \in Threads : io[t] = "run") => freed = {}
    BY DEF LifeInv
  <2>2. ASSUME NEW p \in Parts, worker[p] \in Alive PROVE {p, "pool"} \cap freed = {}
    <3>1. srv.at \in Serving \cup Stopping
      BY <2>2 DEF LifeInv
    <3>2. p \notin freed
      BY <2>2 DEF LifeInv
    <3>3. "pool" \notin freed
      BY <3>1 DEF LifeInv
    <3>. QED
      BY <3>2, <3>3
  <2>. QED
    BY <2>1, <2>2 DEF NoUseAfterFree, Alive
<1>. QED
  BY <1>1, InitLife, NextLife, PTL DEF Spec

(***************************************************************************)
(* Failed authentications.                                                 *)
(***************************************************************************)

\* A thread inserts an entry for the address.
Inserting(a) == \E t \in Threads : thr[t] = [pc |-> "insert", addr |-> a]

SecTypes ==
  /\ m_info \in [Addresses -> [attempt: Nat, age: Nat]]
  /\ failed \in [Addresses -> Nat] /\ missed \in [Addresses -> BOOLEAN]
  /\ m_lock \in Threads \cup {Nobody}
  /\ thr \in [Threads -> [pc: {"idle", "check", "insert", "reset", "erase", "other"},
                          addr: Addresses \cup {Nobody}]]

\* Who changes the map holds the lock, and has an address.
LockInv ==
  \A t \in Threads :
    /\ thr[t].pc \in {"insert", "erase", "other"} => m_lock = t
    /\ thr[t].pc \in {"check", "insert", "reset", "erase"} => thr[t].addr \in Addresses

\* The count of an address, after a success that did not find the entry too.
Counted(a) ==
  /\ m_info[a].attempt >= failed[a]
  /\ ~missed[a] => m_info[a].attempt = failed[a]
  /\ missed[a] => m_info[a].attempt > 0

\* While an entry is being inserted the first failure is counted ahead.
CountInv ==
  \A a \in Addresses :
    IF Inserting(a) THEN m_info[a].attempt = 0 /\ failed[a] = (IF missed[a] THEN 0 ELSE 1)
    ELSE Counted(a)

SecInv == SecTypes /\ LockInv /\ CountInv

LEMMA InitSec == Init => SecInv
<1>. SUFFICES ASSUME Init PROVE SecInv
  OBVIOUS
<1>1. SecTypes
  BY DEF Init, SecInit, SecTypes, NoInfo, IdleThread
<1>2. LockInv
  BY DEF Init, SecInit, LockInv, IdleThread
<1>3. CountInv
  BY DEF Init, SecInit, CountInv, Counted, Inserting, NoInfo, IdleThread
<1>. QED
  BY <1>1, <1>2, <1>3 DEF SecInv

\* Nobody changes the map while the lock is free.
LEMMA FreeLock ==
  ASSUME SecInv, m_lock = Nobody
  PROVE  \A t \in Threads : thr[t].pc \notin {"insert", "erase", "other"}
BY SecurityAssumption DEF SecInv, LockInv

\* Steps that move a thread but change neither map nor counts.
LEMMA MovesKeep ==
  ASSUME SecInv, NEW t \in Threads, NEW r \in [pc: {"idle", "check", "reset"}, addr: Addresses \cup {Nobody}],
         r.pc # "idle" => r.addr \in Addresses,
         thr[t].pc \notin {"insert", "erase", "other"},
         thr' = [thr EXCEPT ![t] = r],
         UNCHANGED <<m_lock, failed, missed>>,
         m_info' \in [Addresses -> [attempt: Nat, age: Nat]],
         \A a \in Addresses : m_info'[a].attempt = m_info[a].attempt
  PROVE  SecInv'
<1>1. thr \in [Threads -> [pc: {"idle", "check", "insert", "reset", "erase", "other"},
                           addr: Addresses \cup {Nobody}]]
  BY DEF SecInv, SecTypes
<1>2. SecTypes'
  BY <1>1 DEF SecInv, SecTypes
<1>3. \A u \in Threads : thr'[u] = IF u = t THEN r ELSE thr[u]
  BY <1>1
<1>4. LockInv'
  BY <1>3 DEF SecInv, LockInv
<1>5. \A a : Inserting(a)' <=> Inserting(a)
  BY <1>3 DEF Inserting
<1>6. CountInv'
  BY <1>5 DEF SecInv, CountInv, Counted, Inserting
<1>. QED
  BY <1>2, <1>4, <1>6 DEF SecInv

\* A success that finds nothing: there was nothing, or the map was in motion.
LEMMA MissKeeps ==
  ASSUME SecInv, NEW a \in Addresses, FALSE \in Lookup(a),
         failed' = [failed EXCEPT ![a] = 0],
         missed' = [missed EXCEPT ![a] = @ \/ (failed[a] > 0 /\ m_lock # Nobody)],
         UNCHANGED <<m_info, m_lock, thr>>
  PROVE  SecInv'
<1>1. SecTypes /\ LockInv /\ CountInv
  BY DEF SecInv
<1>2. /\ failed'[a] = 0 /\ (missed'[a] <=> missed[a] \/ (failed[a] > 0 /\ m_lock # Nobody))
      /\ \A c \in Addresses : c # a => failed'[c] = failed[c] /\ missed'[c] = missed[c]
  BY <1>1 DEF SecTypes
<1>3. SecTypes'
  BY <1>1 DEF SecTypes
<1>4. LockInv'
  BY <1>1 DEF LockInv
<1>5. \A c : Inserting(c)' <=> Inserting(c)
  BY DEF Inserting
<1>6. ASSUME Inserting(a) PROVE m_lock # Nobody
  BY <1>1, <1>6, SecurityAssumption DEF Inserting, LockInv
<1>7. m_lock = Nobody => ~(m_info[a].attempt > 0)
  BY DEF Lookup
<1>8. m_info[a].attempt \in Nat /\ failed[a] \in Nat
  BY <1>1 DEF SecTypes
<1>9. ASSUME Inserting(a) PROVE m_info'[a].attempt = 0 /\ missed'[a]
  BY <1>1, <1>2, <1>6, <1>9 DEF CountInv
<1>10. ASSUME ~Inserting(a) PROVE Counted(a)'
  <2>1. Counted(a)
    BY <1>1, <1>10 DEF CountInv
  <2>2. ~missed'[a] => m_info[a].attempt = 0
    BY <1>2, <1>7, <1>8, <2>1 DEF Counted
  <2>3. missed'[a] => m_info[a].attempt > 0
    BY <1>2, <1>8, <2>1 DEF Counted
  <2>. QED
    BY <1>2, <1>8, <2>2, <2>3 DEF Counted
<1>11. ASSUME NEW c \in Addresses, c # a PROVE Inserting(c) \/ Counted(c)'
  BY <1>1, <1>2, <1>11 DEF CountInv, Counted
<1>12. CountInv'
  BY <1>1, <1>2, <1>5, <1>9, <1>10, <1>11 DEF CountInv
<1>. QED
  BY <1>3, <1>4, <1>12 DEF SecInv

LEMMA AcceptKeeps ==
  ASSUME SecInv, NEW t \in Threads, NEW a \in Addresses, Accept(t, a) \/ TryReset(t, a)
  PROVE  SecInv'
<1>1. thr[t].pc = "idle" /\ UNCHANGED <<m_info, m_lock>>
  BY DEF Accept, TryReset, Idle
<1>2. CASE UNCHANGED <<thr, failed, missed>>
  BY <1>1, <1>2 DEF SecInv, SecTypes, LockInv, CountInv, Counted, Inserting
<1>3. ASSUME NEW w \in {"check", "reset"}, thr' = [thr EXCEPT ![t] = [pc |-> w, addr |-> a]],
             UNCHANGED <<failed, missed>>
      PROVE  SecInv'
  <2>1. [pc |-> w, addr |-> a] \in [pc: {"idle", "check", "reset"}, addr: Addresses \cup {Nobody}]
    OBVIOUS
  <2>. QED
    BY <1>1, <1>3, <2>1, MovesKeep DEF SecInv, SecTypes
<1>4. CASE Accept(t, a)
  BY <1>2, <1>3, <1>4 DEF Accept, Enter
<1>5. CASE TryReset(t, a)
  <2>1. PICK found \in Lookup(a) :
          IF found THEN Enter(t, "reset", a) /\ UNCHANGED <<failed, missed>>
          ELSE /\ failed' = [failed EXCEPT ![a] = 0]
               /\ missed' = [missed EXCEPT ![a] = @ \/ (failed[a] > 0 /\ m_lock # Nobody)]
               /\ UNCHANGED thr
    BY <1>5 DEF TryReset
  <2>2. found \in BOOLEAN
    <3>1. m_info[a].attempt \in Nat
      BY DEF SecInv, SecTypes
    <3>2. (m_info[a].attempt > 0) \in BOOLEAN
      BY <3>1
    <3>. QED BY <3>2, Zenon DEF Lookup
  <2>3. CASE found = TRUE
    BY <1>3, <2>1, <2>3 DEF Enter
  <2>4. CASE found = FALSE
    BY <1>1, <2>1, <2>4, MissKeeps
  <2>. QED BY <2>2, <2>3, <2>4
<1>. QED
  BY <1>4, <1>5

LEMMA CheckKeeps ==
  ASSUME SecInv, NEW t \in Threads, Check(t)
  PROVE  SecInv'
<1>1. /\ thr[t].pc = "check" /\ UNCHANGED <<m_lock, failed, missed>>
      /\ thr' = [thr EXCEPT ![t] = IdleThread]
      /\ m_info' = m_info \/ m_info' = [m_info EXCEPT ![thr[t].addr].age = 0]
  BY DEF Check, Leave
<1>2. m_info \in [Addresses -> [attempt: Nat, age: Nat]]
  BY DEF SecInv, SecTypes
<1>3. /\ m_info' \in [Addresses -> [attempt: Nat, age: Nat]]
      /\ \A a \in Addresses : m_info'[a].attempt = m_info[a].attempt
  BY <1>1, <1>2
<1>4. IdleThread \in [pc: {"idle", "check", "reset"}, addr: Addresses \cup {Nobody}] /\ IdleThread.pc = "idle"
  BY DEF IdleThread
<1>. QED
  BY <1>1, <1>3, <1>4, MovesKeep

\* A thread takes the lock for an address whose entry is not counted ahead, or
\* for another.
LEMMA LockKeeps ==
  ASSUME SecInv, NEW t \in Threads, NEW w \in {"erase", "other"}, NEW b \in Addresses \cup {Nobody},
         w = "erase" => b \in Addresses,
         m_lock = Nobody, m_lock' = t, thr' = [thr EXCEPT ![t] = [pc |-> w, addr |-> b]],
         UNCHANGED <<m_info, failed, missed>>
  PROVE  SecInv'
<1>1. SecTypes'
  BY DEF SecInv, SecTypes
<1>2. \A u \in Threads : thr'[u] = IF u = t THEN [pc |-> w, addr |-> b] ELSE thr[u]
  BY DEF SecInv, SecTypes
<1>3. LockInv'
  BY <1>2, FreeLock DEF SecInv, LockInv
<1>4. \A a : ~Inserting(a) /\ ~Inserting(a)'
  BY <1>2, FreeLock DEF Inserting
<1>5. CountInv'
  BY <1>4 DEF SecInv, CountInv, Counted, Inserting
<1>. QED
  BY <1>1, <1>3, <1>5 DEF SecInv

\* mark_failed: an entry is counted up, or its insertion begins.
LEMMA MarkFailedKeeps ==
  ASSUME SecInv, NEW t \in Threads, NEW a \in Addresses, MarkFailed(t, a)
  PROVE  SecInv'
<1>1. /\ thr[t].pc = "idle" /\ m_lock = Nobody
      /\ failed' = [failed EXCEPT ![a] = @ + 1] /\ missed' = missed
  BY DEF MarkFailed, Idle
<1>2. \A c : ~Inserting(c)
  BY <1>1, FreeLock DEF Inserting
<1>3. \A c \in Addresses : Counted(c) /\ failed[c] \in Nat /\ m_info[c].attempt \in Nat
  BY <1>2 DEF SecInv, CountInv, SecTypes
<1>4. CASE m_info[a].attempt > 0
  <2>1. m_info' = [m_info EXCEPT ![a].attempt = @ + 1] /\ UNCHANGED <<m_lock, thr>>
    BY <1>4 DEF MarkFailed
  <2>2. SecTypes'
    BY <1>1, <2>1 DEF SecInv, SecTypes
  <2>3. LockInv'
    BY <2>1 DEF SecInv, LockInv
  <2>4. \A c : ~Inserting(c)'
    BY <1>2, <2>1 DEF Inserting
  <2>5. \A c \in Addresses :
          \/ m_info'[c].attempt = m_info[c].attempt + 1 /\ failed'[c] = failed[c] + 1
          \/ m_info'[c].attempt = m_info[c].attempt /\ failed'[c] = failed[c]
    BY <1>1, <2>1 DEF SecInv, SecTypes
  <2>6. CountInv'
    BY <1>1, <1>3, <2>4, <2>5 DEF CountInv, Counted
  <2>. QED
    BY <2>2, <2>3, <2>6 DEF SecInv
<1>5. CASE ~(m_info[a].attempt > 0)
  <2>. DEFINE r == [pc |-> "insert", addr |-> a]
  <2>1. m_lock' = t /\ thr' = [thr EXCEPT ![t] = r] /\ UNCHANGED m_info
    BY <1>5 DEF MarkFailed, Enter
  <2>2. SecTypes'
    BY <1>1, <2>1 DEF SecInv, SecTypes
  <2>3. \A u \in Threads : thr'[u] = IF u = t THEN r ELSE thr[u]
    BY <2>1 DEF SecInv, SecTypes
  <2>4. LockInv'
    BY <1>1, <2>1, <2>3, FreeLock DEF SecInv, LockInv
  <2>5. \A c \in Addresses : Inserting(c)' <=> c = a
    BY <1>2, <2>3 DEF Inserting
  <2>6. failed[a] = 0 /\ m_info[a].attempt = 0 /\ ~missed[a]
    BY <1>3, <1>5 DEF Counted
  <2>7. \A c \in Addresses : failed'[c] = IF c = a THEN 1 ELSE failed[c]
    BY <1>1, <1>3, <2>6 DEF SecInv, SecTypes
  <2>8. CountInv'
    BY <1>1, <1>3, <2>1, <2>5, <2>6, <2>7 DEF CountInv, Counted
  <2>. QED
    BY <2>2, <2>4, <2>8 DEF SecInv
<1>. QED
  BY <1>4, <1>5

\* The other end of a section under the lock: the entry of one address becomes
\* what the counts say.
LEMMA UnlockKeeps ==
  ASSUME SecInv, NEW t \in Threads,
         thr[t].pc \in {"insert", "erase", "other"},
         m_lock' = Nobody, thr' = [thr EXCEPT ![t] = IdleThread],
         m_info' \in [Addresses -> [attempt: Nat, age: Nat]],
         failed' \in [Addresses -> Nat], missed' \in [Addresses -> BOOLEAN],
         \A c \in Addresses : \/ Counted(c)'
                              \/ /\ c # thr[t].addr /\ m_info'[c] = m_info[c]
                                 /\ failed'[c] = failed[c] /\ missed'[c] = missed[c]
  PROVE  SecInv'
<1>1. IdleThread \in [pc: {"idle"}, addr: {Nobody}] /\ IdleThread.pc = "idle"
  BY DEF IdleThread
<1>2. SecTypes'
  BY <1>1 DEF SecInv, SecTypes
<1>3. \A u \in Threads : thr'[u] = IF u = t THEN IdleThread ELSE thr[u]
  BY DEF SecInv, SecTypes
<1>4. m_lock = t /\ \A u \in Threads : u # t => thr[u].pc \notin {"insert", "erase", "other"}
  BY DEF SecInv, LockInv
<1>5. LockInv'
  BY <1>1, <1>3, <1>4 DEF SecInv, LockInv
<1>6. \A c : ~Inserting(c)' /\ (Inserting(c) => thr[t].addr = c)
  BY <1>1, <1>3, <1>4 DEF Inserting
<1>7. CountInv'
  BY <1>6 DEF SecInv, CountInv, Counted
<1>. QED
  BY <1>2, <1>5, <1>7 DEF SecInv

LEMMA InsertKeeps ==
  ASSUME SecInv, NEW t \in Threads, Insert(t)
  PROVE  SecInv'
<1>0. PICK a : a = thr[t].addr
  OBVIOUS
<1>1. /\ thr[t].pc = "insert" /\ m_lock' = Nobody /\ thr' = [thr EXCEPT ![t] = IdleThread]
      /\ UNCHANGED <<failed, missed>>
      /\ m_info' = IF m_info[a].attempt > 0 THEN m_info
                   ELSE [m_info EXCEPT ![a] = [attempt |-> 1, age |-> 0]]
  BY <1>0 DEF Insert, Leave
<1>2. a \in Addresses /\ thr[t] = [pc |-> "insert", addr |-> a]
  BY <1>0, <1>1 DEF SecInv, LockInv, SecTypes
<1>3. m_info[a].attempt = 0 /\ failed[a] = (IF missed[a] THEN 0 ELSE 1)
  BY <1>2 DEF SecInv, CountInv, Counted, Inserting
<1>4. m_info' = [m_info EXCEPT ![a] = [attempt |-> 1, age |-> 0]]
  BY <1>1, <1>3
<1>5. /\ m_info' \in [Addresses -> [attempt: Nat, age: Nat]]
      /\ m_info'[a].attempt = 1
      /\ \A c \in Addresses : c # a => m_info'[c] = m_info[c]
  BY <1>2, <1>4 DEF SecInv, SecTypes
<1>6. failed' \in [Addresses -> Nat] /\ missed' \in [Addresses -> BOOLEAN]
  BY <1>1 DEF SecInv, SecTypes
<1>7. Counted(a)'
  BY <1>1, <1>3, <1>5 DEF Counted
<1>8. ASSUME NEW c \in Addresses
      PROVE  \/ Counted(c)'
             \/ /\ c # thr[t].addr /\ m_info'[c] = m_info[c]
                /\ failed'[c] = failed[c] /\ missed'[c] = missed[c]
  <2>1. CASE c = a
    BY <1>7, <2>1
  <2>2. CASE c # a
    BY <1>0, <1>1, <1>5, <2>2
  <2>. QED BY <2>1, <2>2
<1>. QED
  BY <1>1, <1>5, <1>6, <1>8, UnlockKeeps

LEMMA EraseKeeps ==
  ASSUME SecInv, NEW t \in Threads, Erase(t)
  PROVE  SecInv'
<1>0. PICK a : a = thr[t].addr
  OBVIOUS
<1>1. /\ thr[t].pc = "erase" /\ m_lock' = Nobody /\ thr' = [thr EXCEPT ![t] = IdleThread]
      /\ failed' = [failed EXCEPT ![a] = 0] /\ missed' = [missed EXCEPT ![a] = FALSE]
      /\ m_info' = [m_info EXCEPT ![a] = NoInfo]
  BY <1>0 DEF Erase, Leave
<1>2. a \in Addresses
  BY <1>0, <1>1 DEF SecInv, LockInv
<1>3. /\ m_info' \in [Addresses -> [attempt: Nat, age: Nat]]
      /\ failed' \in [Addresses -> Nat] /\ missed' \in [Addresses -> BOOLEAN]
      /\ m_info'[a].attempt = 0 /\ failed'[a] = 0 /\ ~missed'[a]
      /\ \A c \in Addresses : c # a => /\ m_info'[c] = m_info[c] /\ failed'[c] = failed[c]
                                       /\ missed'[c] = missed[c]
  BY <1>1, <1>2 DEF SecInv, SecTypes, NoInfo
<1>4. Counted(a)'
  BY <1>3 DEF Counted
<1>5. ASSUME NEW c \in Addresses
      PROVE  \/ Counted(c)'
             \/ /\ c # thr[t].addr /\ m_info'[c] = m_info[c]
                /\ failed'[c] = failed[c] /\ missed'[c] = missed[c]
  <2>1. CASE c = a
    BY <1>4, <2>1
  <2>2. CASE c # a
    BY <1>0, <1>3, <2>2
  <2>. QED BY <2>1, <2>2
<1>. QED
  BY <1>1, <1>3, <1>5, UnlockKeeps

LEMMA ResetKeeps ==
  ASSUME SecInv, NEW t \in Threads, Reset(t)
  PROVE  SecInv'
<1>1. thr[t].pc = "reset" /\ m_lock = Nobody /\ UNCHANGED <<m_info, failed, missed>>
  BY DEF Reset
<1>2. thr[t].addr \in Addresses
  BY <1>1 DEF SecInv, LockInv
<1>3. CASE m_info[thr[t].addr].attempt > 0
  BY <1>1, <1>2, <1>3, LockKeeps DEF Reset, Enter
<1>4. CASE ~(m_info[thr[t].addr].attempt > 0)
  <2>1. thr' = [thr EXCEPT ![t] = IdleThread] /\ UNCHANGED m_lock
    BY <1>4 DEF Reset, Leave
  <2>2. IdleThread \in [pc: {"idle", "check", "reset"}, addr: Addresses \cup {Nobody}] /\ IdleThread.pc = "idle"
    BY DEF IdleThread
  <2>3. m_info' \in [Addresses -> [attempt: Nat, age: Nat]]
    BY <1>1 DEF SecInv, SecTypes
  <2>. QED
    BY <1>1, <2>1, <2>2, <2>3, MovesKeep
<1>. QED
  BY <1>3, <1>4

LEMMA OtherEndsKeeps ==
  ASSUME SecInv, NEW t \in Threads, OtherEnds(t)
  PROVE  SecInv'
<1>1. /\ thr[t].pc = "other" /\ m_lock' = Nobody /\ thr' = [thr EXCEPT ![t] = IdleThread]
      /\ UNCHANGED <<m_info, failed, missed>>
  BY DEF OtherEnds, Leave
<1>2. \A u \in Threads : thr[u].pc = "insert" => u = t
  BY <1>1 DEF SecInv, LockInv
<1>3. \A c : ~Inserting(c)
  BY <1>1, <1>2 DEF Inserting
<1>4. \A c \in Addresses : Counted(c)'
  BY <1>1, <1>3 DEF SecInv, CountInv, Counted
<1>5. /\ m_info' \in [Addresses -> [attempt: Nat, age: Nat]] /\ failed' \in [Addresses -> Nat]
      /\ missed' \in [Addresses -> BOOLEAN]
  BY <1>1 DEF SecInv, SecTypes
<1>. QED
  BY <1>1, <1>4, <1>5, UnlockKeeps

LEMMA TickKeeps ==
  ASSUME SecInv, Tick
  PROVE  SecInv'
<1>1. UNCHANGED <<m_lock, thr, failed, missed>>
  BY DEF Tick
<1>2. m_info' = [a \in Addresses |-> IF m_info[a].attempt > 0
                                     THEN [m_info[a] EXCEPT !.age = Older(@)] ELSE m_info[a]]
  BY DEF Tick
<1>3. \A n \in Nat : Older(n) \in Nat
  BY DEF Older
<1>4. ASSUME NEW a \in Addresses
      PROVE  m_info'[a] \in [attempt: Nat, age: Nat] /\ m_info'[a].attempt = m_info[a].attempt
  <2>1. m_info[a] \in [attempt: Nat, age: Nat]
    BY DEF SecInv, SecTypes
  <2>. QED
    BY <1>2, <1>3, <2>1
<1>5. m_info' \in [Addresses -> [attempt: Nat, age: Nat]]
  BY <1>2, <1>4
<1>. QED
  BY <1>1, <1>4, <1>5 DEF SecInv, SecTypes, LockInv, CountInv, Counted, Inserting

LEMMA NextSec == SecInv /\ [Next]_vars => SecInv'
<1>. SUFFICES ASSUME SecInv, [Next]_vars PROVE SecInv'
  OBVIOUS
<1>1. CASE UNCHANGED <<m_info, m_lock, thr, failed, missed>>
  BY <1>1 DEF SecInv, SecTypes, LockInv, CountInv, Counted, Inserting
<1>2. ASSUME NEW t \in Threads, Begins(t) PROVE SecInv'
  <2>1. CASE OtherBegins(t)
    BY <2>1, LockKeeps DEF OtherBegins, Enter
  <2>2. ASSUME NEW a \in Addresses, Accept(t, a) \/ MarkFailed(t, a) \/ TryReset(t, a) PROVE SecInv'
    BY <2>2, AcceptKeeps, MarkFailedKeeps
  <2>. QED
    BY <1>2, <2>1, <2>2 DEF Begins
<1>3. ASSUME NEW t \in Threads, Ends(t) PROVE SecInv'
  BY <1>3, CheckKeeps, InsertKeeps, ResetKeeps, EraseKeeps, OtherEndsKeeps DEF Ends
<1>4. ASSUME NEW t \in Threads, Serve(t) PROVE SecInv'
  BY <1>2, <1>3, <1>4 DEF Serve
<1>5. CASE Clients
  BY <1>1, <1>5, TickKeeps DEF Clients, Leaves
<1>6. ASSUME NEW t \in Threads, CheckTimeout(t) \/ ThreadEnds(t) PROVE SecInv'
  BY <1>1, <1>6 DEF CheckTimeout, ThreadEnds, secVars
<1>7. CASE Signal \/ Main \/ LookupEnds \/ LookupHangs \/ UNCHANGED vars
  BY <1>1, <1>7 DEF Signal, Main, LookupEnds, LookupHangs, vars, secVars
<1>8. CASE RunServer \/ Spawn \/ StartPart \/ JoinThreads \/ StopPart \/ FreePart \/ FreeRest
  BY <1>1, <1>8 DEF RunServer, Spawn, StartPart, JoinThreads, StopPart, FreePart, FreeRest, secVars
<1>9. ASSUME NEW p \in Parts, WorkerEnds(p) \/ WorkerHangs(p) PROVE SecInv'
  BY <1>1, <1>9 DEF WorkerEnds, WorkerHangs, secVars
<1>. QED
  BY <1>4, <1>5, <1>6, <1>7, <1>8, <1>9 DEF Next, Server

\* The count of an address has every failure since its last success, on however
\* many threads they come in, and no others, unless a success met a change of
\* the map under way and did not find the entry: then it has earlier ones too.
THEOREM NoFailureLostHolds == Spec => []NoFailureLost
<1>1. SecInv => NoFailureLost
  BY DEF SecInv, CountInv, Counted, Inserting, NoFailureLost
<1>. QED
  BY <1>1, InitSec, NextSec, PTL DEF Spec

\* The time since the last probe, which check measures for an address with an
\* entry, has passed since its last probe as a client sees it.
WaitInv ==
  /\ quiet \in [Addresses -> Nat] /\ open \in [Addresses -> Int]
  /\ \A a \in Addresses : m_info[a].attempt > 0 => m_info[a].age <= quiet[a]

LEMMA InitWait == Init => WaitInv
BY DEF Init, SecInit, WaitInv, NoInfo

LEMMA InfoType ==
  ASSUME SecInv, NEW a \in Addresses
  PROVE  m_info[a] \in [attempt: Nat, age: Nat] /\ m_info[a].attempt \in Nat /\ m_info[a].age \in Nat
BY DEF SecInv, SecTypes

\* Steps that leave the ages and the probes alone.
LEMMA AgesKept ==
  ASSUME SecInv, WaitInv, UNCHANGED quiet, open' \in [Addresses -> Int],
         \A a \in Addresses : /\ m_info'[a].age = m_info[a].age
                              /\ m_info'[a].attempt > 0 => m_info[a].attempt > 0
  PROVE  WaitInv'
BY DEF WaitInv

\* Both times go on together.
LEMMA TickWaits ==
  ASSUME SecInv, WaitInv, Tick
  PROVE  WaitInv'
<1>1. MaxAge \in Int
  BY SecurityAssumption DEF MaxAge
<1>2. \A n \in Nat : Older(n) \in Nat
  BY DEF Older
<1>3. \A m, n \in Nat : m <= n => Older(m) <= Older(n)
  BY <1>1 DEF Older
<1>4. UNCHANGED open /\ quiet' = [a \in Addresses |-> IF failed[a] > 0 \/ missed[a] THEN Older(quiet[a]) ELSE quiet[a]]
  BY DEF Tick
<1>5. quiet' \in [Addresses -> Nat]
  BY <1>2, <1>4 DEF WaitInv
<1>6. ASSUME NEW a \in Addresses, m_info'[a].attempt > 0
      PROVE  m_info'[a].age <= quiet'[a]
  <2>1. m_info[a] \in [attempt: Nat, age: Nat] /\ quiet[a] \in Nat
    BY InfoType DEF WaitInv
  <2>2. m_info'[a] = IF m_info[a].attempt > 0 THEN [m_info[a] EXCEPT !.age = Older(@)] ELSE m_info[a]
    BY DEF Tick
  <2>3. m_info[a].attempt > 0 /\ m_info'[a].age = Older(m_info[a].age)
    BY <1>6, <2>1, <2>2
  <2>4. failed[a] > 0 \/ missed[a]
    BY <2>1, <2>3 DEF SecInv, CountInv, Counted
  <2>5. quiet'[a] = Older(quiet[a])
    BY <1>4, <2>4
  <2>6. m_info[a].age \in Nat /\ m_info[a].age <= quiet[a]
    BY <2>1, <2>3 DEF WaitInv
  <2>. QED BY <1>3, <2>1, <2>3, <2>5, <2>6
<1>. QED BY <1>4, <1>5, <1>6 DEF WaitInv

\* Steps that begin the time of one address anew.
LEMMA ProbeWaits ==
  ASSUME SecInv, WaitInv, NEW a \in Addresses, open' \in [Addresses -> Int],
         quiet' = [quiet EXCEPT ![a] = 0],
         m_info'[a].age = 0 \/ ~(m_info'[a].attempt > 0),
         \A b \in Addresses : b # a => m_info'[b] = m_info[b]
  PROVE  WaitInv'
<1>1. quiet' \in [Addresses -> Nat]
  BY DEF WaitInv
<1>2. ASSUME NEW b \in Addresses, m_info'[b].attempt > 0 PROVE m_info'[b].age <= quiet'[b]
  BY <1>2 DEF WaitInv
<1>. QED BY <1>1, <1>2 DEF WaitInv

LEMMA InsertWaits ==
  ASSUME SecInv, WaitInv, NEW t \in Threads, Insert(t)
  PROVE  WaitInv'
<1>1. PICK a : a = thr[t].addr
  OBVIOUS
<1>2. a \in Addresses /\ thr[t] = [pc |-> "insert", addr |-> a]
  BY <1>1 DEF Insert, SecInv, LockInv, SecTypes
<1>3. m_info[a].attempt = 0
  BY <1>2 DEF SecInv, CountInv, Inserting
<1>4. m_info' = [m_info EXCEPT ![a] = [attempt |-> 1, age |-> 0]] /\ quiet' = [quiet EXCEPT ![a] = 0]
  BY <1>1, <1>3 DEF Insert
<1>5. m_info'[a].age = 0 /\ \A b \in Addresses : b # a => m_info'[b] = m_info[b]
  BY <1>2, <1>4 DEF SecInv, SecTypes
<1>6. open' \in [Addresses -> Int]
  BY DEF Insert, WaitInv
<1>. QED BY <1>2, <1>4, <1>5, <1>6, ProbeWaits

LEMMA EraseWaits ==
  ASSUME SecInv, WaitInv, NEW t \in Threads, Erase(t)
  PROVE  WaitInv'
<1>1. PICK a \in Addresses : a = thr[t].addr
  BY DEF Erase, SecInv, LockInv
<1>2. m_info' = [m_info EXCEPT ![a] = NoInfo] /\ quiet' = [quiet EXCEPT ![a] = 0]
  BY <1>1 DEF Erase
<1>3. m_info'[a].age = 0 /\ \A b \in Addresses : b # a => m_info'[b] = m_info[b]
  BY <1>2 DEF SecInv, SecTypes, NoInfo
<1>4. open' \in [Addresses -> Int]
  BY DEF Erase, WaitInv
<1>. QED BY <1>2, <1>3, <1>4, ProbeWaits

\* Admitting a client opens one connection of one address.
LEMMA AdmitOpens ==
  ASSUME WaitInv, NEW a \in Addresses, Admit(a)
  PROVE  open' \in [Addresses -> Int] /\ \A b \in Addresses : b # a => open'[b] = open[b]
BY DEF Admit, WaitInv

LEMMA CheckWaits ==
  ASSUME SecInv, WaitInv, NEW t \in Threads, Check(t)
  PROVE  /\ WaitInv'
         /\ \A b \in Addresses : open'[b] > open[b] /\ m_info[b].attempt > MaxAttempts => expired(m_info[b])
<1>1. PICK a \in Addresses : a = thr[t].addr
  BY DEF Check, SecInv, LockInv
<1>2. CASE m_info[a].attempt <= MaxAttempts /\ Admit(a) /\ UNCHANGED <<m_info, quiet>>
  <2>1. m_info[a].attempt \in Nat /\ MaxAttempts \in Nat
    BY InfoType, SecurityAssumption
  <2>2. WaitInv'
    BY <1>2, AdmitOpens, AgesKept
  <2>3. \A b \in Addresses : open'[b] > open[b] => b = a
    BY <1>2, AdmitOpens DEF WaitInv
  <2>. QED BY <1>2, <2>1, <2>2, <2>3
<1>3. CASE /\ expired(m_info[a]) /\ Admit(a)
           /\ m_info' = [m_info EXCEPT ![a].age = 0] /\ quiet' = [quiet EXCEPT ![a] = 0]
  <2>1. m_info'[a].age = 0 /\ \A b \in Addresses : b # a => m_info'[b] = m_info[b]
    BY <1>3 DEF SecInv, SecTypes
  <2>2. WaitInv'
    BY <1>3, <2>1, AdmitOpens, ProbeWaits
  <2>3. \A b \in Addresses : open'[b] > open[b] => b = a
    BY <1>3, AdmitOpens DEF WaitInv
  <2>. QED BY <1>3, <2>2, <2>3
<1>4. CASE UNCHANGED <<m_info, open, quiet>>
  <2>1. WaitInv'
    BY <1>4 DEF WaitInv
  <2>2. \A b \in Addresses : ~(open'[b] > open[b])
    BY <1>4 DEF WaitInv
  <2>. QED BY <2>1, <2>2
<1>. QED BY <1>1, <1>2, <1>3, <1>4 DEF Check

LEMMA AcceptWaits ==
  ASSUME SecInv, WaitInv, NEW t \in Threads, NEW a \in Addresses, Accept(t, a)
  PROVE  /\ WaitInv'
         /\ \A b \in Addresses : open'[b] > open[b] => ~(m_info[b].attempt > 0) \/ m_lock # Nobody
<1>1. CASE UNCHANGED open
  <2>1. WaitInv'
    BY <1>1 DEF Accept, WaitInv
  <2>2. \A b \in Addresses : ~(open'[b] > open[b])
    BY <1>1 DEF WaitInv
  <2>. QED BY <2>1, <2>2
<1>2. CASE Admit(a) /\ FALSE \in Lookup(a)
  <2>1. WaitInv'
    BY <1>2, AdmitOpens DEF Accept, WaitInv
  <2>2. \A b \in Addresses : open'[b] > open[b] => b = a
    BY <1>2, AdmitOpens DEF WaitInv
  <2>3. ~(m_info[a].attempt > 0) \/ m_lock # Nobody
    BY <1>2 DEF Lookup
  <2>. QED BY <2>1, <2>2, <2>3
<1>3. UNCHANGED open \/ (Admit(a) /\ FALSE \in Lookup(a))
  <2>1. PICK found \in Lookup(a) :
          IF found THEN Enter(t, "check", a) /\ UNCHANGED <<open, turned>>
          ELSE Admit(a) /\ UNCHANGED thr
    BY DEF Accept
  <2>2. (m_info[a].attempt > 0) \in BOOLEAN
    BY InfoType
  <2>3. found \in BOOLEAN
    BY <2>2, Zenon DEF Lookup
  <2>. QED BY <2>1, <2>3, Zenon
<1>. QED BY <1>1, <1>2, <1>3

\* The other steps of the threads and the clients open no connection.
LEMMA OthersWait ==
  ASSUME SecInv, WaitInv, NEW t \in Threads, NEW a \in Addresses,
         MarkFailed(t, a) \/ TryReset(t, a) \/ Leaves(a)
  PROVE  WaitInv' /\ \A b \in Addresses : ~(open'[b] > open[b])
<1>1. UNCHANGED quiet /\ open' \in {open, [open EXCEPT ![a] = @ - 1]}
  BY DEF MarkFailed, TryReset, Leaves
<1>2. open' \in [Addresses -> Int] /\ \A b \in Addresses : ~(open'[b] > open[b])
  BY <1>1 DEF WaitInv
<1>3. m_info' = m_info \/ (m_info[a].attempt > 0 /\ m_info' = [m_info EXCEPT ![a].attempt = @ + 1])
  BY DEF MarkFailed, TryReset, Leaves
<1>4. \A b \in Addresses : /\ m_info'[b].age = m_info[b].age
                           /\ m_info'[b].attempt > 0 => m_info[b].attempt > 0
  BY <1>3 DEF SecInv, SecTypes
<1>. QED BY <1>1, <1>2, <1>4, AgesKept

\* Every step of the program keeps the invariant, and opens a connection of an
\* address beyond the limit only when its window is over, or the map is in motion.
LEMMA NextWaits ==
  ASSUME SecInv, WaitInv, [Next]_vars
  PROVE  /\ WaitInv'
         /\ \A a \in Addresses :
              open'[a] > open[a] =>
                ~(m_info[a].attempt > MaxAttempts) \/ expired(m_info[a]) \/ m_lock # Nobody
<1>. DEFINE Waits == \A a \in Addresses :
              open'[a] > open[a] =>
                ~(m_info[a].attempt > MaxAttempts) \/ expired(m_info[a]) \/ m_lock # Nobody
<1>0. ASSUME \A a \in Addresses : ~(open'[a] > open[a]) PROVE Waits
  BY <1>0
<1>1. CASE UNCHANGED <<m_info, open, quiet>>
  <2>1. WaitInv' /\ \A a \in Addresses : ~(open'[a] > open[a])
    BY <1>1 DEF WaitInv
  <2>. QED BY <1>0, <2>1
<1>2. ASSUME NEW t \in Threads, NEW a \in Addresses, Accept(t, a) PROVE WaitInv' /\ Waits
  <2>1. \A b \in Addresses : m_info[b].attempt \in Nat /\ MaxAttempts \in Nat
    BY InfoType, SecurityAssumption
  <2>2. /\ WaitInv'
        /\ \A b \in Addresses : open'[b] > open[b] => ~(m_info[b].attempt > 0) \/ m_lock # Nobody
    BY <1>2, AcceptWaits
  <2>. QED BY <2>1, <2>2
<1>3. ASSUME NEW t \in Threads, Check(t) PROVE WaitInv' /\ Waits
  <2>1. /\ WaitInv'
        /\ \A b \in Addresses : open'[b] > open[b] /\ m_info[b].attempt > MaxAttempts => expired(m_info[b])
    BY <1>3, CheckWaits
  <2>. QED BY <2>1
<1>4. ASSUME NEW t \in Threads, Insert(t) \/ Erase(t) PROVE WaitInv' /\ Waits
  <2>1. \A a \in Addresses : ~(open'[a] > open[a])
    BY <1>4 DEF Insert, Erase, WaitInv
  <2>. QED BY <1>0, <1>4, <2>1, InsertWaits, EraseWaits
<1>5. ASSUME NEW t \in Threads, OtherBegins(t) \/ OtherEnds(t) \/ Reset(t) PROVE WaitInv' /\ Waits
  BY <1>1, <1>5 DEF OtherBegins, OtherEnds, Reset
<1>6. ASSUME NEW t \in Threads, NEW a \in Addresses, MarkFailed(t, a) \/ TryReset(t, a)
      PROVE  WaitInv' /\ Waits
  BY <1>0, <1>6, OthersWait
<1>7. ASSUME NEW a \in Addresses, Leaves(a) PROVE WaitInv' /\ Waits
  <2>1. open' \in [Addresses -> Int] /\ \A b \in Addresses : ~(open'[b] > open[b])
    BY <1>7 DEF Leaves, WaitInv
  <2>2. WaitInv'
    BY <1>7, <2>1 DEF Leaves, WaitInv
  <2>. QED BY <1>0, <2>1, <2>2
<1>8. CASE Tick
  <2>1. \A a \in Addresses : ~(open'[a] > open[a])
    BY <1>8 DEF Tick, WaitInv
  <2>. QED BY <1>0, <1>8, <2>1, TickWaits
<1>9. ASSUME NEW t \in Threads, Serve(t) PROVE WaitInv' /\ Waits
  BY <1>2, <1>3, <1>4, <1>5, <1>6, <1>9 DEF Serve, Begins, Ends
<1>10. CASE Clients
  BY <1>7, <1>8, <1>10 DEF Clients
<1>11. ASSUME NEW t \in Threads, CheckTimeout(t) \/ ThreadEnds(t) PROVE WaitInv' /\ Waits
  BY <1>1, <1>11 DEF CheckTimeout, ThreadEnds, secVars
<1>12. CASE Signal \/ Main \/ LookupEnds \/ LookupHangs \/ UNCHANGED vars
  BY <1>1, <1>12 DEF Signal, Main, LookupEnds, LookupHangs, vars, secVars
<1>13. CASE RunServer \/ Spawn \/ StartPart \/ JoinThreads \/ StopPart \/ FreePart \/ FreeRest
  BY <1>1, <1>13 DEF RunServer, Spawn, StartPart, JoinThreads, StopPart, FreePart, FreeRest, secVars
<1>14. ASSUME NEW p \in Parts, WorkerEnds(p) \/ WorkerHangs(p) PROVE WaitInv' /\ Waits
  BY <1>1, <1>14 DEF WorkerEnds, WorkerHangs, secVars
<1>. QED
  BY <1>9, <1>10, <1>11, <1>12, <1>13, <1>14 DEF Next, Server

\* The window is longer the more attempts are counted.
LEMMA WindowGrows ==
  ASSUME NEW m \in Nat, NEW n \in Nat, m >= n, Penalty \in Nat, MaxAttempts \in Nat
  PROVE  Window(m) >= Window(n)
<1>1. \A x, y \in Nat : x * y >= 0
  OBVIOUS
<1>2. (m - n) * Penalty >= 0
  BY <1>1
<1>3. (m - MaxAttempts) * Penalty = (n - MaxAttempts) * Penalty + (m - n) * Penalty
  OBVIOUS
<1>. QED BY <1>2, <1>3 DEF Window

\* An address with more than max_attempts failures is let in once per window, for
\* any number of threads that check it at the same moment, unless a lookup meets a
\* change of the map under way.
THEOREM LockedOutWaitsHolds == Spec => LockedOutWaits
<1>1. SecInv /\ WaitInv /\ [Next]_vars => WaitInv'
  BY NextWaits
<1>2. SecInv /\ WaitInv /\ [Next]_vars =>
        [\A a \in Addresses :
           open'[a] > open[a] /\ failed[a] > MaxAttempts =>
             quiet[a] > Window(failed[a]) \/ m_lock # Nobody]_secVars
  <2>. SUFFICES ASSUME SecInv, WaitInv, [Next]_vars, NEW a \in Addresses,
                       open'[a] > open[a], failed[a] > MaxAttempts, m_lock = Nobody
                PROVE  quiet[a] > Window(failed[a])
    OBVIOUS
  <2>0. /\ m_info[a].attempt \in Nat /\ m_info[a].age \in Nat /\ failed[a] \in Nat
        /\ MaxAttempts \in Nat /\ Penalty \in Nat
    BY InfoType, SecurityAssumption DEF SecInv, SecTypes
  <2>1. m_info[a].attempt >= failed[a]
    <3>1. ~Inserting(a)
      BY FreeLock DEF Inserting
    <3>. QED BY <3>1 DEF SecInv, CountInv, Counted
  <2>2. expired(m_info[a])
    <3>1. m_info[a].attempt > MaxAttempts
      BY <2>0, <2>1
    <3>. QED BY <3>1, NextWaits
  <2>3. m_info[a].age > Window(failed[a])
    <3>1. Window(m_info[a].attempt) >= Window(failed[a])
      BY <2>0, <2>1, WindowGrows
    <3>2. Window(m_info[a].attempt) \in Int /\ Window(failed[a]) \in Int
      BY <2>0 DEF Window
    <3>. QED BY <2>0, <2>2, <3>1, <3>2 DEF expired
  <2>4. m_info[a].age <= quiet[a]
    <3>1. m_info[a].attempt > 0
      BY <2>0, <2>1
    <3>. QED BY <3>1 DEF WaitInv
  <2>5. m_info[a].age \in Int /\ quiet[a] \in Int /\ Window(failed[a]) \in Int
    BY <2>0 DEF WaitInv, Window
  <2>. QED BY <2>3, <2>4, <2>5
<1>. QED
  BY <1>1, <1>2, InitSec, NextSec, InitWait, PTL DEF Spec, LockedOutWaits

=============================================================================
