---------------------------- MODULE ClientServer ----------------------------
(***************************************************************************)
(* The life of the program: main, the thread of runServer, the threads     *)
(* that run the io_context, the workers of both caches, the monitor of the *)
(* pool and the thread of lookup_best_ip (main.cpp, http_server.cpp,       *)
(* common/singleton.h).  Serving is represented by what the threads do     *)
(* with the security manager.                                              *)
(*                                                                         *)
(* Caches, pool, security manager and schema are singletons: free()        *)
(* deletes the object and get() goes on returning the pointer.             *)
(***************************************************************************)
EXTENDS SecurityManager

CONSTANT Settings   \* sets of parts that may be enabled, of "pool", "blocks", "history"

VARIABLES
  enabled,     \* conn_pool_enable, blocks_cache_enable, history_cache_enable
  signal,      \* isStopSignalCalled
  main,        \* main: which thread it joins
  srv,         \* the thread of runServer
  io_stopped,  \* m_io_ctx.stop() has been called
  io,          \* the threads of the io_context
  m_run,       \* parts that have not been told to stop
  worker,      \* worker of a cache, monitor of the pool
  lookup,      \* the thread of lookup_best_ip
  freed        \* singletons that have been freed

lifeVars == <<enabled, signal, main, srv, io_stopped, io, m_run, worker, lookup, freed>>
vars == <<secVars, lifeVars>>

Parts == {"pool", "blocks", "history"}

ASSUME ServerAssumption == Settings \subseteq SUBSET Parts

\* http_server::run starts the parts in this order.
StartOrder == <<"pool", "blocks", "history">>

\* Mutant: the pool goes first, being the first that was started.
StopOrderStarted == <<"pool", "blocks", "history">>

\* ... and stops and frees them in this one.
StopOrder == <<"blocks", "history", "pool">>

\* The thread of runServer sleeps, binds the port, spawns its threads, starts the
\* parts, joins the threads, and stops the parts: sets their flag, and joins
\* the worker.
Step(what, i) == [at |-> what, part |-> i]

TypeOK ==
  /\ SecTypeOK
  /\ enabled \in Settings /\ signal \in BOOLEAN
  /\ main \in {"start", "synchronize", "join_server", "join_lookup", "done"}
  /\ srv \in {Step(w, 0) : w \in {"none", "sleep", "bind", "spawn", "join", "free", "ended"}}
             \cup {Step(w, i) : w \in {"start", "stop", "wait"}, i \in 1..3}
  /\ io_stopped \in BOOLEAN
  /\ io \in [Threads -> {"none", "run", "ended"}]
  /\ m_run \subseteq Parts /\ worker \in [Parts -> {"none", "run", "hung", "ended"}]
  /\ lookup \in {"none", "run", "hung", "ended"}
  /\ freed \subseteq Parts \cup {"security", "schema"}

Init ==
  /\ SecInit
  /\ enabled \in Settings /\ signal = FALSE
  /\ main = "start" /\ srv = Step("none", 0) /\ io_stopped = FALSE
  /\ io = [t \in Threads |-> "none"]
  /\ m_run = {} /\ worker = [p \in Parts |-> "none"]
  /\ lookup = "none" /\ freed = {}

\* The stop signal (external).
Signal ==
  /\ ~signal /\ main # "done"
  /\ signal' = TRUE
  /\ UNCHANGED <<secVars, enabled, main, srv, io_stopped, io, m_run, worker, lookup, freed>>

(***************************************************************************)
(* main                                                                    *)
(***************************************************************************)

\* The thread of runServer is started, then that of lookup_best_ip, when
\* synchronize, with a local database, has returned.  Both are joined.
Main ==
  /\ \/ main = "start" /\ main' = "synchronize"
        /\ srv' = Step("sleep", 0) /\ UNCHANGED lookup
     \/ main = "synchronize" /\ main' = "join_server"
        /\ lookup' = "run" /\ UNCHANGED srv
     \/ main = "join_server" /\ srv.at = "ended" /\ main' = "join_lookup"
        /\ UNCHANGED <<srv, lookup>>
     \/ main = "join_lookup" /\ lookup = "ended" /\ main' = "done"
        /\ UNCHANGED <<srv, lookup>>
  /\ UNCHANGED <<secVars, enabled, signal, io_stopped, io, m_run, worker, freed>>

\* Mutant: the loop catches the StopException.
LookupEndsNever == FALSE /\ UNCHANGED vars

\* checkStopSignal in lookup_best_ip
LookupEnds ==
  /\ lookup = "run" /\ signal
  /\ lookup' = "ended"
  /\ UNCHANGED <<secVars, enabled, signal, main, srv, io_stopped, io, m_run, worker, freed>>

\* A request that is used again may not return (JsonRpcRequest with a second
\* use), and curl has a timeout for the connection only.
LookupHangs ==
  /\ lookup = "run"
  /\ lookup' = "hung"
  /\ UNCHANGED <<secVars, enabled, signal, main, srv, io_stopped, io, m_run, worker, freed>>

(***************************************************************************)
(* The thread of runServer                                                 *)
(***************************************************************************)

\* sleep looks at the signal; the constructor of the acceptor may throw.  Either
\* way run is not entered, or left at once.
RunServer ==
  /\ \/ srv.at = "sleep" /\ ~signal /\ srv' = Step("bind", 0)
     \/ srv.at = "sleep" /\ signal /\ srv' = Step("ended", 0)
     \/ srv.at = "bind" /\ srv' \in {Step("spawn", 0), Step("ended", 0)}
  /\ io_stopped' = (srv'.at = "ended")
  /\ UNCHANGED <<secVars, enabled, signal, main, io, m_run, worker, lookup, freed>>

\* The threads of the io_context serve before the parts are started.
Spawn ==
  /\ srv.at = "spawn"
  /\ io' = [t \in Threads |-> "run"]
  /\ srv' = Step("start", 1)
  /\ UNCHANGED <<secVars, enabled, signal, main, io_stopped, m_run, worker, lookup, freed>>

StartPart ==
  /\ srv.at = "start"
  /\ LET p == StartOrder[srv.part]
     IN  IF p \in enabled
         THEN m_run' = m_run \cup {p} /\ worker' = [worker EXCEPT ![p] = "run"]
         ELSE UNCHANGED <<m_run, worker>>
  /\ srv' = IF srv.part = 3 THEN Step("join", 0) ELSE Step("start", srv.part + 1)
  /\ UNCHANGED <<secVars, enabled, signal, main, io_stopped, io, lookup, freed>>

JoinThreads ==
  /\ srv.at = "join" /\ \A t \in Threads : io[t] = "ended"
  /\ srv' = Step("stop", 1)
  /\ UNCHANGED <<secVars, enabled, signal, main, io_stopped, io, m_run, worker, lookup, freed>>

\* stop() of a part
StopPart ==
  /\ srv.at = "stop"
  /\ m_run' = m_run \ {StopOrder[srv.part]}
  /\ srv' = Step("wait", srv.part)
  /\ UNCHANGED <<secVars, enabled, signal, main, io_stopped, io, worker, lookup, freed>>

\* ... joins its thread, if there is one, and then it is freed.
FreePart ==
  /\ srv.at = "wait"
  /\ LET p == StopOrder[srv.part]
     IN  worker[p] \notin {"run", "hung"} /\ freed' = freed \cup {p}
  /\ srv' = IF srv.part = 3 THEN Step("free", 0) ELSE Step("stop", srv.part + 1)
  /\ UNCHANGED <<secVars, enabled, signal, main, io_stopped, io, m_run, worker, lookup>>

\* The rest of run, stop of the server, and its destructor.
FreeRest ==
  /\ srv.at = "free"
  /\ freed' = freed \cup {"security", "schema"}
  /\ io_stopped' = TRUE
  /\ srv' = Step("ended", 0)
  /\ UNCHANGED <<secVars, enabled, signal, main, io, m_run, worker, lookup>>

(***************************************************************************)
(* The other threads                                                       *)
(***************************************************************************)

\* checkTimeout, once a second on one of the threads: it arms the timer again,
\* or stops the io_context.
CheckTimeout(t) ==
  /\ io[t] = "run" /\ Idle(t) /\ signal /\ ~io_stopped
  /\ io_stopped' = TRUE
  /\ UNCHANGED <<secVars, enabled, signal, main, srv, io, m_run, worker, lookup, freed>>

\* run of the io_context returns when the handler at hand is through.
ThreadEnds(t) ==
  /\ io[t] = "run" /\ Idle(t) /\ io_stopped
  /\ io' = [io EXCEPT ![t] = "ended"]
  /\ UNCHANGED <<secVars, enabled, signal, main, srv, io_stopped, m_run, worker, lookup, freed>>

\* A worker or the monitor sees the signal, or that its part is being stopped.
WorkerEnds(p) ==
  /\ worker[p] = "run" /\ (signal \/ p \notin m_run)
  /\ worker' = [worker EXCEPT ![p] = "ended"]
  /\ UNCHANGED <<secVars, enabled, signal, main, srv, io_stopped, io, m_run, lookup, freed>>

\* The workers of the caches, too, use their requests again and again.
WorkerHangs(p) ==
  /\ p # "pool" /\ worker[p] = "run"
  /\ worker' = [worker EXCEPT ![p] = "hung"]
  /\ UNCHANGED <<secVars, enabled, signal, main, srv, io_stopped, io, m_run, lookup, freed>>

\* A connection or a request is taken up while the io_context runs, and what a
\* thread is in comes to its end.
Serve(t) ==
  /\ io[t] = "run"
  /\ (~io_stopped /\ Begins(t)) \/ Ends(t)
  /\ UNCHANGED lifeVars

Clients == (Tick \/ \E a \in Addresses : Leaves(a)) /\ UNCHANGED lifeVars

(***************************************************************************)
(* The specification.                                                      *)
(***************************************************************************)

Server ==
  \/ Main \/ LookupEnds
  \/ RunServer \/ Spawn \/ StartPart \/ JoinThreads \/ StopPart \/ FreePart \/ FreeRest
  \/ \E p \in Parts : WorkerEnds(p)

Next ==
  \/ Signal \/ Server \/ Clients \/ LookupHangs
  \/ \E p \in Parts : WorkerHangs(p)
  \/ \E t \in Threads : Serve(t) \/ CheckTimeout(t) \/ ThreadEnds(t)

Spec == Init /\ [][Next]_vars

Retries(a) == \E t \in Threads : io[t] = "run" /\ ~io_stopped /\ Accept(t, a) /\ UNCHANGED lifeVars

\* Threads run and handlers end (a request that is used once returns, which
\* JsonRpcRequest is about), timers go off, time passes, and synchronize returns.
\* A worker and the thread of lookup_best_ip come back to their checks unless they
\* hang.  A thread that waits for m_lock, which others hold for a moment at a time,
\* gets it; a client that connects again and again gets its turn on some thread.
\* Nobody need send the signal.
FairSpec ==
  /\ Spec
  /\ WF_vars(Server)
  /\ WF_vars(Tick /\ UNCHANGED lifeVars)
  /\ \A t \in Threads :
       /\ SF_vars(io[t] = "run" /\ Ends(t) /\ UNCHANGED lifeVars)
       /\ WF_vars(ThreadEnds(t))
  /\ SF_vars(\E t \in Threads : CheckTimeout(t))
  /\ \A a \in Access : SF_vars(Retries(a))

(***************************************************************************)
(* Properties.                                                             *)
(***************************************************************************)

\* No thread of the server and no worker is running when something it uses is
\* freed: handlers use everything, the workers their own cache and, for their
\* requests, the pool, and the workers may go on for a while after the signal.
\* Left out are the thread of lookup_best_ip and requests that are destroyed
\* with the io_context, which do use the pool after it was freed.
NoUseAfterFree ==
  /\ (\E t \in Threads : io[t] = "run") => freed = {}
  /\ \A p \in Parts : worker[p] \in {"run", "hung"} => {p, "pool"} \cap freed = {}

\* Once the signal has come the program ends, wherever its threads are: starting,
\* serving, or joining one another.  What can keep it is only a request that does
\* not return: the thread of runServer waits for the worker of a cache that is in
\* one, or main for the thread of lookup_best_ip, when all else has ended.
SignalEndsProgram ==
  signal ~> \/ main = "done"
            \/ srv.at = "wait" /\ worker[StopOrder[srv.part]] = "hung"
            \/ main = "join_lookup" /\ lookup = "hung"

\* An address that was turned away and keeps trying is let in again, unless the
\* server stops before.
LockoutEnds == \A a \in Addresses : turned[a] ~> ~turned[a] \/ signal

=============================================================================
