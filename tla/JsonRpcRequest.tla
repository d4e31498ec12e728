--------------------------- MODULE JsonRpcRequest ---------------------------
(***************************************************************************)
(* One outgoing JSON-RPC request: http_json_rpc_request.cpp, with the      *)
(* Timer of task_handlers/utils.cpp.                                       *)
(*                                                                         *)
(* Two kinds of threads meet in the object.  Handlers of asynchronous      *)
(* operations run on the threads of an io_context; a timer thread calls    *)
(* on_timeout.  They share m_locker, m_canceled and m_rerun; the Timer has *)
(* a mutex of its own, which its thread holds while it calls on_timeout.   *)
(*                                                                         *)
(* The object either has an io_context of its own, whose run() is the body *)
(* of execute (the cache workers, which use the same object again and      *)
(* again), or shares that of the HTTP server, which several threads run.   *)
(***************************************************************************)
EXTENDS Integers, FiniteSets

CONSTANTS
  AttemptsCount,   \* m_attempts_count
  Setups,          \* [own, ssl, pool: BOOLEAN] the object may be used in
  MaxExecutes      \* bound on uses of an object with its own io_context

ASSUME AttemptsAssumption == AttemptsCount \in Nat \ {0} /\ MaxExecutes \in Nat \ {0}
ASSUME SetupsAssumption == Setups \subseteq [own: BOOLEAN, ssl: BOOLEAN, pool: BOOLEAN]

VARIABLES
  setup,
  m_attempt, m_canceled, m_rerun,
  m_locker,      \* owner of the mutex
  pool_obj,      \* m_pool_obj is valid
  busy,          \* entries of the pool this object has not checked in
  sock,          \* is the socket open
  ops,           \* operations started and not handled yet
  stopped,       \* m_io_ctx->stopped()
  io,            \* the handler being run
  owed,          \* calls of error_handler whose lock_guard has yet to unlock
  thread,        \* the timer thread
  t_lock,        \* owner of the timer's mutex
  running,       \* execute() has been called and is not answered
  executes, answers

fields == <<m_attempt, m_canceled, m_rerun, pool_obj, busy, sock>>
timer  == <<thread, t_lock>>
caller == <<running, executes, answers>>
vars   == <<setup, fields, m_locker, ops, stopped, io, owed, timer, caller>>

Kinds == {"resolve", "connect", "handshake", "write", "read"}
Results == {"pending", "ok", "error"}

\* Operations are told apart by the attempt and the use they were started in.
Op == [kind: Kinds, res: Results, use: 1..MaxExecutes, attempt: 1..AttemptsCount]

Idle == [pc |-> "idle", kind |-> "resolve", res |-> "ok", failing |-> FALSE]

IoPcs == {"idle", "stop", "decide", "stop_again", "failed", "timer", "joining", "start", "finish"}

TypeOK ==
  /\ setup \in Setups
  /\ m_attempt \in 0..AttemptsCount
  /\ m_canceled \in BOOLEAN /\ m_rerun \in BOOLEAN
  /\ m_locker \in {"free", "timer"}
  /\ pool_obj \in BOOLEAN /\ busy \in Nat
  /\ sock \in BOOLEAN
  /\ ops \subseteq Op
  /\ stopped \in BOOLEAN
  /\ io \in [pc: IoPcs, kind: Kinds, res: Results, failing: BOOLEAN]
  /\ owed \in Nat
  /\ thread \in {"none", "waiting", "firing", "fired"}
  /\ t_lock \in {"free", "io", "timer"}
  /\ running \in BOOLEAN
  /\ executes \in 0..MaxExecutes /\ answers \in Nat

Init ==
  /\ setup \in Setups
  /\ m_attempt = 0 /\ m_canceled = FALSE /\ m_rerun = FALSE
  /\ m_locker = "free"
  /\ pool_obj = FALSE /\ busy = 0 /\ sock = FALSE
  /\ ops = {} /\ stopped = FALSE
  /\ io = Idle /\ owed = 0
  /\ thread = "none" /\ t_lock = "free"
  /\ running = FALSE /\ executes = 0 /\ answers = 0

(***************************************************************************)
(* Operations of the io_context (external).                                *)
(***************************************************************************)

NewOp(kind, attempt, use, res) == [kind |-> kind, res |-> res, use |-> use, attempt |-> attempt]

\* Closing or releasing the socket aborts what is under way on it; a name
\* resolution goes on.
Aborted(os) ==
  {IF o.res = "pending" /\ o.kind # "resolve" THEN [o EXCEPT !.res = "error"] ELSE o : o \in os}

\* close(): with an entry of the pool the socket is closed or released; without
\* one the plain socket is closed, and of a TLS stream only the session is shut
\* down, which aborts nothing.
KeepsSocket == setup.ssl /\ ~pool_obj
CloseOps == IF KeepsSocket THEN ops ELSE Aborted(ops)

Complete(o) ==
  /\ o.res = "pending"
  /\ \E r \in {"ok", "error"} : ops' = (ops \ {o}) \cup {[o EXCEPT !.res = r]}
  /\ UNCHANGED <<setup, fields, m_locker, stopped, io, owed, timer, caller>>

(***************************************************************************)
(* execute                                                                 *)
(***************************************************************************)

\* The part of execute that starts an attempt.  With the pool, an entry may
\* come with a connected socket: the request timer is started, then the write.
\* Otherwise the host is resolved: a socket that is still open cannot take over
\* the one of the entry.
Attempt(os, use, attempt, held, open, failing) ==
  /\ m_attempt' = attempt
  /\ m_canceled' = FALSE
  /\ \/ /\ pool_obj' \in {FALSE} \cup {setup.pool}
        /\ busy' = held + (IF pool_obj' THEN 1 ELSE 0)
        /\ sock' = open
        /\ ops' = os \cup {NewOp("resolve", attempt, use, "pending")}
        /\ io' = Idle
        /\ owed' = IF failing THEN owed + 1 ELSE owed
     \/ /\ setup.pool /\ ~open
        /\ pool_obj' = TRUE /\ busy' = held + 1
        /\ sock' = TRUE
        /\ ops' = os
        /\ io' = [pc |-> "timer", kind |-> "write", res |-> "ok", failing |-> failing]
        /\ UNCHANGED owed

\* A call from outside: reset_attempts and execute.
Execute ==
  /\ ~running /\ io.pc = "idle" /\ owed = 0
  /\ executes < (IF setup.own THEN MaxExecutes ELSE 1)
  /\ executes' = executes + 1
  /\ running' = TRUE /\ answers' = 0
  /\ stopped' = FALSE
  /\ Attempt(ops, executes + 1, 1, busy, sock, FALSE)
  /\ UNCHANGED <<setup, m_rerun, m_locker, timer>>

\* run() of its own io_context returns, so execute does.
Return ==
  /\ setup.own /\ running /\ io.pc = "idle" /\ owed = 0
  /\ stopped \/ ops = {}
  /\ running' = FALSE
  /\ UNCHANGED <<setup, fields, m_locker, ops, stopped, io, owed, timer, executes, answers>>

\* The result is set, the callback called and cleared, and the object's own
\* io_context stopped.
Answer ==
  /\ answers' = answers + 1
  /\ running' = setup.own
  /\ stopped' = setup.own
  /\ UNCHANGED executes

(***************************************************************************)
(* Timer, as the handlers use it.                                          *)
(***************************************************************************)

\* Timer::stop: with the mutex free the thread waits or is gone; one that
\* waits finds m_stop set and ends without calling the handler.
TimerStop ==
  /\ t_lock = "free"
  /\ thread' = "none"
  /\ UNCHANGED t_lock

\* Timer::start joins the previous thread, with the mutex held.
TimerStart ==
  /\ io.pc = "timer" /\ t_lock = "free"
  /\ IF thread = "none"
     THEN /\ thread' = "waiting" /\ UNCHANGED t_lock
          /\ io' = [io EXCEPT !.pc = "start"]
     ELSE /\ t_lock' = "io" /\ UNCHANGED thread
          /\ io' = [io EXCEPT !.pc = "joining"]
  /\ UNCHANGED <<setup, fields, m_locker, ops, stopped, owed, caller>>

TimerFires ==
  /\ thread = "waiting" /\ t_lock = "free"
  /\ thread' = "firing" /\ t_lock' = "timer"
  /\ UNCHANGED <<setup, fields, m_locker, ops, stopped, io, owed, caller>>

\* Mutant: a request that was answered or failed in the meantime is cancelled again.
OnTimeoutAnyway ==
  /\ thread = "firing" /\ m_locker = "free"
  /\ m_canceled' = TRUE
  /\ pool_obj' = FALSE /\ busy' = IF pool_obj THEN busy - 1 ELSE busy
  /\ sock' = (sock /\ KeepsSocket) /\ ops' = CloseOps
  /\ thread' = "fired" /\ m_locker' = "timer"
  /\ UNCHANGED <<setup, m_attempt, m_rerun, stopped, io, owed, t_lock, caller>>

\* on_timeout: the first one to cancel the attempt wins.
OnTimeout ==
  /\ thread = "firing" /\ m_locker = "free"
  /\ IF m_canceled
     THEN /\ thread' = "none" /\ t_lock' = "free"
          /\ UNCHANGED <<fields, m_locker, ops>>
     ELSE /\ m_canceled' = TRUE
          /\ pool_obj' = FALSE /\ busy' = IF pool_obj THEN busy - 1 ELSE busy
          /\ sock' = (sock /\ KeepsSocket) /\ ops' = CloseOps
          /\ thread' = "fired" /\ m_locker' = "timer"
          /\ UNCHANGED <<m_attempt, m_rerun, t_lock>>
  /\ UNCHANGED <<setup, stopped, io, owed, caller>>

\* Mutant: a timeout is answered at once, although another attempt follows.
OnTimeoutEndsReruns ==
  /\ thread = "fired"
  /\ m_rerun' = (m_rerun \/ m_attempt < AttemptsCount)
  /\ Answer
  /\ thread' = "none" /\ t_lock' = "free" /\ m_locker' = "free"
  /\ UNCHANGED <<setup, m_attempt, m_canceled, pool_obj, busy, sock, ops, io, owed>>

\* ... and leaves the next attempt to the handler of the aborted operation.
OnTimeoutEnds ==
  /\ thread = "fired"
  /\ IF m_attempt < AttemptsCount
     THEN m_rerun' = TRUE /\ UNCHANGED <<stopped, caller>>
     ELSE Answer /\ UNCHANGED m_rerun
  /\ thread' = "none" /\ t_lock' = "free" /\ m_locker' = "free"
  /\ UNCHANGED <<setup, m_attempt, m_canceled, pool_obj, busy, sock, ops, io, owed>>

(***************************************************************************)
(* Handlers of the operations.                                             *)
(***************************************************************************)

\* A thread of the io_context takes up a finished operation.  Threads of the
\* server's io_context do so although another one is not yet out of
\* error_handler.
Handle(o) ==
  /\ io.pc = "idle" /\ o.res # "pending"
  /\ setup.own => running /\ ~stopped /\ owed = 0
  /\ ops' = ops \ {o}
  /\ io' = [pc |-> IF o.kind \in {"connect", "read"} THEN "stop" ELSE "decide",
            kind |-> o.kind, res |-> o.res, failing |-> FALSE]
  /\ UNCHANGED <<setup, fields, m_locker, stopped, owed, timer, caller>>

\* m_timer.stop() at the head of on_connect and on_read, and in error_handler.
StopTimer ==
  /\ io.pc \in {"stop", "stop_again"}
  /\ TimerStop
  /\ io' = [io EXCEPT !.pc = IF io.pc = "stop" THEN "decide" ELSE "failed"]
  /\ UNCHANGED <<setup, fields, m_locker, ops, stopped, owed, caller>>

\* What a handler does when error_handler returns false: the next operation,
\* which of them starts a timer, and the end in on_read.
NextStage ==
  CASE io.kind = "resolve"   -> [io EXCEPT !.pc = "timer", !.kind = "connect"]
    [] io.kind = "connect"   -> [io EXCEPT !.pc = "timer",
                                           !.kind = IF setup.ssl THEN "handshake" ELSE "write"]
    [] io.kind = "handshake" -> [io EXCEPT !.pc = "start", !.kind = "write"]
    [] io.kind = "write"     -> [io EXCEPT !.pc = "start", !.kind = "read"]
    [] io.kind = "read"      -> [io EXCEPT !.pc = "finish"]

\* Mutant: m_rerun is not looked at.
ErrorHandlerNoRerun ==
  /\ io.pc = "decide" /\ m_locker = "free"
  /\ \/ m_canceled /\ io' = Idle /\ UNCHANGED <<m_canceled, m_rerun>>
     \/ ~m_canceled /\ io.res = "ok" /\ io' = NextStage /\ UNCHANGED <<m_canceled, m_rerun>>
     \/ /\ ~m_canceled /\ io.res # "ok"
        /\ m_rerun' = FALSE /\ m_canceled' = TRUE
        /\ io' = [io EXCEPT !.pc = "stop_again"]
  /\ UNCHANGED <<setup, m_attempt, m_locker, pool_obj, busy, sock, ops, stopped, owed, timer, caller>>

\* error_handler up to its explicit unlock.
ErrorHandler ==
  /\ io.pc = "decide" /\ m_locker = "free"
  /\ \/ ~m_rerun /\ m_canceled /\ io' = Idle /\ UNCHANGED <<m_canceled, m_rerun>>
     \/ ~m_rerun /\ ~m_canceled /\ io.res = "ok" /\ io' = NextStage /\ UNCHANGED <<m_canceled, m_rerun>>
     \/ /\ m_rerun \/ (~m_canceled /\ io.res # "ok")
        /\ m_rerun' = FALSE /\ m_canceled' = TRUE
        /\ io' = [io EXCEPT !.pc = "stop_again"]
  /\ UNCHANGED <<setup, m_attempt, m_locker, pool_obj, busy, sock, ops, stopped, owed, timer, caller>>

\* Mutant: the pool object is not given back before the next attempt.
FailedKeepsSocket ==
  /\ io.pc = "failed"
  /\ IF m_attempt < AttemptsCount
     THEN /\ Attempt(CloseOps, executes, m_attempt + 1, busy, sock /\ KeepsSocket, TRUE)
          /\ UNCHANGED <<stopped, caller>>
     ELSE /\ pool_obj' = FALSE /\ busy' = IF pool_obj THEN busy - 1 ELSE busy
          /\ sock' = (sock /\ KeepsSocket) /\ ops' = CloseOps
          /\ Answer
          /\ io' = Idle /\ owed' = owed + 1
          /\ UNCHANGED <<m_attempt, m_canceled>>
  /\ UNCHANGED <<setup, m_rerun, m_locker, timer>>

\* The rest of error_handler: close(true), then another attempt or the answer.
Failed ==
  /\ io.pc = "failed"
  /\ LET held == IF pool_obj THEN busy - 1 ELSE busy
     IN  IF m_attempt < AttemptsCount
         THEN /\ Attempt(CloseOps, executes, m_attempt + 1, held, sock /\ KeepsSocket, TRUE)
              /\ UNCHANGED <<stopped, caller>>
         ELSE /\ pool_obj' = FALSE /\ busy' = held /\ sock' = (sock /\ KeepsSocket) /\ ops' = CloseOps
              /\ Answer
              /\ io' = Idle /\ owed' = owed + 1
              /\ UNCHANGED <<m_attempt, m_canceled>>
  /\ UNCHANGED <<setup, m_rerun, m_locker, timer>>

\* The lock_guard of error_handler unlocks a mutex that is unlocked already: one
\* another thread has locked since is taken from it.
UnlockAgain ==
  /\ owed > 0
  /\ owed' = owed - 1
  /\ m_locker' = "free"
  /\ UNCHANGED <<setup, fields, ops, stopped, io, timer, caller>>

\* The next operation; on a socket that a timeout has closed it fails, except
\* async_connect, which closes the old one and opens a new one.
StartOp ==
  /\ io.pc = "start"
  /\ LET res == IF sock \/ io.kind = "connect" THEN "pending" ELSE "error"
         old == IF io.kind = "connect" THEN Aborted(ops) ELSE ops
     IN  ops' = old \cup {NewOp(io.kind, m_attempt, executes, res)}
  /\ sock' = (sock \/ io.kind = "connect")
  /\ owed' = IF io.failing THEN owed + 1 ELSE owed
  /\ io' = Idle
  /\ UNCHANGED <<setup, m_attempt, m_canceled, m_rerun, pool_obj, busy, m_locker, stopped, timer, caller>>

\* The rest of on_read: close(!keep_alive), which gives a live socket back to
\* the pool or closes it, then the answer.
Finish ==
  /\ io.pc = "finish"
  /\ pool_obj' = FALSE /\ busy' = IF pool_obj THEN busy - 1 ELSE busy
  /\ sock' = (sock /\ KeepsSocket) /\ ops' = CloseOps
  /\ Answer
  /\ io' = Idle
  /\ UNCHANGED <<setup, m_attempt, m_canceled, m_rerun, m_locker, owed, timer>>

(***************************************************************************)
(* The specification.                                                      *)
(***************************************************************************)

Next ==
  \/ Execute \/ Return
  \/ \E o \in ops : Complete(o) \/ Handle(o)
  \/ StopTimer \/ ErrorHandler \/ Failed \/ UnlockAgain
  \/ TimerStart \/ StartOp \/ Finish
  \/ TimerFires \/ OnTimeout \/ OnTimeoutEnds

Spec == Init /\ [][Next]_vars

\* Threads keep running and timers go off; resolver and kernel give up on a name
\* and on a connection at some time; a peer need not ever answer.
Io == \/ Return \/ StopTimer \/ ErrorHandler \/ Failed \/ UnlockAgain
      \/ TimerStart \/ StartOp \/ Finish
      \/ \E o \in ops : Handle(o)

GivesUp == \E o \in ops : o.kind \in {"resolve", "connect"} /\ Complete(o)

FairSpec ==
  /\ Spec
  /\ WF_vars(Io) /\ WF_vars(GivesUp)
  /\ WF_vars(TimerFires) /\ WF_vars(OnTimeout) /\ WF_vars(OnTimeoutEnds)

(***************************************************************************)
(* Properties.                                                             *)
(***************************************************************************)

\* However answers, errors and timeouts race, the callback is called, or the
\* result set, at most once for a call of execute.
AnsweredOnce == answers <= 1

\* The object never holds more than one entry of the connection pool, and none
\* once it has answered: timeouts and failed attempts leak no capacity.
PoolEntryReturned == busy <= 1 /\ (answers > 0 => busy = 0)

\* After the answer nothing is started any more: a late completion of an
\* operation cannot bring the request back to life.
AnswerIsFinal ==
  [][answers > 0 /\ answers' > 0 => m_attempt' = m_attempt /\ busy' <= busy]_vars

\* With an io_context of its own, no pool and no TLS, a single call of execute
\* ends with a result although the peer may never answer: the timer aborts the
\* operation, and the handler of the aborted operation finds m_rerun.
Alone == setup.own /\ ~setup.pool /\ ~setup.ssl
ExecuteIsAnswered == (running /\ Alone /\ executes = 1) ~> (answers = 1 /\ ~running)

\* settings.json calls jrpc_timeout the timeout of the execution of a JSON-RPC
\* call: every call of execute comes to its end.
ExecuteEnds == running ~> ~running

=============================================================================
