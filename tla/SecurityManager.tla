--------------------------- MODULE SecurityManager ---------------------------
(***************************************************************************)
(* Failed authentications per address (security_manager/), as the threads  *)
(* of the server use it: check_access when a connection is accepted        *)
(* (http_server.cpp), mark_failed and try_reset when a request of a        *)
(* session has been read (http_session.cpp).  auth_enable is on.           *)
(*                                                                         *)
(* mark_failed works under m_lock.  check and try_reset look the address   *)
(* up without it and again with it.  A lookup that meets an insertion or   *)
(* a removal under way on another thread is a data race: here it finds the *)
(* address or does not.  (It may also kill the process; nothing is claimed *)
(* of what comes after.)                                                   *)
(***************************************************************************)
EXTENDS Integers, FiniteSets

CONSTANTS
  Threads,       \* threads that run the io_context
  Addresses,     \* addresses of clients
  Access,        \* those that are loopback, in settings::service::access, or all with any_conns
  Nobody,        \* m_lock is free; no address
  MaxAttempts,   \* max_attempts
  Penalty,       \* seconds per attempt beyond them
  MaxFailures,   \* bound on attempt
  MaxOpen        \* bound on connections of an address

ASSUME SecurityAssumption ==
  /\ Nobody \notin Threads \cup Addresses
  /\ Access \subseteq Addresses
  /\ MaxAttempts \in Nat /\ Penalty \in Nat /\ MaxFailures \in Nat /\ MaxOpen \in Nat

VARIABLES
  m_info,      \* attempt, 0 when the map has no entry, and time since last
  m_lock,      \* the thread that is changing the map, or Nobody
  thr,         \* what a thread is in, and for which address
  open,        \* sessions of an address that may send a request
  (* observation only *)
  failed,      \* failures of an address since its last success
  missed,      \* a success was due to reset it and did not find it
  quiet,       \* time since its last probe: the failure that made the entry or an admission
               \* beyond the limit
  turned       \* its last connection was refused by check

secVars == <<m_info, m_lock, thr, open, failed, missed, quiet, turned>>

\* Times above this are all alike.
MaxAge == (MaxFailures - MaxAttempts) * Penalty + 1
Older(t) == IF t < MaxAge THEN t + 1 ELSE t

NoInfo == [attempt |-> 0, age |-> 0]
IdleThread == [pc |-> "idle", addr |-> Nobody]

SecTypeOK ==
  /\ m_info \in [Addresses -> [attempt: 0..MaxFailures, age: 0..MaxAge]]
  /\ m_lock \in Threads \cup {Nobody}
  /\ thr \in [Threads -> [pc: {"idle", "check", "insert", "reset", "erase", "other"},
                          addr: Addresses \cup {Nobody}]]
  /\ open \in [Addresses -> 0..MaxOpen]
  /\ failed \in [Addresses -> 0..MaxFailures] /\ quiet \in [Addresses -> 0..MaxAge]
  /\ missed \in [Addresses -> BOOLEAN] /\ turned \in [Addresses -> BOOLEAN]

SecInit ==
  /\ m_info = [a \in Addresses |-> NoInfo] /\ m_lock = Nobody
  /\ thr = [t \in Threads |-> IdleThread]
  /\ open = [a \in Addresses |-> 0]
  /\ failed = [a \in Addresses |-> 0] /\ quiet = [a \in Addresses |-> 0]
  /\ missed = [a \in Addresses |-> FALSE] /\ turned = [a \in Addresses |-> FALSE]

Idle(t) == thr[t].pc = "idle"
Enter(t, where, a) == thr' = [thr EXCEPT ![t] = [pc |-> where, addr |-> a]]
Leave(t) == thr' = [thr EXCEPT ![t] = IdleThread]

\* find without the lock
Lookup(a) == IF m_lock = Nobody THEN {m_info[a].attempt > 0} ELSE BOOLEAN

Window(attempt) == (attempt - MaxAttempts) * Penalty

expired(info) == info.age > Window(info.attempt)

\* check returns true: a session, unless the address may not connect at all.
Admit(a) ==
  /\ open' = IF a \in Access THEN [open EXCEPT ![a] = @ + 1] ELSE open
  /\ turned' = [turned EXCEPT ![a] = FALSE]

Connections(a) == open[a] + Cardinality({t \in Threads : thr[t] = [pc |-> "check", addr |-> a]})

\* A connection is accepted: check up to its lock.
Accept(t, a) ==
  /\ Idle(t) /\ Connections(a) < MaxOpen
  /\ \E found \in Lookup(a) :
       IF found THEN Enter(t, "check", a) /\ UNCHANGED <<open, turned>>
       ELSE Admit(a) /\ UNCHANGED thr
  /\ UNCHANGED <<m_info, m_lock, failed, missed, quiet>>

\* Mutant: the time of the probe is not recorded.
CheckForgets(t) ==
  /\ thr[t].pc = "check" /\ m_lock = Nobody
  /\ LET a == thr[t].addr IN
       \/ /\ m_info[a].attempt <= MaxAttempts
          /\ Admit(a) /\ UNCHANGED quiet
       \/ /\ m_info[a].attempt > MaxAttempts /\ expired(m_info[a])
          /\ quiet' = [quiet EXCEPT ![a] = 0]
          /\ Admit(a)
       \/ /\ m_info[a].attempt > MaxAttempts /\ ~expired(m_info[a])
          /\ turned' = [turned EXCEPT ![a] = TRUE]
          /\ UNCHANGED <<open, quiet>>
  /\ Leave(t)
  /\ UNCHANGED <<m_info, m_lock, failed, missed>>

\* Mutant: a refused connection counts as a probe.
CheckRenews(t) ==
  /\ thr[t].pc = "check" /\ m_lock = Nobody
  /\ LET a == thr[t].addr IN
       \/ /\ m_info[a].attempt <= MaxAttempts
          /\ Admit(a) /\ UNCHANGED <<m_info, quiet>>
       \/ /\ m_info[a].attempt > MaxAttempts
          /\ m_info' = [m_info EXCEPT ![a].age = 0]
          /\ IF expired(m_info[a])
             THEN quiet' = [quiet EXCEPT ![a] = 0] /\ Admit(a)
             ELSE turned' = [turned EXCEPT ![a] = TRUE] /\ UNCHANGED <<open, quiet>>
  /\ Leave(t)
  /\ UNCHANGED <<m_lock, failed, missed>>

\* The rest of check, under the lock.  (That std::time fails is left out.)
Check(t) ==
  /\ thr[t].pc = "check" /\ m_lock = Nobody
  /\ LET a == thr[t].addr IN
       \/ /\ m_info[a].attempt <= MaxAttempts
          /\ Admit(a) /\ UNCHANGED <<m_info, quiet>>
       \/ /\ m_info[a].attempt > MaxAttempts /\ expired(m_info[a])
          /\ m_info' = [m_info EXCEPT ![a].age = 0]
          /\ quiet' = [quiet EXCEPT ![a] = 0]
          /\ Admit(a)
       \/ /\ m_info[a].attempt > MaxAttempts /\ ~expired(m_info[a])
          /\ turned' = [turned EXCEPT ![a] = TRUE]
          /\ UNCHANGED <<m_info, open, quiet>>
  /\ Leave(t)
  /\ UNCHANGED <<m_lock, failed, missed>>

\* Mutant: mark_failed, too, looks the address up before it takes the lock.
MarkFailedUnlocked(t, a) ==
  /\ Idle(t) /\ open[a] > 0 /\ m_info[a].attempt < MaxFailures
  /\ open' = [open EXCEPT ![a] = @ - 1]
  /\ failed' = [failed EXCEPT ![a] = @ + 1]
  /\ IF m_info[a].attempt > 0
     THEN m_info' = [m_info EXCEPT ![a].attempt = @ + 1] /\ UNCHANGED <<m_lock, thr>>
     ELSE m_lock' = t /\ Enter(t, "insert", a) /\ UNCHANGED m_info
  /\ UNCHANGED <<missed, quiet, turned>>

\* A request without the right key: mark_failed, and the connection is closed.
MarkFailed(t, a) ==
  /\ Idle(t) /\ m_lock = Nobody /\ open[a] > 0 /\ m_info[a].attempt < MaxFailures
  /\ open' = [open EXCEPT ![a] = @ - 1]
  /\ failed' = [failed EXCEPT ![a] = @ + 1]
  /\ IF m_info[a].attempt > 0
     THEN m_info' = [m_info EXCEPT ![a].attempt = @ + 1] /\ UNCHANGED <<m_lock, thr>>
     ELSE m_lock' = t /\ Enter(t, "insert", a) /\ UNCHANGED m_info
  /\ UNCHANGED <<missed, quiet, turned>>

\* try_emplace, which leaves an entry that is there alone.
Insert(t) ==
  /\ thr[t].pc = "insert"
  /\ LET a == thr[t].addr IN
       /\ m_info' = IF m_info[a].attempt > 0 THEN m_info
                    ELSE [m_info EXCEPT ![a] = [attempt |-> 1, age |-> 0]]
       /\ quiet' = [quiet EXCEPT ![a] = 0]
  /\ m_lock' = Nobody /\ Leave(t)
  /\ UNCHANGED <<open, failed, missed, turned>>

\* A request with the right key: try_reset up to its lock.  When nothing is found
\* that is all: failures there are stay counted.  The connection may be kept for
\* the next request.
TryReset(t, a) ==
  /\ Idle(t) /\ open[a] > 0
  /\ open' \in {open, [open EXCEPT ![a] = @ - 1]}
  /\ \E found \in Lookup(a) :
       IF found THEN Enter(t, "reset", a) /\ UNCHANGED <<failed, missed>>
       ELSE /\ failed' = [failed EXCEPT ![a] = 0]
            /\ missed' = [missed EXCEPT ![a] = @ \/ (failed[a] > 0 /\ m_lock # Nobody)]
            /\ UNCHANGED thr
  /\ UNCHANGED <<m_info, m_lock, quiet, turned>>

\* ... the second lookup, under the lock
Reset(t) ==
  /\ thr[t].pc = "reset" /\ m_lock = Nobody
  /\ IF m_info[thr[t].addr].attempt > 0
     THEN m_lock' = t /\ Enter(t, "erase", thr[t].addr)
     ELSE Leave(t) /\ UNCHANGED m_lock
  /\ UNCHANGED <<m_info, open, failed, missed, quiet, turned>>

\* ... and the removal
Erase(t) ==
  /\ thr[t].pc = "erase"
  /\ m_info' = [m_info EXCEPT ![thr[t].addr] = NoInfo]
  /\ failed' = [failed EXCEPT ![thr[t].addr] = 0]
  /\ missed' = [missed EXCEPT ![thr[t].addr] = FALSE]
  /\ quiet' = [quiet EXCEPT ![thr[t].addr] = 0]
  /\ m_lock' = Nobody /\ Leave(t)
  /\ UNCHANGED <<open, turned>>

\* mark_failed or try_reset for some address that is not looked at further:
\* it matters for the threads that search the map meanwhile.
OtherBegins(t) ==
  /\ Idle(t) /\ m_lock = Nobody
  /\ m_lock' = t /\ Enter(t, "other", Nobody)
  /\ UNCHANGED <<m_info, open, failed, missed, quiet, turned>>

OtherEnds(t) ==
  /\ thr[t].pc = "other"
  /\ m_lock' = Nobody /\ Leave(t)
  /\ UNCHANGED <<m_info, open, failed, missed, quiet, turned>>

\* A client leaves without another request.
Leaves(a) ==
  /\ open[a] > 0
  /\ open' = [open EXCEPT ![a] = @ - 1]
  /\ UNCHANGED <<m_info, m_lock, thr, failed, missed, quiet, turned>>

\* A second passes.
Tick ==
  /\ m_info' = [a \in Addresses |-> IF m_info[a].attempt > 0
                                    THEN [m_info[a] EXCEPT !.age = Older(@)] ELSE m_info[a]]
  /\ quiet' = [a \in Addresses |-> IF failed[a] > 0 \/ missed[a] THEN Older(quiet[a]) ELSE quiet[a]]
  /\ UNCHANGED <<m_lock, thr, open, failed, missed, turned>>

\* A thread takes up something new, and ends what it is in.
Begins(t) ==
  OtherBegins(t) \/ \E a \in Addresses : Accept(t, a) \/ MarkFailed(t, a) \/ TryReset(t, a)

Ends(t) == Check(t) \/ Insert(t) \/ Reset(t) \/ Erase(t) \/ OtherEnds(t)

(***************************************************************************)
(* Properties.                                                             *)
(***************************************************************************)

\* The count that decides about an address misses none of its failures, on
\* however many threads they come in (mark_failed), and forgets those before its
\* last success (try_reset).  The exception is a success whose lookup, which is
\* not locked, came while another thread was changing the map: it may leave the
\* failures counted, until a later success removes them.
NoFailureLost ==
  \A a \in Addresses : (\A t \in Threads : thr[t] # [pc |-> "insert", addr |-> a]) =>
    /\ m_info[a].attempt >= failed[a]
    /\ ~missed[a] => m_info[a].attempt = failed[a]

\* An address with more than max_attempts failures gets one connection per
\* window, and the window grows with every failure: threads that check the
\* address at the same moment do not all let it in.  The exception is a lookup
\* that misses the entry because another thread is changing the map.
LockedOutWaits ==
  [][\A a \in Addresses :
       open'[a] > open[a] /\ failed[a] > MaxAttempts =>
         quiet[a] > Window(failed[a]) \/ m_lock # Nobody]_secVars

=============================================================================
