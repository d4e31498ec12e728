----------------------------- MODULE SocketPool -----------------------------
(***************************************************************************)
(* The pool of keep-alive connections (connection_pool.cpp) and the        *)
(* requests that use it: the parts of execute and close of                 *)
(* http_json_rpc_request.cpp that deal with sockets.                       *)
(*                                                                         *)
(* The pool hands out list nodes ("entries"), not connections: the socket  *)
(* moves from the entry into the request object and back as a bare file    *)
(* descriptor.  checkout, checkin and the sweep of the monitor thread run  *)
(* under m_lock; the hand-over of the descriptor and cleanup do not.       *)
(*                                                                         *)
(* m_ready is searched from its front; here any entry for the host may be  *)
(* taken, and any ready entry may have outlived its ttl.                   *)
(***************************************************************************)
EXTENDS Integers, Sequences, FiniteSets

CONSTANTS
  Requests,    \* request objects
  Hosts,       \* values of m_host
  SslHosts,    \* hosts for which is_ssl() holds
  Nodes,       \* list nodes
  Fds,         \* file descriptors
  Nil,         \* m_busy.end(), socket -1, a free descriptor
  Capacity,    \* m_capacity
  MaxLine      \* bound on requests unanswered on one connection

ASSUME PoolAssumption ==
  /\ Nil \notin Nodes \cup Fds \cup Hosts
  /\ SslHosts \subseteq Hosts
  /\ Capacity \in Nat /\ MaxLine \in Nat
  /\ IsFiniteSet(Nodes) /\ IsFiniteSet(Requests)

VARIABLES
  m_ready, m_busy,   \* the two lists
  entry,             \* ep and socket of a node
  m_enable,
  stopped,           \* stop() has been called; the pool is not started again
  left,              \* the stop signal has ended the monitor, with m_enable still set
  req,               \* the requests
  tls,               \* what the TLS stream of a request object has still open from
                     \* an earlier use or attempt
  lost,              \* descriptors that nobody has any more (a record of the past)
  peer,              \* host a descriptor is connected to, Nil when it is free
  line               \* requests sent on a connection and not yet answered

flags == <<m_enable, stopped, left>>
vars == <<m_ready, m_busy, entry, flags, req, tls, lost, peer, line>>

\* A request is outside execute, about to take over the socket of its entry, to
\* connect, to write, to read, and in close: before the socket is closed or
\* kept, before it is put into the entry, before checkin.
ReqPcs == {"idle", "assign", "connect", "write", "read", "close", "release", "checkin"}

FreeNode == [ep |-> Nil, socket |-> Nil]
IdleReq == [pc |-> "idle", host |-> Nil, obj |-> Nil, sock |-> Nil, force |-> FALSE]

TypeOK ==
  /\ m_ready \subseteq Nodes /\ m_busy \subseteq Nodes /\ m_ready \cap m_busy = {}
  /\ entry \in [Nodes -> [ep: Hosts \cup {Nil}, socket: Fds \cup {Nil}]]
  /\ m_enable \in BOOLEAN /\ stopped \in BOOLEAN /\ left \in BOOLEAN
  /\ req \in [Requests -> [pc: ReqPcs, host: Hosts \cup {Nil}, obj: Nodes \cup {Nil},
                           sock: Fds \cup {Nil}, force: BOOLEAN]]
  /\ tls \in [Requests -> Fds \cup {Nil}] /\ lost \subseteq Fds
  /\ peer \in [Fds -> Hosts \cup {Nil}]
  /\ line \in [Fds -> Seq(Requests)]

Init ==
  /\ m_ready = {} /\ m_busy = {}
  /\ entry = [n \in Nodes |-> FreeNode]
  /\ m_enable = FALSE /\ stopped = FALSE /\ left = FALSE
  /\ req = [r \in Requests |-> IdleReq]
  /\ tls = [r \in Requests |-> Nil] /\ lost = {}
  /\ peer = [f \in Fds |-> Nil]
  /\ line = [f \in Fds |-> <<>>]

(***************************************************************************)
(* Descriptors (external).                                                 *)
(***************************************************************************)

CloseFds(fs) ==
  /\ peer' = [f \in Fds |-> IF f \in fs THEN Nil ELSE peer[f]]
  /\ line' = [f \in Fds |-> IF f \in fs THEN <<>> ELSE line[f]]

\* List nodes that are erased.
Erase(ns) == entry' = [n \in Nodes |-> IF n \in ns THEN FreeNode ELSE entry[n]]

FreeFds == {f \in Fds : peer[f] = Nil}

(***************************************************************************)
(* The pool.                                                               *)
(***************************************************************************)

\* start(); the threads of the server are running already.
Start ==
  /\ ~m_enable /\ ~stopped
  /\ m_enable' = TRUE
  /\ UNCHANGED <<m_ready, m_busy, entry, stopped, left, req, tls, lost, peer, line>>

\* The state of a request whose execute got node n.
CheckedOut(r, h, n, socket) ==
  req' = [req EXCEPT ![r] = [pc |-> IF socket = Nil THEN "connect" ELSE "assign",
                             host |-> h, obj |-> n, sock |-> Nil, force |-> FALSE]]

\* checkout(h): a ready entry of that host, a new one while there is room, or
\* none.  Requests begun after the signal has ended the monitor are left out.
Checkout(r, h) ==
  /\ req[r].pc = "idle" /\ m_enable /\ ~left
  /\ \/ \E n \in m_ready :
          /\ entry[n].ep = h
          /\ m_ready' = m_ready \ {n} /\ m_busy' = m_busy \cup {n}
          /\ CheckedOut(r, h, n, entry[n].socket)
          /\ UNCHANGED entry
     \/ /\ \A n \in m_ready : entry[n].ep # h
        /\ Cardinality(m_busy) + Cardinality(m_ready) < Capacity
        /\ \E n \in Nodes \ (m_busy \cup m_ready) :
             /\ m_busy' = m_busy \cup {n}
             /\ entry' = [entry EXCEPT ![n] = [ep |-> h, socket |-> Nil]]
             /\ CheckedOut(r, h, n, Nil)
        /\ UNCHANGED m_ready
     \/ /\ \A n \in m_ready : entry[n].ep # h
        /\ Cardinality(m_busy) + Cardinality(m_ready) >= Capacity
        /\ CheckedOut(r, h, Nil, Nil)
        /\ UNCHANGED <<m_ready, m_busy, entry>>
  /\ UNCHANGED <<flags, tls, lost, peer, line>>

\* execute before the pool is started
NoPool(r, h) ==
  /\ req[r].pc = "idle" /\ ~m_enable /\ ~stopped
  /\ CheckedOut(r, h, Nil, Nil)
  /\ UNCHANGED <<m_ready, m_busy, entry, flags, tls, lost, peer, line>>

\* Mutant: an entry without a socket is left where it is.
CheckinLeaks(r) ==
  /\ req[r].pc = "checkin"
  /\ LET n == req[r].obj
     IN  IF entry[n].socket = Nil THEN UNCHANGED <<m_ready, m_busy>>
         ELSE m_busy' = m_busy \ {n} /\ m_ready' = m_ready \cup {n}
  /\ req' = [req EXCEPT ![r] = IdleReq]
  /\ UNCHANGED <<entry, flags, tls, lost, peer, line>>

\* checkin: an entry with a socket becomes ready again, another one is removed.
Checkin(r) ==
  /\ req[r].pc = "checkin"
  /\ LET n == req[r].obj
     IN  \/ /\ n \notin m_busy /\ Erase({n} \ m_ready)
            /\ UNCHANGED <<m_ready, m_busy>>
         \/ /\ n \in m_busy /\ entry[n].socket = Nil
            /\ m_busy' = m_busy \ {n} /\ Erase({n})
            /\ UNCHANGED m_ready
         \/ /\ n \in m_busy /\ entry[n].socket # Nil
            /\ m_busy' = m_busy \ {n} /\ m_ready' = m_ready \cup {n}
            /\ UNCHANGED entry
  /\ req' = [req EXCEPT ![r] = IdleReq]
  /\ UNCHANGED <<flags, tls, lost, peer, line>>

\* One sweep of the monitor: the entries that have outlived their ttl.
Expire ==
  /\ m_enable /\ ~left
  /\ \E old \in (SUBSET m_ready) \ {{}} :
       /\ m_ready' = m_ready \ old
       /\ CloseFds({entry[n].socket : n \in old})
       /\ Erase(old)
  /\ UNCHANGED <<m_busy, flags, req, tls, lost>>

\* The stop signal: checkStopSignal throws in the monitor, which cleans up
\* without the lock while requests go on and the pool stays enabled.  Requests
\* keep pointers to nodes that are no longer there: what these hold stays until
\* a new node takes their place.
SignalCleanup ==
  /\ m_enable /\ ~left
  /\ left' = TRUE
  /\ CloseFds({entry[n].socket : n \in m_busy \cup m_ready})
  /\ m_busy' = {} /\ m_ready' = {}
  /\ Erase({n \in Nodes : \A r \in Requests : req[r].obj # n})
  /\ UNCHANGED <<m_enable, stopped, req, tls, lost>>

\* Mutant: cleanup forgets the connections nobody uses.
StopBusyOnly ==
  /\ m_enable
  /\ \A r \in Requests : req[r].pc \in {"idle", "connect", "write", "read"}
  /\ m_enable' = FALSE /\ stopped' = TRUE
  /\ CloseFds({entry[n].socket : n \in m_busy})
  /\ m_busy' = {} /\ m_ready' = {} /\ Erase(Nodes)
  /\ UNCHANGED <<left, req, tls, lost>>

\* stop(), when the threads of the server have been joined and only the timers
\* of requests under way are left: the monitor leaves its loop and cleans up, or
\* the destructor does when the monitor has gone.  The socket of such a request
\* is closed with its entry when that names it.
Stop ==
  /\ m_enable
  /\ \A r \in Requests : req[r].pc \in {"idle", "connect", "write", "read"}
  /\ m_enable' = FALSE /\ stopped' = TRUE
  /\ CloseFds({entry[n].socket : n \in m_busy \cup m_ready})
  /\ m_busy' = {} /\ m_ready' = {} /\ Erase(Nodes)
  /\ UNCHANGED <<left, req, tls, lost>>

(***************************************************************************)
(* A request.                                                              *)
(***************************************************************************)

IsSsl(r) == req[r].host \in SslHosts

\* execute takes over the socket of the entry.  One that the peer has given up
\* is closed and a new connection made.  A TLS stream that is still open refuses
\* it: the stream is closed, and the socket of the entry is left to itself, for
\* close overwrites it.
Assign(r) ==
  /\ req[r].pc = "assign"
  /\ LET f == entry[req[r].obj].socket
     IN  /\ f # Nil
         /\ \/ /\ IsSsl(r) => tls[r] = Nil
               /\ req' = [req EXCEPT ![r].sock = f, ![r].pc = "write"]
               /\ UNCHANGED <<tls, lost, peer, line>>
            \/ /\ IsSsl(r) => tls[r] = Nil
               /\ req' = [req EXCEPT ![r].pc = "connect"]
               /\ tls' = [tls EXCEPT ![r] = Nil]
               /\ CloseFds({f, tls[r]})
               /\ UNCHANGED lost
            \/ /\ IsSsl(r) /\ tls[r] # Nil
               /\ req' = [req EXCEPT ![r].pc = "connect"]
               /\ tls' = [tls EXCEPT ![r] = Nil]
               /\ CloseFds({tls[r]})
               /\ lost' = lost \cup {f}
  /\ UNCHANGED <<m_ready, m_busy, entry, flags>>

\* async_connect closes the socket it is given before it opens it.
Connect(r) ==
  /\ req[r].pc = "connect" /\ ~stopped
  /\ LET old == IF IsSsl(r) THEN {tls[r]} \ {Nil} ELSE {}
     IN  \E f \in FreeFds \cup old :
           /\ peer' = [g \in Fds |-> IF g = f THEN req[r].host
                                    ELSE IF g \in old THEN Nil ELSE peer[g]]
           /\ line' = [g \in Fds |-> IF g \in old THEN <<>> ELSE line[g]]
           /\ req' = [req EXCEPT ![r].sock = f, ![r].pc = "write"]
  /\ tls' = [tls EXCEPT ![r] = IF IsSsl(r) THEN Nil ELSE @]
  /\ UNCHANGED <<m_ready, m_busy, entry, flags, lost>>

Write(r) ==
  /\ req[r].pc = "write" /\ ~stopped /\ Len(line[req[r].sock]) < MaxLine
  /\ line' = [line EXCEPT ![req[r].sock] = Append(@, r)]
  /\ req' = [req EXCEPT ![r].pc = "read"]
  /\ UNCHANGED <<m_ready, m_busy, entry, flags, tls, lost, peer>>

\* on_read: the connection is kept unless the peer asks to close it.
Read(r) ==
  /\ req[r].pc = "read" /\ ~stopped /\ line[req[r].sock] # <<>>
  /\ line' = [line EXCEPT ![req[r].sock] = Tail(@)]
  /\ \E keep_alive \in BOOLEAN :
       req' = [req EXCEPT ![r].force = ~keep_alive, ![r].pc = "close"]
  /\ UNCHANGED <<m_ready, m_busy, entry, flags, tls, lost, peer>>

\* An error or a timeout: close(true).
Abort(r) ==
  /\ req[r].pc \in {"connect", "write", "read"}
  /\ req' = [req EXCEPT ![r].force = TRUE, ![r].pc = "close"]
  /\ UNCHANGED <<m_ready, m_busy, entry, flags, tls, lost, peer, line>>

\* Mutant: the socket is kept whatever happened on it.
CloseSocketKept(r) ==
  /\ req[r].pc = "close"
  /\ req' = [req EXCEPT ![r] = IF m_enable /\ req[r].obj # Nil
                               THEN [@ EXCEPT !.pc = "release"] ELSE IdleReq]
  /\ IF m_enable /\ req[r].obj # Nil THEN UNCHANGED <<peer, line>> ELSE CloseFds({req[r].sock})
  /\ UNCHANGED <<m_ready, m_busy, entry, flags, tls, lost>>

\* Mutant: the number of the closed descriptor is kept.
CloseSocketStale(r) ==
  /\ req[r].pc = "close"
  /\ IF req[r].force \/ ~m_enable \/ req[r].obj = Nil THEN CloseFds({req[r].sock}) ELSE UNCHANGED <<peer, line>>
  /\ req' = [req EXCEPT ![r] = IF m_enable /\ req[r].obj # Nil THEN [@ EXCEPT !.pc = "release"] ELSE IdleReq]
  /\ UNCHANGED <<m_ready, m_busy, entry, flags, tls, lost>>

\* The descriptor of the TLS stream at hand: of this attempt, or of an earlier
\* one when this one has come to no connection.
Stream(r) == IF req[r].sock = Nil THEN tls[r] ELSE req[r].sock

\* close(force).  With an entry of the pool at hand, the plain socket is closed
\* when force is set; of a TLS stream only the session is shut down.  Without
\* an entry the plain socket is closed, and of a TLS stream again only the
\* session: its descriptor stays open in the request object.
CloseSocket(r) ==
  /\ req[r].pc = "close"
  /\ \/ /\ m_enable /\ req[r].obj # Nil /\ ~IsSsl(r)
        /\ CloseFds(IF req[r].force THEN {req[r].sock} ELSE {})
        /\ req' = [req EXCEPT ![r].sock = IF req[r].force THEN Nil ELSE @, ![r].pc = "release"]
        /\ UNCHANGED tls
     \/ /\ m_enable /\ req[r].obj # Nil /\ IsSsl(r)
        /\ req' = [req EXCEPT ![r].sock = Stream(r), ![r].pc = "release"]
        /\ tls' = [tls EXCEPT ![r] = Nil]
        /\ UNCHANGED <<peer, line>>
     \/ /\ ~(m_enable /\ req[r].obj # Nil) /\ ~IsSsl(r)
        /\ CloseFds({req[r].sock})
        /\ req' = [req EXCEPT ![r] = IdleReq]
        /\ UNCHANGED tls
     \/ /\ ~(m_enable /\ req[r].obj # Nil) /\ IsSsl(r)
        /\ req' = [req EXCEPT ![r] = IdleReq]
        /\ tls' = [tls EXCEPT ![r] = Stream(r)]
        /\ UNCHANGED <<peer, line>>
  /\ UNCHANGED <<m_ready, m_busy, entry, flags, lost>>

\* The descriptor, or -1, goes into the entry.
Release(r) ==
  /\ req[r].pc = "release"
  /\ entry' = [entry EXCEPT ![req[r].obj].socket = req[r].sock]
  /\ req' = [req EXCEPT ![r].sock = Nil, ![r].pc = "checkin"]
  /\ UNCHANGED <<m_ready, m_busy, flags, tls, lost, peer, line>>

\* ~http_json_rpc_request, with the sockets it is made of; a new object takes
\* its place.
Destroy(r) ==
  /\ req[r].pc = "idle" /\ tls[r] # Nil
  /\ CloseFds({tls[r]})
  /\ tls' = [tls EXCEPT ![r] = Nil]
  /\ UNCHANGED <<m_ready, m_busy, entry, flags, req, lost>>

(***************************************************************************)
(* The specification.                                                      *)
(***************************************************************************)

Request(r) ==
  \/ \E h \in Hosts : Checkout(r, h) \/ NoPool(r, h)
  \/ Assign(r) \/ Connect(r) \/ Write(r) \/ Read(r) \/ Abort(r)
  \/ CloseSocket(r) \/ Release(r) \/ Checkin(r) \/ Destroy(r)

Next == Start \/ Expire \/ SignalCleanup \/ Stop \/ \E r \in Requests : Request(r)

Spec == Init /\ [][Next]_vars

(***************************************************************************)
(* Properties.                                                             *)
(***************************************************************************)

\* Under concurrent requests, timeouts and sweeps the pool keeps no more
\* connections than its capacity, ready and busy ones together.  Until the stop
\* signal every busy entry is in the hands of one request: an entry is never
\* handed out twice, and none is lost, whichever way a request ends, so the
\* capacity does not leak away.
CapacityIsKept ==
  /\ Cardinality(m_ready) + Cardinality(m_busy) <= Capacity
  /\ m_enable /\ ~left => \A n \in m_busy : \E r \in Requests :
       /\ req[r].obj = n
       /\ \A q \in Requests : req[q].obj = n => q = r

\* The descriptors in a request object.
Own(r) == {req[r].sock, tls[r]} \ {Nil}

\* A connection to host p serves requests to host h.  A TLS stream may lead to
\* another TLS host: an attempt that came to no connection releases what the
\* object had open from an earlier use, which may have been for another host.
Fits(p, h) == p = h \/ {p, h} \subseteq SslHosts

\* While the pool runs, no descriptor belongs to two: neither two requests, nor
\* two ready entries, nor a request and a ready entry, and a ready entry holds an
\* open connection, to its own host when that is a plain one.  The bare
\* descriptors that travel between them are never used after they were closed and
\* given to someone else by the kernel.  After the stop signal this does not
\* hold: cleanup closes descriptors that requests are using.
NoSharedSocket ==
  m_enable /\ ~left =>
    /\ \A r, q \in Requests : r # q => Own(r) \cap Own(q) = {}
    /\ \A n, k \in m_ready : entry[n].socket = entry[k].socket => n = k
    /\ \A n \in m_ready, r \in Requests : entry[n].socket \notin Own(r)
    /\ \A n \in m_ready : entry[n].socket # Nil /\ Fits(peer[entry[n].socket], entry[n].ep)

\* While the pool runs, a request to a plain host waits for an answer only on a
\* connection to that host, and the next answer there is its own: a connection
\* that was given up in the middle of a request is not used again.  A request to
\* a TLS host waits on a connection to a TLS host.
AnswersMatchRequests ==
  m_enable /\ ~left => \A r \in Requests :
    req[r].pc = "read" =>
      /\ Fits(peer[req[r].sock], req[r].host)
      /\ req[r].host \notin SslHosts => line[req[r].sock] = <<r>>

\* When the pool has been stopped and the requests that were under way have come
\* to their end, no plain connection is left open, and of the TLS ones only those
\* that a request object still has, and those that execute lost when a stream it
\* had left open refused the descriptor of the entry.  The exception is a stop
\* signal that the monitor has seen before: a request that ends then puts its
\* connection into an entry that nobody has any more.
StopLeavesNothingOpen ==
  stopped /\ ~left /\ (\A r \in Requests : req[r].pc = "idle") =>
    \A f \in Fds \ FreeFds :
      peer[f] \in SslHosts /\ (f \in lost \/ \E r \in Requests : tls[r] = f)

=============================================================================
