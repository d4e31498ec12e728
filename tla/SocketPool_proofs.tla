-------------------------- MODULE SocketPool_proofs --------------------------
(***************************************************************************)
(* Proofs about SocketPool, for any number of requests, hosts, list nodes  *)
(* and descriptors, and any capacity.                                      *)
(***************************************************************************)
EXTENDS SocketPool, FiniteSetTheorems, TLAPS

(***************************************************************************)
(* The inductive invariant.                                                *)
(***************************************************************************)

\* What the place of a request says about its fields.
PcInv ==
  \A r \in Requests :
    /\ req[r].pc = "idle" => req[r] = IdleReq
    /\ req[r].pc # "idle" => req[r].host \in Hosts
    /\ req[r].pc \in {"assign", "release", "checkin"} => req[r].obj \in Nodes
    /\ req[r].pc \in {"assign", "connect", "checkin"} => req[r].sock = Nil
    /\ req[r].pc \in {"write", "read"} => req[r].sock \in Fds

\* One TLS stream has one descriptor.
StreamInv == \A r \in Requests : IsSsl(r) /\ req[r].sock # Nil => tls[r] = Nil

\* The lists are empty before the start, after the stop signal and after stop().
FlagInv ==
  /\ ~m_enable \/ left => m_ready = {} /\ m_busy = {}
  /\ stopped => ~m_enable
  /\ left => m_enable \/ stopped

CapacityInv == Cardinality(m_ready) + Cardinality(m_busy) <= Capacity

\* Busy entries and requests that hold one.
OwnInv ==
  /\ \A r \in Requests : req[r].obj # Nil => /\ req[r].obj \in m_busy
                                             /\ entry[req[r].obj].ep = req[r].host
  /\ \A r, q \in Requests : req[r].obj = req[q].obj /\ r # q => req[r].obj = Nil
  /\ \A n \in m_busy : \E r \in Requests : req[r].obj = n

\* The descriptor a request answers for, which travels between its entry and
\* itself.  At other times what the entry says is out of date.
Held(r) == IF req[r].pc \in {"assign", "checkin"} THEN entry[req[r].obj].socket ELSE req[r].sock

\* Descriptors besides these: in a TLS stream that is not used, and lost ones.
Spare == {f \in Fds : f \in lost \/ \E r \in Requests : tls[r] = f}

\* Every open descriptor has one owner, a request or a ready entry, or is spare,
\* and it serves the host of its owner.
SockInv ==
  /\ \A r \in Requests : Held(r) # Nil => Fits(peer[Held(r)], req[r].host)
  /\ \A r, q \in Requests : Held(r) = Held(q) /\ r # q => Held(r) = Nil
  /\ \A n \in m_ready : /\ entry[n].socket # Nil /\ entry[n].ep # Nil
                        /\ Fits(peer[entry[n].socket], entry[n].ep)
  /\ \A n, k \in m_ready : entry[n].socket = entry[k].socket => n = k
  /\ \A n \in m_ready, r \in Requests : entry[n].socket # Held(r)
  /\ \A f \in Fds : peer[f] # Nil => \/ \E r \in Requests : Held(r) = f
                                     \/ \E n \in m_ready : entry[n].socket = f
                                     \/ f \in Spare

\* Spare descriptors are connected to TLS hosts, and nobody else has them.
SpareInv ==
  /\ \A f \in Spare : peer[f] \in SslHosts
  /\ \A r \in Requests : Held(r) \notin Spare
  /\ \A n \in m_ready : entry[n].socket \notin Spare
  /\ \A r, q \in Requests : tls[r] = tls[q] /\ r # q => tls[r] = Nil
  /\ \A r \in Requests : tls[r] \notin lost

\* Nothing is under way on a connection to a plain host, except the request
\* that reads from it and what was given up and will be closed.
Clean(r) == req[r].pc # "read" /\ ~(req[r].pc = "close" /\ req[r].force)

LineInv ==
  /\ \A f \in Fds : peer[f] = Nil => line[f] = <<>>
  /\ \A n \in m_ready : entry[n].ep \notin SslHosts => line[entry[n].socket] = <<>>
  /\ \A r \in Requests : Held(r) # Nil /\ req[r].host \notin SslHosts =>
       /\ req[r].pc = "read" => line[Held(r)] = <<r>>
       /\ Clean(r) => line[Held(r)] = <<>>

\* After stop() what is still open is in the hands of a request, which closes it
\* or keeps it in its TLS stream, or is spare.
StoppedInv ==
  /\ \A r \in Requests : req[r].pc \in {"idle", "connect", "write", "read", "close"}
  /\ \A f \in Fds : peer[f] # Nil =>
       \/ \E r \in Requests : req[r].sock = f /\ (IsSsl(r) => peer[f] \in SslHosts)
       \/ f \in Spare /\ peer[f] \in SslHosts

RunInv == OwnInv /\ SockInv /\ SpareInv /\ LineInv

IInv ==
  /\ TypeOK /\ PcInv /\ StreamInv /\ FlagInv /\ CapacityInv
  /\ ~left /\ ~stopped => RunInv
  /\ ~left /\ stopped => StoppedInv

(***************************************************************************)
(* Types and fields.                                                       *)
(***************************************************************************)

ReqRec == [pc: ReqPcs, host: Hosts \cup {Nil}, obj: Nodes \cup {Nil},
           sock: Fds \cup {Nil}, force: BOOLEAN]

\* What a request may become keeps the type and the field invariant.
PcOf(s) ==
  /\ s.pc = "idle" => s = IdleReq
  /\ s.pc # "idle" => s.host \in Hosts
  /\ s.pc \in {"assign", "release", "checkin"} => s.obj \in Nodes
  /\ s.pc \in {"assign", "connect", "checkin"} => s.sock = Nil
  /\ s.pc \in {"write", "read"} => s.sock \in Fds

LEMMA ReqChange ==
  ASSUME TypeOK, PcInv, NEW r \in Requests, NEW s \in ReqRec, PcOf(s),
         req' = [req EXCEPT ![r] = s]
  PROVE  req' \in [Requests -> ReqRec] /\ PcInv' /\ req'[r] = s
         /\ \A q \in Requests : q # r => req'[q] = req[q]
<1>1. req' \in [Requests -> ReqRec] BY DEF TypeOK, ReqRec
<1>2. \A q \in Requests : q # r => req'[q] = req[q] BY DEF TypeOK, ReqRec
<1>3. req'[r] = s BY DEF TypeOK, ReqRec
<1>4. \A q \in Requests : PcOf(req'[q])
  <2>1. SUFFICES ASSUME NEW q \in Requests PROVE PcOf(req'[q]) OBVIOUS
  <2>2. CASE q = r BY <2>2, <1>3
  <2>3. CASE q # r
    <3>1. PcOf(req[q]) BY DEF PcInv, PcOf
    <3>2. QED BY <2>3, <1>2, <3>1
  <2>4. QED BY <2>2, <2>3
<1>5. PcInv' BY <1>4 DEF PcInv, PcOf
<1>6. QED BY <1>1, <1>2, <1>3, <1>5

LEMMA IdleReqType == IdleReq \in ReqRec /\ PcOf(IdleReq)
BY DEF IdleReq, ReqRec, ReqPcs, PcOf

LEMMA CloseFdsType ==
  ASSUME TypeOK, NEW fs, CloseFds(fs)
  PROVE  peer' \in [Fds -> Hosts \cup {Nil}] /\ line' \in [Fds -> Seq(Requests)]
BY DEF CloseFds, TypeOK

LEMMA EraseType ==
  ASSUME TypeOK, NEW ns, Erase(ns)
  PROVE  entry' \in [Nodes -> [ep: Hosts \cup {Nil}, socket: Fds \cup {Nil}]]
<1>1. FreeNode \in [ep: Hosts \cup {Nil}, socket: Fds \cup {Nil}] BY DEF FreeNode
<1>2. QED BY <1>1 DEF Erase, TypeOK

\* The steps of a request, as the new record of the request.
LEMMA CheckedOutReq ==
  ASSUME TypeOK, PcInv, NEW r \in Requests, NEW h \in Hosts, NEW n \in Nodes \cup {Nil},
         NEW socket, n = Nil => socket = Nil, CheckedOut(r, h, n, socket)
  PROVE  /\ req' \in [Requests -> ReqRec] /\ PcInv'
         /\ req'[r] = [pc |-> IF socket = Nil THEN "connect" ELSE "assign",
                       host |-> h, obj |-> n, sock |-> Nil, force |-> FALSE]
         /\ \A q \in Requests : q # r => req'[q] = req[q]
<1> DEFINE s == [pc |-> IF socket = Nil THEN "connect" ELSE "assign",
                 host |-> h, obj |-> n, sock |-> Nil, force |-> FALSE]
<1>1. s \in ReqRec BY DEF ReqRec, ReqPcs
<1>2. PcOf(s) BY PoolAssumption DEF PcOf
<1>3. req' = [req EXCEPT ![r] = s] BY DEF CheckedOut
<1> HIDE DEF s
<1>4. QED BY <1>1, <1>2, <1>3, ReqChange DEF s

\* A step of a request that changes its place, its socket or its force.
LEMMA MovesReq ==
  ASSUME TypeOK, PcInv, NEW r \in Requests, NEW pc \in ReqPcs, NEW sock \in Fds \cup {Nil},
         NEW force \in BOOLEAN, req[r].pc # "idle", pc # "idle",
         pc \in {"assign", "release", "checkin"} => req[r].obj \in Nodes,
         pc \in {"assign", "connect", "checkin"} => sock = Nil,
         pc \in {"write", "read"} => sock \in Fds,
         req' = [req EXCEPT ![r] = [pc |-> pc, host |-> req[r].host, obj |-> req[r].obj,
                                    sock |-> sock, force |-> force]]
  PROVE  /\ req' \in [Requests -> ReqRec] /\ PcInv'
         /\ req'[r] = [pc |-> pc, host |-> req[r].host, obj |-> req[r].obj,
                       sock |-> sock, force |-> force]
         /\ \A q \in Requests : q # r => req'[q] = req[q]
<1> DEFINE s == [pc |-> pc, host |-> req[r].host, obj |-> req[r].obj, sock |-> sock, force |-> force]
<1>1. s \in ReqRec
  <2>1. req[r] \in ReqRec BY DEF TypeOK, ReqRec
  <2>2. QED BY <2>1 DEF ReqRec
<1>2. PcOf(s) BY DEF PcOf, PcInv
<1>3. req' = [req EXCEPT ![r] = s] OBVIOUS
<1> HIDE DEF s
<1>4. QED BY <1>1, <1>2, <1>3, ReqChange DEF s

LEMMA AssignReq ==
  ASSUME TypeOK, PcInv, NEW r \in Requests, req[r].pc = "assign",
         NEW f \in Fds \cup {Nil}, NEW pc \in {"write", "connect"},
         pc = "write" <=> f # Nil,
         \/ pc = "write" /\ req' = [req EXCEPT ![r].sock = f, ![r].pc = "write"]
         \/ pc = "connect" /\ req' = [req EXCEPT ![r].pc = "connect"]
  PROVE  /\ req' \in [Requests -> ReqRec] /\ PcInv'
         /\ req'[r] = [pc |-> pc, host |-> req[r].host, obj |-> req[r].obj,
                       sock |-> f, force |-> req[r].force]
         /\ \A q \in Requests : q # r => req'[q] = req[q]
<1>1. req[r] \in ReqRec BY DEF TypeOK, ReqRec
<1>2. req[r].sock = Nil BY DEF PcInv
<1>3. req' = [req EXCEPT ![r] = [pc |-> pc, host |-> req[r].host, obj |-> req[r].obj,
                                 sock |-> f, force |-> req[r].force]]
  BY <1>1, <1>2 DEF ReqRec, TypeOK
<1>4. pc \in ReqPcs /\ req[r].force \in BOOLEAN BY <1>1 DEF ReqRec, ReqPcs
<1>5. f \in Fds \/ pc = "connect" OBVIOUS
<1>6. QED BY <1>3, <1>4, <1>5, MovesReq

LEMMA ConnectReq ==
  ASSUME TypeOK, PcInv, NEW r \in Requests, req[r].pc = "connect", NEW f \in Fds,
         req' = [req EXCEPT ![r].sock = f, ![r].pc = "write"]
  PROVE  /\ req' \in [Requests -> ReqRec] /\ PcInv'
         /\ req'[r] = [pc |-> "write", host |-> req[r].host, obj |-> req[r].obj,
                       sock |-> f, force |-> req[r].force]
         /\ \A q \in Requests : q # r => req'[q] = req[q]
<1>1. req[r] \in ReqRec BY DEF TypeOK, ReqRec
<1>3. req' = [req EXCEPT ![r] = [pc |-> "write", host |-> req[r].host, obj |-> req[r].obj,
                                 sock |-> f, force |-> req[r].force]]
  BY <1>1 DEF ReqRec, TypeOK
<1>4. "write" \in ReqPcs /\ req[r].force \in BOOLEAN BY <1>1 DEF ReqRec, ReqPcs
<1>6. QED BY <1>3, <1>4, MovesReq

LEMMA WriteReq ==
  ASSUME TypeOK, PcInv, NEW r \in Requests, Write(r)
  PROVE  /\ req' \in [Requests -> ReqRec] /\ PcInv'
         /\ req'[r] = [pc |-> "read", host |-> req[r].host, obj |-> req[r].obj,
                       sock |-> req[r].sock, force |-> req[r].force]
         /\ \A q \in Requests : q # r => req'[q] = req[q]
<1>1. req[r] \in ReqRec BY DEF TypeOK, ReqRec
<1>2. req[r].sock \in Fds /\ req[r].pc = "write" BY DEF PcInv, Write
<1>3. req' = [req EXCEPT ![r] = [pc |-> "read", host |-> req[r].host, obj |-> req[r].obj,
                                 sock |-> req[r].sock, force |-> req[r].force]]
  <2>1. req' = [req EXCEPT ![r].pc = "read"] BY DEF Write
  <2>2. req' = [req EXCEPT ![r] = [req[r] EXCEPT !.pc = "read"]] BY <2>1
  <2>3. [req[r] EXCEPT !.pc = "read"] = [pc |-> "read", host |-> req[r].host, obj |-> req[r].obj,
                                         sock |-> req[r].sock, force |-> req[r].force]
    BY <1>1 DEF ReqRec
  <2>4. QED BY <2>2, <2>3
<1>4. "read" \in ReqPcs /\ req[r].force \in BOOLEAN BY <1>1 DEF ReqRec, ReqPcs
<1>6. QED BY <1>2, <1>3, <1>4, MovesReq

\* Read and Abort: the request comes to close.
LEMMA CloseReq ==
  ASSUME TypeOK, PcInv, NEW r \in Requests, req[r].pc \in {"connect", "write", "read"},
         NEW b \in BOOLEAN, req' = [req EXCEPT ![r].force = b, ![r].pc = "close"]
  PROVE  /\ req' \in [Requests -> ReqRec] /\ PcInv'
         /\ req'[r] = [pc |-> "close", host |-> req[r].host, obj |-> req[r].obj,
                       sock |-> req[r].sock, force |-> b]
         /\ \A q \in Requests : q # r => req'[q] = req[q]
<1>1. req[r] \in ReqRec BY DEF TypeOK, ReqRec
<1>2. req[r].sock \in Fds \cup {Nil} BY <1>1 DEF ReqRec
<1> DEFINE s == [pc |-> "close", host |-> req[r].host, obj |-> req[r].obj,
                 sock |-> req[r].sock, force |-> b]
<1>3. req' = [req EXCEPT ![r] = s] BY <1>1 DEF ReqRec, TypeOK
<1>4. s \in ReqRec BY <1>1 DEF ReqRec, ReqPcs
<1>5. PcOf(s) BY DEF PcOf, PcInv
<1> HIDE DEF s
<1>6. QED BY <1>3, <1>4, <1>5, ReqChange DEF s

LEMMA TwoFields ==
  ASSUME TypeOK, NEW r \in Requests, NEW f \in Fds \cup {Nil}, NEW pc \in ReqPcs,
         req' = [req EXCEPT ![r].sock = f, ![r].pc = pc]
  PROVE  req' = [req EXCEPT ![r] = [pc |-> pc, host |-> req[r].host, obj |-> req[r].obj,
                                    sock |-> f, force |-> req[r].force]]
<1> DEFINE s == [pc |-> pc, host |-> req[r].host, obj |-> req[r].obj,
                 sock |-> f, force |-> req[r].force]
<1>1. req[r] \in ReqRec /\ req \in [Requests -> ReqRec] BY DEF TypeOK, ReqRec
<1>2. s \in ReqRec BY <1>1 DEF ReqRec
<1>3. req' \in [Requests -> ReqRec] BY <1>1 DEF ReqRec
<1>4. req'[r] = s
  <2>1. /\ req'[r].pc = pc /\ req'[r].host = req[r].host /\ req'[r].obj = req[r].obj
        /\ req'[r].sock = f /\ req'[r].force = req[r].force
    BY <1>1 DEF ReqRec
  <2>2. req'[r] \in ReqRec BY <1>3
  <2>3. QED BY <2>1, <2>2 DEF ReqRec
<1>5. \A q \in Requests : q # r => req'[q] = req[q] BY <1>1
<1>6. QED BY <1>1, <1>2, <1>3, <1>4, <1>5

\* CloseSocket with an entry at hand.
LEMMA ReleaseReq ==
  ASSUME TypeOK, PcInv, NEW r \in Requests, req[r].pc = "close", req[r].obj # Nil,
         NEW f \in Fds \cup {Nil}, req' = [req EXCEPT ![r].sock = f, ![r].pc = "release"]
  PROVE  /\ req' \in [Requests -> ReqRec] /\ PcInv'
         /\ req'[r] = [pc |-> "release", host |-> req[r].host, obj |-> req[r].obj,
                       sock |-> f, force |-> req[r].force]
         /\ \A q \in Requests : q # r => req'[q] = req[q]
<1>1. req[r] \in ReqRec BY DEF TypeOK, ReqRec
<1> DEFINE s == [pc |-> "release", host |-> req[r].host, obj |-> req[r].obj,
                 sock |-> f, force |-> req[r].force]
<1>2. "release" \in ReqPcs BY DEF ReqPcs
<1>3. req' = [req EXCEPT ![r] = s] BY <1>2, TwoFields
<1>4. s \in ReqRec BY <1>1 DEF ReqRec, ReqPcs
<1>5. PcOf(s) BY <1>1 DEF PcOf, PcInv, ReqRec
<1> HIDE DEF s
<1>6. QED BY <1>3, <1>4, <1>5, ReqChange DEF s

LEMMA CheckinReq ==
  ASSUME TypeOK, PcInv, NEW r \in Requests, Release(r)
  PROVE  /\ req' \in [Requests -> ReqRec] /\ PcInv'
         /\ req'[r] = [pc |-> "checkin", host |-> req[r].host, obj |-> req[r].obj,
                       sock |-> Nil, force |-> req[r].force]
         /\ \A q \in Requests : q # r => req'[q] = req[q]
<1>1. req[r] \in ReqRec BY DEF TypeOK, ReqRec
<1>2. req[r].pc = "release" /\ req[r].obj \in Nodes /\ req[r].force \in BOOLEAN
  BY <1>1 DEF ReqRec, PcInv, Release
<1>3. req' = [req EXCEPT ![r] = [pc |-> "checkin", host |-> req[r].host, obj |-> req[r].obj,
                                 sock |-> Nil, force |-> req[r].force]]
  BY <1>1 DEF ReqRec, TypeOK, Release
<1>4. "checkin" \in ReqPcs BY DEF ReqPcs
<1>6. QED BY <1>2, <1>3, <1>4, MovesReq

LEMMA IdleAgain ==
  ASSUME TypeOK, PcInv, NEW r \in Requests, req' = [req EXCEPT ![r] = IdleReq]
  PROVE  /\ req' \in [Requests -> ReqRec] /\ PcInv' /\ req'[r] = IdleReq
         /\ \A q \in Requests : q # r => req'[q] = req[q]
BY IdleReqType, ReqChange

ReqType == req \in [Requests -> ReqRec]
EntryType == entry \in [Nodes -> [ep: Hosts \cup {Nil}, socket: Fds \cup {Nil}]]
SpareType == tls \in [Requests -> Fds \cup {Nil}] /\ lost \subseteq Fds
LineType == peer \in [Fds -> Hosts \cup {Nil}] /\ line \in [Fds -> Seq(Requests)]
ListType == m_ready \subseteq Nodes /\ m_busy \subseteq Nodes /\ m_ready \cap m_busy = {}
FlagType == m_enable \in BOOLEAN /\ stopped \in BOOLEAN /\ left \in BOOLEAN

LEMMA TypeParts == TypeOK <=> ReqType /\ EntryType /\ SpareType /\ LineType /\ ListType /\ FlagType
BY DEF TypeOK, ReqType, EntryType, SpareType, LineType, ListType, FlagType, ReqRec

LEMMA TypePartsNext ==
  ASSUME ReqType', EntryType', SpareType', LineType', ListType', FlagType' PROVE TypeOK'
BY DEF TypeOK, ReqType, EntryType, SpareType, LineType, ListType, FlagType, ReqRec

LEMMA SocketOf ==
  ASSUME TypeOK, NEW n \in Nodes
  PROVE  entry[n].socket \in Fds \cup {Nil} /\ entry[n].ep \in Hosts \cup {Nil}
BY DEF TypeOK

LEMMA PoolTypes ==
  ASSUME TypeOK, PcInv, Start \/ Expire \/ SignalCleanup \/ Stop
  PROVE  TypeOK' /\ PcInv'
<1>1. ReqType /\ EntryType /\ SpareType /\ LineType /\ ListType /\ FlagType BY TypeParts
<1>2. CASE Start
  BY <1>1, <1>2, TypePartsNext DEF Start, ReqType, EntryType, SpareType, LineType, ListType, FlagType, PcInv
<1>3. CASE Expire
  <2>1. EntryType' /\ LineType' BY <1>3, EraseType, CloseFdsType DEF Expire, EntryType, LineType
  <2>2. ListType' BY <1>1, <1>3 DEF Expire, ListType
  <2>3. ReqType' /\ SpareType' /\ FlagType' /\ PcInv'
    BY <1>1, <1>3 DEF Expire, SpareType, flags, ReqType, FlagType, PcInv
  <2>4. QED BY <2>1, <2>2, <2>3, TypePartsNext
<1>4. CASE SignalCleanup
  <2>1. EntryType' /\ LineType' BY <1>4, EraseType, CloseFdsType DEF SignalCleanup, EntryType, LineType
  <2>2. ListType' BY <1>4 DEF SignalCleanup, ListType
  <2>3. ReqType' /\ SpareType' /\ FlagType' /\ PcInv'
    BY <1>1, <1>4 DEF SignalCleanup, SpareType, ReqType, FlagType, PcInv
  <2>4. QED BY <2>1, <2>2, <2>3, TypePartsNext
<1>5. CASE Stop
  <2>1. EntryType' /\ LineType' BY <1>5, EraseType, CloseFdsType DEF Stop, EntryType, LineType
  <2>2. ListType' BY <1>5 DEF Stop, ListType
  <2>3. ReqType' /\ SpareType' /\ FlagType' /\ PcInv'
    BY <1>1, <1>5 DEF Stop, SpareType, ReqType, FlagType, PcInv
  <2>4. QED BY <2>1, <2>2, <2>3, TypePartsNext
<1>6. QED BY <1>2, <1>3, <1>4, <1>5

LEMMA CheckoutTypes ==
  ASSUME TypeOK, PcInv, NEW r \in Requests, NEW h \in Hosts, Checkout(r, h) \/ NoPool(r, h)
  PROVE  TypeOK' /\ PcInv'
<1>1. ReqType /\ EntryType /\ SpareType /\ LineType /\ ListType /\ FlagType BY TypeParts
<1>2. CASE NoPool(r, h)
  <2>1. ReqType' /\ PcInv' BY <1>2, CheckedOutReq DEF NoPool, ReqType
  <2>2. EntryType' /\ SpareType' /\ LineType' /\ ListType' /\ FlagType'
    BY <1>1, <1>2 DEF NoPool, EntryType, SpareType, LineType, ListType, FlagType, flags
  <2>3. QED BY <2>1, <2>2, TypePartsNext
<1>3. CASE Checkout(r, h)
  <2>1. SpareType' /\ LineType' /\ FlagType' BY <1>1, <1>3 DEF Checkout, SpareType, LineType, FlagType, flags
  <2>2. ASSUME NEW n \in m_ready, m_ready' = m_ready \ {n}, m_busy' = m_busy \cup {n},
               CheckedOut(r, h, n, entry[n].socket), UNCHANGED entry
        PROVE  ReqType' /\ PcInv' /\ EntryType' /\ ListType'
    <3>1. n \in Nodes /\ n # Nil BY <1>1, PoolAssumption DEF ListType
    <3>2. ReqType' /\ PcInv' BY <2>2, <3>1, CheckedOutReq DEF ReqType
    <3>3. EntryType' /\ ListType' BY <1>1, <2>2, <3>1 DEF EntryType, ListType
    <3>4. QED BY <3>2, <3>3
  <2>3. ASSUME NEW n \in Nodes \ (m_busy \cup m_ready), m_busy' = m_busy \cup {n},
               entry' = [entry EXCEPT ![n] = [ep |-> h, socket |-> Nil]],
               CheckedOut(r, h, n, Nil), UNCHANGED m_ready
        PROVE  ReqType' /\ PcInv' /\ EntryType' /\ ListType'
    <3>2. ReqType' /\ PcInv' BY <2>3, CheckedOutReq DEF ReqType
    <3>3. EntryType' BY <1>1, <2>3 DEF EntryType
    <3>4. ListType' BY <1>1, <2>3 DEF ListType
    <3>5. QED BY <3>2, <3>3, <3>4
  <2>4. ASSUME CheckedOut(r, h, Nil, Nil), UNCHANGED <<m_ready, m_busy, entry>>
        PROVE  ReqType' /\ PcInv' /\ EntryType' /\ ListType'
    <3>2. ReqType' /\ PcInv' BY <2>4, CheckedOutReq DEF ReqType
    <3>3. EntryType' /\ ListType' BY <1>1, <2>4 DEF EntryType, ListType
    <3>5. QED BY <3>2, <3>3
  <2>5. QED BY <1>3, <2>1, <2>2, <2>3, <2>4, TypePartsNext DEF Checkout
<1>4. QED BY <1>2, <1>3

LEMMA UseTypes ==
  ASSUME TypeOK, PcInv, NEW r \in Requests,
         Assign(r) \/ Connect(r) \/ Write(r) \/ Read(r) \/ Abort(r)
  PROVE  TypeOK' /\ PcInv'
<1>1. ReqType /\ EntryType /\ SpareType /\ LineType /\ ListType /\ FlagType BY TypeParts
<1>a. EntryType' /\ ListType' /\ FlagType'
  BY <1>1 DEF Assign, Connect, Write, Read, Abort, EntryType, ListType, FlagType, flags
<1>2. CASE Assign(r)
  <2> DEFINE f == entry[req[r].obj].socket
  <2>1. req[r].pc = "assign" /\ req[r].obj \in Nodes /\ f # Nil BY <1>2 DEF Assign, PcInv
  <2>2. f \in Fds BY <2>1, SocketOf
  <2>3. CASE req' = [req EXCEPT ![r].sock = f, ![r].pc = "write"] /\ UNCHANGED <<tls, lost, peer, line>>
    <3>1. ReqType' /\ PcInv' BY <2>1, <2>2, <2>3, AssignReq DEF ReqType
    <3>2. SpareType' /\ LineType' BY <1>1, <2>3 DEF SpareType, LineType
    <3>3. QED BY <1>a, <3>1, <3>2, TypePartsNext
  <2>4. ASSUME NEW fs, req' = [req EXCEPT ![r].pc = "connect"], tls' = [tls EXCEPT ![r] = Nil],
               CloseFds(fs), lost' \in {lost, lost \cup {f}}
        PROVE  TypeOK' /\ PcInv'
    <3>1. ReqType' /\ PcInv' BY <2>1, <2>4, AssignReq DEF ReqType
    <3>2. LineType' BY <2>4, CloseFdsType DEF LineType
    <3>3. SpareType' BY <1>1, <2>2, <2>4 DEF SpareType
    <3>4. QED BY <1>a, <3>1, <3>2, <3>3, TypePartsNext
  <2>5. QED BY <1>2, <2>3, <2>4 DEF Assign
<1>3. CASE Connect(r)
  <2>1. req[r].pc = "connect" /\ req[r].host \in Hosts BY <1>3 DEF Connect, PcInv
  <2>2. PICK f \in Fds, old \in SUBSET Fds :
               /\ peer' = [g \in Fds |-> IF g = f THEN req[r].host
                                        ELSE IF g \in old THEN Nil ELSE peer[g]]
               /\ line' = [g \in Fds |-> IF g \in old THEN <<>> ELSE line[g]]
               /\ req' = [req EXCEPT ![r].sock = f, ![r].pc = "write"]
    <3> DEFINE old == IF IsSsl(r) THEN {tls[r]} \ {Nil} ELSE {}
    <3>1. old \in SUBSET Fds BY <1>1 DEF SpareType
    <3>2. PICK f \in FreeFds \cup old :
                 /\ peer' = [g \in Fds |-> IF g = f THEN req[r].host
                                          ELSE IF g \in old THEN Nil ELSE peer[g]]
                 /\ line' = [g \in Fds |-> IF g \in old THEN <<>> ELSE line[g]]
                 /\ req' = [req EXCEPT ![r].sock = f, ![r].pc = "write"]
      BY <1>3 DEF Connect
    <3>3. f \in Fds BY <3>1 DEF FreeFds
    <3> HIDE DEF old
    <3>4. QED BY <3>1, <3>2, <3>3
  <2>3. ReqType' /\ PcInv' BY <2>1, <2>2, ConnectReq DEF ReqType
  <2>4. LineType' BY <1>1, <2>1, <2>2 DEF LineType
  <2>5. SpareType' BY <1>1, <1>3 DEF SpareType, Connect
  <2>6. QED BY <1>a, <2>3, <2>4, <2>5, TypePartsNext
<1>b. Write(r) \/ Read(r) \/ Abort(r) => SpareType' BY <1>1 DEF Write, Read, Abort, SpareType
<1>4. CASE Write(r)
  <2>1. req[r].sock \in Fds BY <1>4 DEF Write, PcInv
  <2>2. LineType' BY <1>1, <1>4, <2>1 DEF LineType, Write
  <2>3. QED BY <1>a, <1>b, <1>4, <2>2, WriteReq, TypePartsNext DEF ReqType
<1>5. CASE Read(r)
  <2>1. req[r].sock \in Fds /\ req[r].pc = "read" BY <1>5 DEF Read, PcInv
  <2>2. LineType'
    <3>1. Tail(line[req[r].sock]) \in Seq(Requests) BY <1>1, <1>5, <2>1 DEF LineType, Read
    <3>2. QED BY <1>1, <1>5, <2>1, <3>1 DEF LineType, Read
  <2>3. PICK b \in BOOLEAN : req' = [req EXCEPT ![r].force = ~b, ![r].pc = "close"] BY <1>5 DEF Read
  <2>4. (~b) \in BOOLEAN OBVIOUS
  <2>5. ReqType' /\ PcInv' BY <2>1, <2>3, <2>4, CloseReq DEF ReqType
  <2>6. QED BY <1>a, <1>b, <1>5, <2>2, <2>5, TypePartsNext
<1>6. CASE Abort(r)
  <2>1. ReqType' /\ PcInv' BY <1>6, CloseReq DEF ReqType, Abort
  <2>2. LineType' BY <1>1, <1>6 DEF LineType, Abort
  <2>3. QED BY <1>a, <1>b, <1>6, <2>1, <2>2, TypePartsNext
<1>7. QED BY <1>2, <1>3, <1>4, <1>5, <1>6

\* CloseSocket: the request goes on with its entry, or ends.
LEMMA CloseSocketReq ==
  ASSUME TypeOK, PcInv, NEW r \in Requests, CloseSocket(r)
  PROVE  /\ req' \in [Requests -> ReqRec] /\ PcInv'
         /\ \A q \in Requests : q # r => req'[q] = req[q]
         /\ m_enable /\ req[r].obj # Nil =>
              \E f \in Fds \cup {Nil} :
                /\ f = (IF IsSsl(r) THEN Stream(r) ELSE IF req[r].force THEN Nil ELSE req[r].sock)
                /\ req'[r] = [pc |-> "release", host |-> req[r].host, obj |-> req[r].obj,
                              sock |-> f, force |-> req[r].force]
         /\ ~(m_enable /\ req[r].obj # Nil) => req'[r] = IdleReq
<1>1. req[r].pc = "close" BY DEF CloseSocket
<1>2. CASE m_enable /\ req[r].obj # Nil
  <2> DEFINE f == IF IsSsl(r) THEN Stream(r) ELSE IF req[r].force THEN Nil ELSE req[r].sock
  <2>1. f \in Fds \cup {Nil} BY DEF TypeOK, Stream
  <2>2. req' = [req EXCEPT ![r].sock = f, ![r].pc = "release"] BY <1>2 DEF CloseSocket
  <2> HIDE DEF f
  <2>3. QED BY <1>1, <1>2, <2>1, <2>2, ReleaseReq DEF f
<1>3. CASE ~(m_enable /\ req[r].obj # Nil)
  <2>1. req' = [req EXCEPT ![r] = IdleReq] BY <1>3 DEF CloseSocket
  <2>2. QED BY <1>3, <2>1, IdleAgain
<1>4. QED BY <1>2, <1>3

LEMMA EndTypes ==
  ASSUME TypeOK, PcInv, NEW r \in Requests,
         CloseSocket(r) \/ Release(r) \/ Checkin(r) \/ Destroy(r)
  PROVE  TypeOK' /\ PcInv'
<1>1. ReqType /\ EntryType /\ SpareType /\ LineType /\ ListType /\ FlagType BY TypeParts
<1>2. CASE CloseSocket(r)
  <2>1. EntryType' /\ ListType' /\ FlagType'
    BY <1>1, <1>2 DEF CloseSocket, EntryType, ListType, FlagType, flags
  <2>2. ReqType' /\ PcInv' BY <1>2, CloseSocketReq DEF ReqType
  <2>3. LineType' BY <1>1, <1>2, CloseFdsType DEF LineType, CloseSocket
  <2>4. Stream(r) \in Fds \cup {Nil} BY DEF TypeOK, Stream
  <2>5. SpareType' BY <1>1, <1>2, <2>4 DEF SpareType, CloseSocket
  <2>6. QED BY <2>1, <2>2, <2>3, <2>5, TypePartsNext
<1>3. CASE Release(r)
  <2>1. req[r].obj \in Nodes BY <1>3 DEF Release, PcInv
  <2>2. req[r].sock \in Fds \cup {Nil} BY <1>1 DEF ReqType, ReqRec
  <2>3. EntryType' BY <1>1, <1>3, <2>1, <2>2 DEF EntryType, Release
  <2>4. SpareType' /\ LineType' /\ ListType' /\ FlagType'
    BY <1>1, <1>3 DEF Release, SpareType, LineType, ListType, FlagType, flags
  <2>5. QED BY <1>3, <2>3, <2>4, CheckinReq, TypePartsNext DEF ReqType
<1>4. CASE Checkin(r)
  <2>1. req[r].obj \in Nodes BY <1>4 DEF Checkin, PcInv
  <2>2. EntryType' BY <1>1, <1>4, EraseType DEF EntryType, Checkin
  <2>3. ListType' BY <1>1, <1>4, <2>1 DEF Checkin, ListType
  <2>4. SpareType' /\ LineType' /\ FlagType'
    BY <1>1, <1>4 DEF Checkin, SpareType, LineType, FlagType, flags
  <2>5. ReqType' /\ PcInv' BY <1>4, IdleAgain DEF ReqType, Checkin
  <2>6. QED BY <2>2, <2>3, <2>4, <2>5, TypePartsNext
<1>5. CASE Destroy(r)
  <2>1. ReqType' /\ PcInv' /\ EntryType' /\ ListType' /\ FlagType'
    BY <1>1, <1>5 DEF Destroy, ReqType, PcInv, EntryType, ListType, FlagType, flags
  <2>2. LineType' BY <1>5, CloseFdsType DEF LineType, Destroy
  <2>3. SpareType' BY <1>1, <1>5 DEF SpareType, Destroy
  <2>4. QED BY <2>1, <2>2, <2>3, TypePartsNext
<1>6. QED BY <1>2, <1>3, <1>4, <1>5

LEMMA TypesStep ==
  ASSUME TypeOK, PcInv, [Next]_vars
  PROVE  TypeOK' /\ PcInv'
<1>1. CASE UNCHANGED vars
  BY <1>1 DEF vars, flags, TypeOK, PcInv
<1>2. CASE Start \/ Expire \/ SignalCleanup \/ Stop BY <1>2, PoolTypes
<1>3. ASSUME NEW r \in Requests, Request(r) PROVE TypeOK' /\ PcInv'
  BY <1>3, CheckoutTypes, UseTypes, EndTypes DEF Request
<1>4. QED BY <1>1, <1>2, <1>3 DEF Next

\* The stream of a request is the only one of its kind in it.
LEMMA StreamStep ==
  ASSUME TypeOK, PcInv, StreamInv, [Next]_vars
  PROVE  StreamInv'
<1>1. CASE UNCHANGED <<req, tls>>
  BY <1>1 DEF StreamInv, IsSsl
<1>2. ASSUME NEW r \in Requests, \A q \in Requests : q # r => req'[q] = req[q] /\ tls'[q] = tls[q],
             req'[r].host \in SslHosts /\ req'[r].sock # Nil => tls'[r] = Nil
      PROVE  StreamInv'
  BY <1>2 DEF StreamInv, IsSsl
<1>3. ASSUME NEW r \in Requests, Request(r) PROVE StreamInv'
  <2>1. req[r] \in ReqRec BY DEF TypeOK, ReqRec
  <2>2. ASSUME NEW h \in Hosts, Checkout(r, h) \/ NoPool(r, h) PROVE StreamInv'
    <3>1. tls' = tls /\ \E n \in Nodes \cup {Nil}, s \in Fds \cup {Nil} : CheckedOut(r, h, n, s)
      BY <2>2, SocketOf DEF Checkout, NoPool, TypeOK
    <3>2. req'[r].sock = Nil /\ \A q \in Requests : q # r => req'[q] = req[q]
      BY <3>1 DEF CheckedOut, TypeOK
    <3>3. QED BY <1>2, <3>1, <3>2
  <2>3. CASE Assign(r)
    <3>1. \A q \in Requests : q # r => req'[q] = req[q] /\ tls'[q] = tls[q]
      BY <2>3 DEF Assign, TypeOK
    <3>2. req'[r].host = req[r].host BY <2>1, <2>3 DEF Assign, TypeOK, ReqRec
    <3>3. req'[r].host \in SslHosts => tls'[r] = Nil BY <2>3, <3>2 DEF Assign, TypeOK, IsSsl
    <3>4. QED BY <1>2, <3>1, <3>3
  <2>4. CASE Connect(r)
    <3>1. \A q \in Requests : q # r => req'[q] = req[q] /\ tls'[q] = tls[q]
      BY <2>4 DEF Connect, TypeOK
    <3>2. req'[r].host = req[r].host BY <2>1, <2>4 DEF Connect, TypeOK, ReqRec
    <3>3. req'[r].host \in SslHosts => tls'[r] = Nil BY <2>4, <3>2 DEF Connect, TypeOK, IsSsl
    <3>4. QED BY <1>2, <3>1, <3>3
  <2>5. CASE Write(r) \/ Read(r) \/ Abort(r)
    <3>1. tls' = tls /\ \A q \in Requests : q # r => req'[q] = req[q]
      BY <2>5 DEF Write, Read, Abort, TypeOK
    <3>2. req'[r].host = req[r].host /\ req'[r].sock = req[r].sock
      <4>0. ASSUME NEW pc, NEW b,
                   req'[r] = [pc |-> pc, host |-> req[r].host, obj |-> req[r].obj,
                              sock |-> req[r].sock, force |-> b]
            PROVE  req'[r].host = req[r].host /\ req'[r].sock = req[r].sock
        BY <4>0
      <4>1. CASE Write(r) BY <4>0, <4>1, WriteReq
      <4>2. CASE Read(r)
        <5>1. PICK b \in BOOLEAN : req' = [req EXCEPT ![r].force = ~b, ![r].pc = "close"]
          BY <4>2 DEF Read
        <5>2. (~b) \in BOOLEAN /\ req[r].pc = "read" BY <4>2 DEF Read
        <5>3. QED BY <4>0, <5>1, <5>2, CloseReq
      <4>3. CASE Abort(r) BY <4>0, <4>3, CloseReq DEF Abort
      <4>4. QED BY <2>5, <4>1, <4>2, <4>3
    <3>3. QED BY <1>2, <3>1, <3>2 DEF StreamInv, IsSsl
  <2>6. CASE CloseSocket(r)
    <3>1. \A q \in Requests : q # r => req'[q] = req[q] /\ tls'[q] = tls[q]
      BY <2>6, CloseSocketReq DEF CloseSocket, TypeOK
    <3>2. CASE m_enable /\ req[r].obj # Nil
      <4>1. req'[r].host = req[r].host
        <5>1. PICK f : req'[r] = [pc |-> "release", host |-> req[r].host, obj |-> req[r].obj,
                                  sock |-> f, force |-> req[r].force]
          BY <2>6, <3>2, CloseSocketReq
        <5>2. QED BY <5>1
      <4>2. IsSsl(r) => tls'[r] = Nil BY <2>6, <3>2 DEF CloseSocket, TypeOK
      <4>3. QED BY <1>2, <3>1, <4>1, <4>2 DEF IsSsl
    <3>3. CASE ~(m_enable /\ req[r].obj # Nil)
      <4>1. req'[r].sock = Nil BY <2>6, <3>3, CloseSocketReq DEF IdleReq
      <4>2. QED BY <1>2, <3>1, <4>1
    <3>4. QED BY <3>2, <3>3
  <2>7. CASE Release(r) \/ Checkin(r)
    <3>1. tls' = tls /\ \A q \in Requests : q # r => req'[q] = req[q]
      BY <2>7 DEF Release, Checkin, TypeOK
    <3>2. req'[r].sock = Nil
      <4>1. CASE Release(r)
        <5>1. req'[r] = [pc |-> "checkin", host |-> req[r].host, obj |-> req[r].obj,
                         sock |-> Nil, force |-> req[r].force]
          BY <4>1, CheckinReq
        <5>2. QED BY <5>1
      <4>2. CASE Checkin(r) BY <4>2, IdleAgain DEF Checkin, IdleReq
      <4>3. QED BY <2>7, <4>1, <4>2
    <3>3. QED BY <1>2, <3>1, <3>2
  <2>8. CASE Destroy(r)
    <3>1. req' = req /\ tls' = [tls EXCEPT ![r] = Nil] BY <2>8 DEF Destroy
    <3>2. \A q \in Requests : q # r => tls'[q] = tls[q] BY <3>1 DEF TypeOK
    <3>3. tls'[r] = Nil BY <3>1 DEF TypeOK
    <3>4. QED BY <1>2, <3>1, <3>2, <3>3
  <2>9. QED BY <1>3, <2>2, <2>3, <2>4, <2>5, <2>6, <2>7, <2>8 DEF Request
<1>4. CASE Start \/ Expire \/ SignalCleanup \/ Stop
  BY <1>1, <1>4 DEF Start, Expire, SignalCleanup, Stop
<1>5. QED BY <1>1, <1>3, <1>4 DEF Next, vars

(***************************************************************************)
(* The flags and the capacity.                                             *)
(***************************************************************************)

LEMMA FlagStep ==
  ASSUME TypeOK, PcInv, FlagInv, [Next]_vars
  PROVE  FlagInv'
<1>1. CASE UNCHANGED vars BY <1>1 DEF vars, flags, FlagInv
<1>2. CASE Start BY <1>2 DEF Start, FlagInv
<1>3. CASE Expire BY <1>3 DEF Expire, FlagInv, flags
<1>4. CASE SignalCleanup BY <1>4 DEF SignalCleanup, FlagInv
<1>5. CASE Stop BY <1>5 DEF Stop, FlagInv
<1>6. ASSUME NEW r \in Requests, Request(r) PROVE FlagInv'
  <2>1. CASE \E h \in Hosts : Checkout(r, h) BY <2>1 DEF Checkout, FlagInv, flags
  <2>2. CASE \E h \in Hosts : NoPool(r, h) BY <2>2 DEF NoPool, FlagInv, flags
  <2>3. CASE Assign(r) \/ Connect(r) \/ Write(r) \/ Read(r) \/ Abort(r)
    BY <2>3 DEF Assign, Connect, Write, Read, Abort, FlagInv, flags
  <2>4. CASE CloseSocket(r) BY <2>4 DEF CloseSocket, FlagInv, flags
  <2>5. CASE Release(r) BY <2>5 DEF Release, FlagInv, flags
  <2>6. CASE Checkin(r)
    <3>1. UNCHANGED flags BY <2>6 DEF Checkin
    <3>2. m_ready = {} /\ m_busy = {} => m_ready' = {} /\ m_busy' = {} BY <2>6 DEF Checkin
    <3>3. QED BY <3>1, <3>2 DEF FlagInv, flags
  <2>7. CASE Destroy(r) BY <2>7 DEF Destroy, FlagInv, flags
  <2>8. QED BY <1>6, <2>1, <2>2, <2>3, <2>4, <2>5, <2>6, <2>7 DEF Request
<1>7. QED BY <1>1, <1>2, <1>3, <1>4, <1>5, <1>6 DEF Next

LEMMA ListsFinite ==
  ASSUME TypeOK
  PROVE  /\ IsFiniteSet(m_ready) /\ IsFiniteSet(m_busy)
         /\ Cardinality(m_ready) \in Nat /\ Cardinality(m_busy) \in Nat
<1>1. m_ready \subseteq Nodes /\ m_busy \subseteq Nodes BY DEF TypeOK
<1>2. IsFiniteSet(m_ready) /\ IsFiniteSet(m_busy) BY <1>1, PoolAssumption, FS_Subset
<1>3. QED BY <1>2, FS_CardinalityType

\* What one entry more or less does to the sizes of the lists.
LEMMA OneMore ==
  ASSUME NEW S, IsFiniteSet(S), NEW n, n \notin S
  PROVE  Cardinality(S \cup {n}) = Cardinality(S) + 1
BY FS_AddElement

LEMMA OneLess ==
  ASSUME NEW S, IsFiniteSet(S), NEW n \in S
  PROVE  Cardinality(S \ {n}) = Cardinality(S) - 1
BY FS_RemoveElement

LEMMA CapacityStep ==
  ASSUME TypeOK, PcInv, CapacityInv, [Next]_vars
  PROVE  CapacityInv'
<1>0. /\ IsFiniteSet(m_ready) /\ IsFiniteSet(m_busy) /\ m_ready \cap m_busy = {}
      /\ Cardinality(m_ready) \in Nat /\ Cardinality(m_busy) \in Nat
      /\ Cardinality(m_ready) + Cardinality(m_busy) <= Capacity
  BY ListsFinite DEF CapacityInv, TypeOK
<1>1. ASSUME UNCHANGED <<m_ready, m_busy>> PROVE CapacityInv' BY <1>1 DEF CapacityInv
<1>2. ASSUME m_ready' = {}, m_busy' = {} PROVE CapacityInv'
  <2>1. Cardinality(m_ready') = 0 /\ Cardinality(m_busy') = 0 BY <1>2, FS_EmptySet
  <2>2. QED BY <2>1, PoolAssumption DEF CapacityInv
<1>3. CASE Expire
  <2>1. m_ready' \subseteq m_ready /\ m_busy' = m_busy BY <1>3 DEF Expire
  <2>2. Cardinality(m_ready') \in Nat /\ Cardinality(m_ready') <= Cardinality(m_ready)
    BY <1>0, <2>1, FS_Subset, FS_CardinalityType
  <2>3. QED BY <1>0, <2>1, <2>2, PoolAssumption DEF CapacityInv
<1>4. ASSUME NEW r \in Requests, NEW h \in Hosts, Checkout(r, h) PROVE CapacityInv'
  <2>1. ASSUME NEW n \in m_ready, m_ready' = m_ready \ {n}, m_busy' = m_busy \cup {n}
        PROVE  CapacityInv'
    <3>1. Cardinality(m_ready') = Cardinality(m_ready) - 1 BY <1>0, <2>1, OneLess
    <3>2. n \notin m_busy BY <1>0
    <3>3. Cardinality(m_busy') = Cardinality(m_busy) + 1 BY <1>0, <2>1, <3>2, OneMore
    <3>4. QED BY <1>0, <3>1, <3>3, PoolAssumption DEF CapacityInv
  <2>2. ASSUME NEW n \in Nodes \ (m_busy \cup m_ready), m_busy' = m_busy \cup {n},
               Cardinality(m_busy) + Cardinality(m_ready) < Capacity, UNCHANGED m_ready
        PROVE  CapacityInv'
    <3>1. Cardinality(m_busy') = Cardinality(m_busy) + 1 BY <1>0, <2>2, OneMore
    <3>2. QED BY <1>0, <2>2, <3>1, PoolAssumption DEF CapacityInv
  <2>3. QED BY <1>1, <1>4, <2>1, <2>2 DEF Checkout
<1>5. ASSUME NEW r \in Requests, Checkin(r) PROVE CapacityInv'
  <2> DEFINE n == req[r].obj
  <2>1. ASSUME n \in m_busy, m_busy' = m_busy \ {n}, UNCHANGED m_ready PROVE CapacityInv'
    <3>1. Cardinality(m_busy') = Cardinality(m_busy) - 1 BY <1>0, <2>1, OneLess
    <3>2. QED BY <1>0, <2>1, <3>1, PoolAssumption DEF CapacityInv
  <2>2. ASSUME n \in m_busy, m_busy' = m_busy \ {n}, m_ready' = m_ready \cup {n} PROVE CapacityInv'
    <3>1. Cardinality(m_busy') = Cardinality(m_busy) - 1 BY <1>0, <2>2, OneLess
    <3>2. n \notin m_ready BY <1>0, <2>2
    <3>3. Cardinality(m_ready') = Cardinality(m_ready) + 1 BY <1>0, <2>2, <3>2, OneMore
    <3>4. QED BY <1>0, <3>1, <3>3, PoolAssumption DEF CapacityInv
  <2>3. QED BY <1>1, <1>5, <2>1, <2>2 DEF Checkin
<1>6. CASE UNCHANGED vars BY <1>1, <1>6 DEF vars
<1>7. CASE Start \/ SignalCleanup \/ Stop BY <1>1, <1>2, <1>7 DEF Start, SignalCleanup, Stop
<1>8. ASSUME NEW r \in Requests, Request(r) PROVE CapacityInv'
  BY <1>1, <1>4, <1>5, <1>8
  DEF Request, NoPool, Assign, Connect, Write, Read, Abort, CloseSocket, Release, Destroy
<1>9. QED BY <1>3, <1>6, <1>7, <1>8 DEF Next

(***************************************************************************)
(* Entries, descriptors and what is under way, while the pool runs.        *)
(*                                                                         *)
(* Most steps are local to one request: the lists and what other requests  *)
(* and other entries say stay as they are.  The descriptor the request     *)
(* answers for stays, is closed, or is a new one.                          *)
(***************************************************************************)

Local(r) ==
  /\ UNCHANGED <<m_ready, m_busy>>
  /\ \A q \in Requests : q # r => req'[q] = req[q]
  /\ req'[r].obj = req[r].obj
  /\ req[r].obj # Nil => req'[r].host = req[r].host
  /\ \A n \in Nodes : entry'[n].ep = entry[n].ep /\ (n # req[r].obj => entry'[n] = entry[n])

RequestLine(r) ==
  Held(r) # Nil /\ req[r].host \notin SslHosts =>
    /\ req[r].pc = "read" => line[Held(r)] = <<r>>
    /\ Clean(r) => line[Held(r)] = <<>>

LEMMA HeldType ==
  ASSUME TypeOK, PcInv, NEW r \in Requests
  PROVE  /\ Held(r) \in Fds \cup {Nil}
         /\ Held(r) # Nil => req[r].host \in Hosts
<1>1. req[r] \in ReqRec BY DEF TypeOK, ReqRec
<1>2. CASE req[r].pc \in {"assign", "checkin"}
  <2>1. req[r].obj \in Nodes BY <1>2 DEF PcInv
  <2>2. req[r].host \in Hosts BY <1>2 DEF PcInv
  <2>3. QED BY <1>2, <2>1, <2>2, SocketOf DEF Held
<1>3. CASE req[r].pc \notin {"assign", "checkin"}
  <2>1. Held(r) = req[r].sock BY <1>3 DEF Held
  <2>2. req[r].sock \in Fds \cup {Nil} BY <1>1 DEF ReqRec
  <2>3. req[r].sock # Nil => req[r].pc # "idle" BY DEF PcInv, IdleReq
  <2>4. QED BY <2>1, <2>2, <2>3 DEF PcInv
<1>4. QED BY <1>2, <1>3

LEMMA LocalFrame ==
  ASSUME TypeOK, PcInv, OwnInv, NEW r \in Requests, Local(r)
  PROVE  /\ \A q \in Requests : q # r => Held(q)' = Held(q)
         /\ \A n \in m_ready : entry'[n] = entry[n]
<1>1. ASSUME NEW q \in Requests, q # r PROVE Held(q)' = Held(q)
  <2>1. req'[q] = req[q] BY <1>1 DEF Local
  <2>2. CASE req[q].pc \in {"assign", "checkin"}
    <3>1. req[q].obj \in Nodes /\ req[q].obj # Nil BY <2>2, PoolAssumption DEF PcInv
    <3>2. req[q].obj # req[r].obj BY <1>1, <3>1 DEF OwnInv
    <3>3. entry'[req[q].obj] = entry[req[q].obj] BY <3>1, <3>2 DEF Local
    <3>4. QED BY <2>1, <2>2, <3>3 DEF Held
  <2>3. CASE req[q].pc \notin {"assign", "checkin"} BY <2>1, <2>3 DEF Held
  <2>4. QED BY <2>2, <2>3
<1>2. ASSUME NEW n \in m_ready PROVE entry'[n] = entry[n]
  <2>1. n \in Nodes /\ n \notin m_busy /\ n # Nil BY PoolAssumption DEF TypeOK
  <2>2. n # req[r].obj BY <2>1 DEF OwnInv
  <2>3. QED BY <2>1, <2>2 DEF Local
<1>3. QED BY <1>1, <1>2

LEMMA LocalOwn ==
  ASSUME TypeOK, PcInv, OwnInv, NEW r \in Requests, Local(r)
  PROVE  OwnInv'
<1>1. \A q \in Requests : req'[q].obj = req[q].obj /\ (req[q].obj # Nil => req'[q].host = req[q].host)
  BY DEF Local
<1>2. m_busy' = m_busy BY DEF Local
<1>3. \A n \in m_busy : entry'[n].ep = entry[n].ep BY DEF Local, TypeOK
<1>4. \A q \in Requests : req'[q].obj # Nil => /\ req'[q].obj \in m_busy'
                                               /\ entry'[req'[q].obj].ep = req'[q].host
  BY <1>1, <1>2, <1>3 DEF OwnInv
<1>5. \A q, p \in Requests : req'[q].obj = req'[p].obj /\ q # p => req'[q].obj = Nil
  BY <1>1 DEF OwnInv
<1>6. \A n \in m_busy' : \E q \in Requests : req'[q].obj = n BY <1>1, <1>2 DEF OwnInv
<1>7. QED BY <1>4, <1>5, <1>6 DEF OwnInv

\* The descriptors a request object has.
Mine(r) == {Held(r), tls[r]} \ {Nil}

LEMMA FitsOpen ==
  ASSUME NEW p, NEW h \in Hosts, Fits(p, h)
  PROVE  p # Nil
BY PoolAssumption DEF Fits

LEMMA InSpare ==
  ASSUME TypeOK
  PROVE  /\ \A f \in lost : f \in Spare /\ f \in Fds
         /\ \A q \in Requests : tls[q] # Nil => tls[q] \in Spare /\ tls[q] \in Fds
BY DEF TypeOK, Spare

\* What is not of this request is open and not among its own.
LEMMA OthersApart ==
  ASSUME TypeOK, PcInv, SockInv, SpareInv, NEW r \in Requests,
         NEW mine, mine = Mine(r) \cup FreeFds
  PROVE  /\ \A q \in Requests : q # r /\ Held(q) # Nil => Held(q) \in Fds \ mine
         /\ \A q \in Requests : q # r /\ tls[q] # Nil => tls[q] \in Fds \ mine
         /\ \A n \in m_ready : entry[n].socket \in Fds \ mine
         /\ \A f \in lost : f \in Fds \ mine
<1>0. tls[r] # Nil => tls[r] \in Spare BY InSpare
<1>1. ASSUME NEW q \in Requests, q # r, Held(q) # Nil PROVE Held(q) \in Fds \ mine
  <2>1. Held(q) \in Fds /\ req[q].host \in Hosts BY <1>1, HeldType
  <2>2. peer[Held(q)] # Nil BY <1>1, <2>1, FitsOpen DEF SockInv
  <2>3. Held(q) # Held(r) BY <1>1 DEF SockInv
  <2>4. Held(q) # tls[r] BY <1>0, <1>1 DEF SpareInv
  <2>5. QED BY <2>1, <2>2, <2>3, <2>4 DEF Mine, FreeFds
<1>2. \A f \in Spare : f \notin FreeFds BY PoolAssumption DEF SpareInv, FreeFds
<1>3. \A f \in Spare : f # Held(r) BY DEF SpareInv
<1>4. ASSUME NEW q \in Requests, q # r, tls[q] # Nil PROVE tls[q] \in Fds \ mine
  <2>1. tls[q] \in Spare /\ tls[q] \in Fds BY <1>4, InSpare
  <2>2. tls[q] # tls[r] BY <1>4 DEF SpareInv
  <2>3. QED BY <1>2, <1>3, <2>1, <2>2 DEF Mine
<1>5. ASSUME NEW n \in m_ready PROVE entry[n].socket \in Fds \ mine
  <2>1. n \in Nodes BY DEF TypeOK
  <2>2. entry[n].socket \in Fds /\ entry[n].ep \in Hosts BY <2>1, SocketOf DEF SockInv
  <2>3. peer[entry[n].socket] # Nil BY <2>2, FitsOpen DEF SockInv
  <2>4. entry[n].socket # Held(r) BY DEF SockInv
  <2>5. entry[n].socket # tls[r] \/ tls[r] = Nil BY <1>0 DEF SpareInv
  <2>6. QED BY <2>2, <2>3, <2>4, <2>5 DEF Mine, FreeFds
<1>6. ASSUME NEW f \in lost PROVE f \in Fds \ mine
  <2>1. f \in Spare /\ f \in Fds BY InSpare
  <2>2. f # tls[r] BY DEF SpareInv
  <2>3. QED BY <1>2, <1>3, <2>1, <2>2 DEF Mine
<1>7. QED BY <1>1, <1>4, <1>5, <1>6

\* The request closes descriptors of its own, opens free ones and moves them
\* between its socket, its entry and its stream, or loses one.
LEMMA LocalStep ==
  ASSUME TypeOK, PcInv, RunInv, TypeOK', PcInv', NEW r \in Requests, Local(r),
         NEW mine, mine = Mine(r) \cup FreeFds,
         \A q \in Requests : q # r => tls'[q] = tls[q],
         lost \subseteq lost', lost' \subseteq lost \cup mine,
         \A f : f # Nil /\ (f = Held(r)' \/ f = tls'[r]) => f \in mine,
         Held(r)' # Nil => /\ Fits(peer'[Held(r)'], req'[r].host)
                           /\ Held(r)' # tls'[r] /\ Held(r)' \notin lost' \ lost,
         tls'[r] # Nil => peer'[tls'[r]] \in SslHosts /\ tls'[r] \notin lost' \ lost,
         \A f \in lost' \ lost : peer'[f] \in SslHosts,
         \A f \in Fds \ mine : peer'[f] = peer[f] /\ line'[f] = line[f],
         \A f \in mine : peer'[f] = Nil => line'[f] = <<>>,
         \A f \in mine : peer'[f] # Nil => f = Held(r)' \/ f = tls'[r] \/ f \in lost',
         RequestLine(r)'
  PROVE  RunInv'
<1>0. OwnInv /\ SockInv /\ SpareInv /\ LineInv BY DEF RunInv
<1>1. m_ready' = m_ready /\ m_ready \subseteq Nodes BY DEF Local, TypeOK
<1>2. \A q \in Requests : q # r => Held(q)' = Held(q) /\ req'[q] = req[q]
  BY <1>0, LocalFrame DEF Local
<1>3. \A n \in m_ready : entry'[n] = entry[n] BY <1>0, LocalFrame
<1>4. /\ \A q \in Requests : q # r /\ Held(q) # Nil => Held(q) \in Fds \ mine
      /\ \A q \in Requests : q # r /\ tls[q] # Nil => tls[q] \in Fds \ mine
      /\ \A n \in m_ready : entry[n].socket \in Fds \ mine
      /\ \A f \in lost : f \in Fds \ mine
  BY <1>0, OthersApart
<1>5. lost' \subseteq Fds /\ Nil \notin Fds BY PoolAssumption DEF TypeOK
<1>a. OwnInv' BY <1>0, LocalOwn
<1>b. SockInv'
  <2>1. ASSUME NEW q \in Requests, Held(q)' # Nil PROVE Fits(peer'[Held(q)'], req'[q].host)
    <3>1. CASE q = r BY <2>1, <3>1
    <3>2. CASE q # r
      <4>1. Held(q)' = Held(q) /\ req'[q] = req[q] BY <1>2, <3>2
      <4>2. peer'[Held(q)] = peer[Held(q)] BY <1>4, <2>1, <3>2, <4>1
      <4>3. QED BY <1>0, <2>1, <4>1, <4>2 DEF SockInv
    <3>3. QED BY <3>1, <3>2
  <2>2. ASSUME NEW q \in Requests, NEW p \in Requests, Held(q)' = Held(p)', q # p
        PROVE  Held(q)' = Nil
    BY <1>0, <1>2, <1>4, <2>2 DEF SockInv
  <2>3. \A n \in m_ready' : /\ entry'[n].socket # Nil /\ entry'[n].ep # Nil
                            /\ Fits(peer'[entry'[n].socket], entry'[n].ep)
    <3>1. ASSUME NEW n \in m_ready PROVE peer'[entry[n].socket] = peer[entry[n].socket] BY <1>4
    <3>2. QED BY <1>0, <1>1, <1>3, <3>1 DEF SockInv
  <2>4. \A n, k \in m_ready' : entry'[n].socket = entry'[k].socket => n = k
    BY <1>0, <1>1, <1>3 DEF SockInv
  <2>5. ASSUME NEW n \in m_ready', NEW q \in Requests PROVE entry'[n].socket # Held(q)'
    <3>1. entry'[n] = entry[n] /\ entry[n].socket \in Fds \ mine BY <1>1, <1>3, <1>4
    <3>2. CASE q = r BY <1>5, <3>1, <3>2
    <3>3. CASE q # r BY <1>0, <1>1, <1>2, <3>1, <3>3 DEF SockInv
    <3>4. QED BY <3>2, <3>3
  <2>6. ASSUME NEW f \in Fds, peer'[f] # Nil
        PROVE  (\E q \in Requests : Held(q)' = f) \/ (\E n \in m_ready' : entry'[n].socket = f)
               \/ f \in Spare'
    <3>1. CASE f \in mine BY <2>6, <3>1 DEF Spare
    <3>2. CASE f \notin mine
      <4>1. peer[f] # Nil BY <2>6, <3>2
      <4>2. CASE \E q \in Requests : Held(q) = f
        <5>1. PICK q \in Requests : Held(q) = f BY <4>2
        <5>2. q # r BY <1>5, <3>2, <5>1 DEF Mine
        <5>3. Held(q)' = f BY <1>2, <5>1, <5>2
        <5>4. QED BY <5>3
      <4>3. CASE \E n \in m_ready : entry[n].socket = f BY <1>1, <1>3, <4>3
      <4>4. CASE \E q \in Requests : tls[q] = f
        <5>1. PICK q \in Requests : tls[q] = f BY <4>4
        <5>2. q # r BY <1>5, <3>2, <5>1 DEF Mine
        <5>3. tls'[q] = f BY <5>1, <5>2
        <5>4. QED BY <5>3 DEF Spare
      <4>5. CASE f \in lost BY <4>5 DEF Spare
      <4>6. QED BY <1>0, <4>1, <4>2, <4>3, <4>4, <4>5 DEF SockInv, Spare
    <3>3. QED BY <3>1, <3>2
  <2>7. QED BY <2>1, <2>2, <2>3, <2>4, <2>5, <2>6 DEF SockInv
<1>c. SpareInv'
  <2>0. \A f \in Spare' : \/ f \in lost' \ lost \/ f = tls'[r]
                          \/ f \in Spare /\ f \in Fds \ mine
    <3>1. ASSUME NEW f \in Fds, NEW q \in Requests, q # r, tls'[q] = f
          PROVE  f \in Spare /\ f \in Fds \ mine
      BY <1>4, <1>5, <3>1 DEF Spare
    <3>2. ASSUME NEW f \in lost PROVE f \in Spare /\ f \in Fds \ mine BY <1>4, InSpare
    <3>3. QED BY <3>1, <3>2 DEF Spare
  <2>1. ASSUME NEW f \in Spare' PROVE peer'[f] \in SslHosts
    <3>1. f \in Fds BY <1>5 DEF Spare
    <3>2. QED BY <1>0, <1>5, <2>0, <2>1, <3>1 DEF SpareInv
  <2>2. ASSUME NEW q \in Requests PROVE Held(q)' \notin Spare'
    <3>0. Nil \notin Spare' BY <1>5 DEF Spare
    <3>1. CASE q = r BY <2>0, <3>0, <3>1
    <3>2. CASE q # r /\ Held(q) # Nil
      <4>1. Held(q)' = Held(q) /\ Held(q) \in Fds \ mine /\ Held(q) \notin Spare
        BY <1>0, <1>2, <1>4, <3>2 DEF SpareInv
      <4>2. Held(q) \notin lost BY <4>1 DEF Spare
      <4>3. QED BY <1>5, <2>0, <4>1, <4>2
    <3>3. CASE q # r /\ Held(q) = Nil BY <1>2, <3>0, <3>3
    <3>4. QED BY <3>1, <3>2, <3>3
  <2>3. ASSUME NEW n \in m_ready' PROVE entry'[n].socket \notin Spare'
    <3>1. /\ entry'[n] = entry[n] /\ entry[n].socket \in Fds \ mine
          /\ entry[n].socket \notin Spare
      BY <1>0, <1>1, <1>3, <1>4 DEF SpareInv
    <3>2. entry[n].socket \notin lost BY <3>1 DEF Spare
    <3>3. QED BY <1>5, <2>0, <3>1, <3>2
  <2>4. ASSUME NEW q \in Requests, NEW p \in Requests, tls'[q] = tls'[p], q # p
        PROVE  tls'[q] = Nil
    BY <1>0, <1>4, <2>4 DEF SpareInv
  <2>5. ASSUME NEW q \in Requests PROVE tls'[q] \notin lost'
    <3>1. CASE q = r BY <1>4, <1>5, <3>1
    <3>2. CASE q # r BY <1>0, <1>4, <1>5, <3>2 DEF SpareInv
    <3>3. QED BY <3>1, <3>2
  <2>6. QED BY <2>1, <2>2, <2>3, <2>4, <2>5 DEF SpareInv
<1>d. LineInv'
  <2>1. ASSUME NEW f \in Fds, peer'[f] = Nil PROVE line'[f] = <<>>
    <3>1. f \in mine
      <4>1. SUFFICES ASSUME f \notin mine PROVE FALSE OBVIOUS
      <4>2. peer[f] = Nil BY <2>1, <4>1
      <4>3. QED BY <4>1, <4>2 DEF FreeFds
    <3>2. QED BY <2>1, <3>1
  <2>2. ASSUME NEW n \in m_ready', entry'[n].ep \notin SslHosts PROVE line'[entry'[n].socket] = <<>>
    <3>1. n \in m_ready /\ entry'[n] = entry[n] BY <1>1, <1>3
    <3>2. line'[entry[n].socket] = line[entry[n].socket] BY <1>4, <3>1
    <3>3. QED BY <1>0, <2>2, <3>1, <3>2 DEF LineInv
  <2>3. ASSUME NEW q \in Requests PROVE RequestLine(q)'
    <3>1. CASE q = r BY <3>1
    <3>2. CASE q # r
      <4>1. req'[q] = req[q] /\ Held(q)' = Held(q) BY <1>2, <3>2
      <4>2. Held(q) # Nil => line'[Held(q)] = line[Held(q)] BY <1>4, <3>2
      <4>3. RequestLine(q) BY <1>0 DEF LineInv, RequestLine
      <4>4. QED BY <4>1, <4>2, <4>3 DEF RequestLine, Clean
    <3>3. QED BY <3>1, <3>2
  <2>4. QED BY <2>1, <2>2, <2>3 DEF LineInv, RequestLine
<1>e. QED BY <1>a, <1>b, <1>c, <1>d DEF RunInv

\* The request goes on with the descriptor it has, or none.
LEMMA LocalKeep ==
  ASSUME TypeOK, PcInv, RunInv, TypeOK', PcInv', NEW r \in Requests, Local(r), UNCHANGED <<tls, lost>>,
         Held(r)' = Held(r), Held(r) # Nil => req'[r].host = req[r].host, peer' = peer,
         \A f \in Fds : f # Held(r) => line'[f] = line[f], RequestLine(r)'
  PROVE  RunInv'
<1> DEFINE mine == Mine(r) \cup FreeFds
<1>0. SockInv /\ SpareInv /\ LineInv BY DEF RunInv
<1>1. Held(r) \in Fds \cup {Nil} /\ tls[r] \in Fds \cup {Nil} BY HeldType DEF TypeOK
<1>2. Held(r) # Nil => Held(r) \in mine BY DEF Mine
<1>3. tls[r] # Nil => tls[r] \in mine /\ tls[r] \in Spare BY InSpare DEF Mine
<1>4. Held(r) # Nil => Held(r) # tls[r] BY <1>0, <1>3 DEF SpareInv
<1>5. Held(r) # Nil => Fits(peer'[Held(r)'], req'[r].host) BY <1>0 DEF SockInv
<1>6. tls[r] # Nil => peer'[tls'[r]] \in SslHosts BY <1>0, <1>3 DEF SpareInv
<1>7. ASSUME NEW f \in mine, peer'[f] = Nil PROVE line'[f] = <<>>
  <2>1. f \in Fds BY <1>1 DEF Mine, FreeFds
  <2>2. f # Held(r)
    <3>1. SUFFICES ASSUME f = Held(r) PROVE FALSE OBVIOUS
    <3>2. Held(r) # Nil BY <2>1, <3>1, PoolAssumption
    <3>3. req[r].host \in Hosts BY <3>2, HeldType
    <3>4. QED BY <1>0, <1>7, <3>1, <3>2, <3>3, FitsOpen DEF SockInv
  <2>3. QED BY <1>0, <1>7, <2>1, <2>2 DEF LineInv
<1>8. ASSUME NEW f \in mine, peer'[f] # Nil PROVE f = Held(r)' \/ f = tls'[r] \/ f \in lost'
  BY <1>8 DEF Mine, FreeFds
<1>9. \A f \in Fds \ mine : peer'[f] = peer[f] /\ line'[f] = line[f]
  BY <1>2, PoolAssumption
<1> HIDE DEF mine
<1>10. mine = Mine(r) \cup FreeFds BY DEF mine
<1>11. \A f : f # Nil /\ (f = Held(r)' \/ f = tls'[r]) => f \in mine BY <1>2, <1>3
<1>12. QED BY <1>4, <1>5, <1>6, <1>7, <1>8, <1>9, <1>10, <1>11, LocalStep

\* The request closes the descriptors of a set that has no others than its own,
\* and it has no others then, unless its stream is not among them.
LEMMA LocalDrop ==
  ASSUME TypeOK, PcInv, RunInv, TypeOK', PcInv', NEW r \in Requests, Local(r), lost' = lost,
         Held(r)' = Nil, NEW fs, Held(r) # Nil => Held(r) \in fs, fs \subseteq {Held(r), tls[r], Nil},
         CloseFds(fs), \A q \in Requests : q # r => tls'[q] = tls[q],
         \/ tls'[r] = Nil /\ tls[r] \in fs
         \/ tls'[r] = tls[r] /\ tls[r] \notin fs \ {Nil}
  PROVE  RunInv'
<1> DEFINE mine == Mine(r) \cup FreeFds
<1>0. SockInv /\ SpareInv /\ LineInv BY DEF RunInv
<1>1. Held(r) \in Fds \cup {Nil} /\ tls[r] \in Fds \cup {Nil} BY HeldType DEF TypeOK
<1>2. tls[r] # Nil => tls[r] \in mine /\ tls[r] \in Spare BY InSpare DEF Mine
<1>3. \A f \in Fds : f \in fs => peer'[f] = Nil /\ line'[f] = <<>> BY DEF CloseFds
<1>4. \A f \in Fds : f \notin fs => peer'[f] = peer[f] /\ line'[f] = line[f] BY DEF CloseFds
<1>5. \A f \in fs : f = Nil \/ f \in mine BY DEF Mine
<1>6. \A f \in mine : f \in Fds BY <1>1 DEF Mine, FreeFds
<1>7. Nil \notin Fds BY PoolAssumption
<1>8. tls'[r] # Nil => peer'[tls'[r]] \in SslHosts BY <1>0, <1>1, <1>2, <1>4 DEF SpareInv
<1>9. ASSUME NEW f \in mine, peer'[f] # Nil PROVE f = Held(r)' \/ f = tls'[r] \/ f \in lost'
  <2>1. f \in Fds /\ f \notin fs /\ peer[f] # Nil BY <1>3, <1>4, <1>6, <1>9
  <2>2. f = tls[r] BY <2>1, <1>7 DEF Mine, FreeFds
  <2>3. QED BY <1>7, <2>1, <2>2
<1>10. ASSUME NEW f \in mine, peer'[f] = Nil PROVE line'[f] = <<>>
  BY <1>0, <1>3, <1>4, <1>6, <1>10 DEF LineInv
<1>11. \A f \in Fds \ mine : peer'[f] = peer[f] /\ line'[f] = line[f] BY <1>4, <1>5, <1>7
<1>12. \A f : f # Nil /\ (f = Held(r)' \/ f = tls'[r]) => f \in mine BY <1>2
<1>13. RequestLine(r)' BY DEF RequestLine
<1> HIDE DEF mine
<1>14. mine = Mine(r) \cup FreeFds BY DEF mine
<1>15. QED BY <1>8, <1>9, <1>10, <1>11, <1>12, <1>13, <1>14, LocalStep

\* The request moves its descriptors between its socket and its stream.
LEMMA LocalMove ==
  ASSUME TypeOK, PcInv, RunInv, TypeOK', PcInv', NEW r \in Requests, Local(r),
         UNCHANGED <<lost, peer, line>>, \A q \in Requests : q # r => tls'[q] = tls[q],
         {Held(r)', tls'[r]} \ {Nil} = Mine(r),
         Held(r)' # Nil => Fits(peer[Held(r)'], req'[r].host) /\ Held(r)' # tls'[r],
         tls'[r] # Nil => peer[tls'[r]] \in SslHosts,
         RequestLine(r)'
  PROVE  RunInv'
<1> DEFINE mine == Mine(r) \cup FreeFds
<1>0. LineInv BY DEF RunInv
<1>1. ASSUME NEW f \in mine, peer'[f] = Nil PROVE line'[f] = <<>>
  <2>1. f \in Fds BY HeldType DEF Mine, FreeFds, TypeOK
  <2>2. QED BY <1>0, <1>1, <2>1 DEF LineInv
<1>2. ASSUME NEW f \in mine, peer'[f] # Nil PROVE f = Held(r)' \/ f = tls'[r] \/ f \in lost'
  BY <1>2 DEF FreeFds
<1>3. \A f : f # Nil /\ (f = Held(r)' \/ f = tls'[r]) => f \in mine OBVIOUS
<1> HIDE DEF mine
<1>4. mine = Mine(r) \cup FreeFds BY DEF mine
<1>5. QED BY <1>1, <1>2, <1>3, <1>4, LocalStep

\* The socket and the stream of a request have different descriptors, and the
\* stream leads to a TLS host.
LEMMA StreamApart ==
  ASSUME TypeOK, PcInv, SockInv, SpareInv, NEW r \in Requests
  PROVE  /\ Held(r) \in Fds \cup {Nil} /\ tls[r] \in Fds \cup {Nil}
         /\ Held(r) # Nil => Held(r) # tls[r]
         /\ tls[r] # Nil => peer[tls[r]] \in SslHosts /\ peer[tls[r]] # Nil
         /\ Held(r) # Nil /\ IsSsl(r) => peer[Held(r)] \in SslHosts
<1>1. Held(r) \in Fds \cup {Nil} /\ tls[r] \in Fds \cup {Nil} BY HeldType DEF TypeOK
<1>2. tls[r] # Nil => tls[r] \in Spare BY InSpare
<1>3. Held(r) # Nil => Held(r) # tls[r] BY <1>2 DEF SpareInv
<1>4. tls[r] # Nil => peer[tls[r]] \in SslHosts BY <1>2 DEF SpareInv
<1>5. Held(r) # Nil => Fits(peer[Held(r)], req[r].host) BY DEF SockInv
<1>6. QED BY <1>1, <1>3, <1>4, <1>5, PoolAssumption DEF Fits, IsSsl

LEMMA AssignRuns ==
  ASSUME TypeOK, PcInv, RunInv, TypeOK', PcInv', NEW r \in Requests, Assign(r)
  PROVE  RunInv'
<1> DEFINE f == entry[req[r].obj].socket
<1>0. SockInv /\ SpareInv /\ LineInv BY DEF RunInv
<1>1. req[r].pc = "assign" /\ req[r].obj \in Nodes /\ f # Nil BY DEF Assign, PcInv
<1>2. f \in Fds /\ Held(r) = f BY <1>1, SocketOf DEF Held
<1>3. CASE req' = [req EXCEPT ![r].sock = f, ![r].pc = "write"] /\ UNCHANGED <<tls, lost, peer, line>>
  <2>1. /\ req'[r] = [pc |-> "write", host |-> req[r].host, obj |-> req[r].obj,
                      sock |-> f, force |-> req[r].force]
        /\ \A q \in Requests : q # r => req'[q] = req[q]
    BY <1>1, <1>2, <1>3, AssignReq
  <2>2. Local(r) BY <2>1 DEF Local, Assign
  <2>3. Held(r)' = f BY <2>1 DEF Held
  <2>4. RequestLine(r)' BY <1>0, <1>1, <1>2, <1>3, <2>1, <2>3 DEF LineInv, RequestLine, Clean
  <2>a. req'[r].host = req[r].host /\ peer' = peer /\ line' = line /\ Held(r)' = Held(r)
    BY <1>2, <1>3, <2>1, <2>3
  <2>5. QED BY <1>3, <2>2, <2>a, <2>4, LocalKeep
<1>4. ASSUME req' = [req EXCEPT ![r].pc = "connect"], tls' = [tls EXCEPT ![r] = Nil]
      PROVE  /\ Local(r) /\ Held(r)' = Nil /\ tls'[r] = Nil
             /\ \A q \in Requests : q # r => tls'[q] = tls[q]
  <2>1. /\ req'[r] = [pc |-> "connect", host |-> req[r].host, obj |-> req[r].obj,
                      sock |-> Nil, force |-> req[r].force]
        /\ \A q \in Requests : q # r => req'[q] = req[q]
    BY <1>1, <1>4, AssignReq
  <2>2. Local(r) BY <2>1 DEF Local, Assign
  <2>3. Held(r)' = Nil BY <2>1 DEF Held
  <2>4. QED BY <1>4, <2>2, <2>3 DEF TypeOK
<1>5. CASE /\ req' = [req EXCEPT ![r].pc = "connect"] /\ tls' = [tls EXCEPT ![r] = Nil]
           /\ CloseFds({f, tls[r]}) /\ UNCHANGED lost
  <2> DEFINE fs == {f, tls[r]}
  <2>1. Held(r) \in fs /\ tls[r] \in fs /\ fs \subseteq {Held(r), tls[r], Nil} BY <1>2
  <2>2. CloseFds(fs) BY <1>5
  <2> HIDE DEF fs
  <2>3. /\ Local(r) /\ Held(r)' = Nil /\ tls'[r] = Nil /\ lost' = lost
        /\ \A q \in Requests : q # r => tls'[q] = tls[q]
    BY <1>4, <1>5
  <2>4. QED BY <2>1, <2>2, <2>3, LocalDrop
<1>6. CASE /\ IsSsl(r) /\ tls[r] # Nil
           /\ req' = [req EXCEPT ![r].pc = "connect"] /\ tls' = [tls EXCEPT ![r] = Nil]
           /\ CloseFds({tls[r]}) /\ lost' = lost \cup {f}
  <2> DEFINE mine == Mine(r) \cup FreeFds
  <2>1. tls[r] \in Fds /\ f # tls[r] /\ peer[f] \in SslHosts BY <1>0, <1>1, <1>2, <1>6, StreamApart
  <2>2. \A g \in Fds : g # tls[r] => peer'[g] = peer[g] /\ line'[g] = line[g] BY <1>6 DEF CloseFds
  <2>3. peer'[tls[r]] = Nil /\ line'[tls[r]] = <<>> BY <1>6, <2>1 DEF CloseFds
  <2>4. f \in mine /\ tls[r] \in mine /\ mine \subseteq Fds
    <3>1. f \in mine /\ tls[r] \in mine BY <1>1, <1>2, <1>6 DEF Mine
    <3>2. mine \subseteq Fds BY <1>2, <2>1 DEF Mine, FreeFds
    <3>3. QED BY <3>1, <3>2
  <2>5. ASSUME NEW g \in mine, peer'[g] = Nil PROVE line'[g] = <<>>
    BY <1>0, <2>2, <2>3, <2>4, <2>5 DEF LineInv
  <2>6. ASSUME NEW g \in mine, peer'[g] # Nil PROVE g \in lost'
    <3>1. g # tls[r] /\ peer[g] # Nil BY <2>2, <2>3, <2>4, <2>6
    <3>2. g = f BY <1>2, <3>1 DEF Mine, FreeFds
    <3>3. QED BY <1>6, <3>2
  <2>7. RequestLine(r)' BY <1>4, <1>6 DEF RequestLine
  <2>8. \A g \in lost' \ lost : peer'[g] \in SslHosts BY <1>2, <1>6, <2>1, <2>2
  <2> HIDE DEF mine
  <2>9. mine = Mine(r) \cup FreeFds BY DEF mine
  <2>10. lost \subseteq lost' /\ lost' \subseteq lost \cup mine BY <1>6, <2>4
  <2>11. \A g \in Fds \ mine : peer'[g] = peer[g] /\ line'[g] = line[g] BY <2>2, <2>4
  <2>12. QED BY <1>4, <1>6, <2>5, <2>6, <2>7, <2>8, <2>9, <2>10, <2>11, LocalStep
<1>7. QED BY <1>3, <1>5, <1>6 DEF Assign

LEMMA ConnectRuns ==
  ASSUME TypeOK, PcInv, RunInv, TypeOK', PcInv', NEW r \in Requests, Connect(r)
  PROVE  RunInv'
<1> DEFINE old == IF IsSsl(r) THEN {tls[r]} \ {Nil} ELSE {}
           mine == Mine(r) \cup FreeFds
<1>0. SockInv /\ SpareInv /\ LineInv BY DEF RunInv
<1>1. req[r].pc = "connect" /\ req[r].host \in Hosts /\ req[r].sock = Nil BY DEF Connect, PcInv
<1>2. PICK f \in FreeFds \cup old :
             /\ peer' = [g \in Fds |-> IF g = f THEN req[r].host
                                      ELSE IF g \in old THEN Nil ELSE peer[g]]
             /\ line' = [g \in Fds |-> IF g \in old THEN <<>> ELSE line[g]]
             /\ req' = [req EXCEPT ![r].sock = f, ![r].pc = "write"]
  BY DEF Connect
<1>3. tls[r] \in Fds \cup {Nil} /\ (tls[r] # Nil => peer[tls[r]] \in SslHosts /\ peer[tls[r]] # Nil)
  BY <1>0, StreamApart
<1>4. Held(r) = Nil BY <1>1 DEF Held
<1>5. f \in Fds /\ f # Nil /\ old \subseteq mine /\ f \in mine /\ mine \subseteq Fds
  BY <1>3, <1>4, PoolAssumption DEF Mine, FreeFds
<1>6. /\ req'[r] = [pc |-> "write", host |-> req[r].host, obj |-> req[r].obj,
                    sock |-> f, force |-> req[r].force]
      /\ \A q \in Requests : q # r => req'[q] = req[q]
  BY <1>1, <1>2, <1>5, ConnectReq
<1>a. req'[r].obj = req[r].obj /\ req'[r].host = req[r].host /\ req'[r].pc = "write" BY <1>6
<1>b. UNCHANGED <<m_ready, m_busy, entry, lost>> BY DEF Connect
<1>7. Local(r) BY <1>6, <1>a, <1>b DEF Local
<1>8. Held(r)' = f BY <1>6 DEF Held
<1>9. /\ tls'[r] = IF IsSsl(r) THEN Nil ELSE tls[r]
      /\ \A q \in Requests : q # r => tls'[q] = tls[q]
  BY DEF Connect, TypeOK
<1>10. peer'[f] = req[r].host /\ Fits(peer'[f], req'[r].host) BY <1>2, <1>5, <1>a DEF Fits
<1>11. \A g \in Fds : g # f /\ g \notin old => peer'[g] = peer[g] /\ line'[g] = line[g] BY <1>2
<1>12. \A g \in Fds : g # f /\ g \in old => peer'[g] = Nil /\ line'[g] = <<>> BY <1>2
<1>13. f # tls'[r]
  <2>1. CASE IsSsl(r) BY <1>5, <1>9, <2>1
  <2>2. CASE ~IsSsl(r)
    <3>1. peer[f] = Nil BY <2>2 DEF FreeFds
    <3>2. QED BY <1>3, <1>5, <1>9, <2>2, <3>1
  <2>3. QED BY <2>1, <2>2
<1>14. tls'[r] # Nil => peer'[tls'[r]] \in SslHosts
  BY <1>3, <1>9, <1>11, <1>13
<1>15. ASSUME NEW g \in mine, peer'[g] = Nil PROVE line'[g] = <<>>
  <2>1. g \in Fds /\ g # f BY <1>1, <1>5, <1>10, <1>15, PoolAssumption
  <2>2. QED BY <1>0, <1>11, <1>12, <1>15, <2>1 DEF LineInv
<1>16. ASSUME NEW g \in mine, peer'[g] # Nil PROVE g = f \/ g = tls'[r]
  <2>1. SUFFICES ASSUME g # f PROVE g = tls'[r] OBVIOUS
  <2>2. g \notin old /\ peer[g] # Nil BY <1>5, <1>11, <1>12, <1>16, <2>1
  <2>3. g = tls[r] /\ g # Nil BY <1>4, <2>2 DEF Mine, FreeFds
  <2>4. QED BY <1>9, <2>2, <2>3
<1>17. RequestLine(r)'
  <2>1. SUFFICES ASSUME ~IsSsl(r) PROVE line'[f] = <<>> BY <1>a, <1>8 DEF RequestLine, IsSsl
  <2>2. peer[f] = Nil BY <2>1 DEF FreeFds
  <2>3. line[f] = <<>> BY <1>0, <1>5, <2>2 DEF LineInv
  <2>4. QED BY <1>2, <1>5, <2>3
<1>18. \A g \in Fds \ mine : peer'[g] = peer[g] /\ line'[g] = line[g] BY <1>5, <1>11
<1>19. \A g : g # Nil /\ (g = f \/ g = tls'[r]) => g \in mine BY <1>5, <1>9 DEF Mine
<1> HIDE DEF mine, old
<1>20. mine = Mine(r) \cup FreeFds BY DEF mine
<1>21. QED
  BY <1>b, <1>7, <1>8, <1>9, <1>10, <1>13, <1>14, <1>15, <1>16, <1>17, <1>18, <1>19, <1>20, LocalStep

LEMMA WriteRuns ==
  ASSUME TypeOK, PcInv, RunInv, TypeOK', PcInv', NEW r \in Requests, Write(r)
  PROVE  RunInv'
<1>0. LineInv BY DEF RunInv
<1>1. req[r].pc = "write" /\ req[r].sock \in Fds BY DEF Write, PcInv
<1>2. /\ req'[r] = [pc |-> "read", host |-> req[r].host, obj |-> req[r].obj,
                    sock |-> req[r].sock, force |-> req[r].force]
      /\ \A q \in Requests : q # r => req'[q] = req[q]
  BY WriteReq
<1>3. Local(r) BY <1>2 DEF Local, Write
<1>4. Held(r) = req[r].sock /\ Held(r)' = req[r].sock BY <1>1, <1>2 DEF Held
<1>5. line' = [line EXCEPT ![req[r].sock] = Append(@, r)] /\ UNCHANGED <<tls, lost, peer>> BY DEF Write
<1>6. \A f \in Fds : f # Held(r) => line'[f] = line[f] BY <1>4, <1>5 DEF TypeOK
<1>7. RequestLine(r)'
  <2>1. SUFFICES ASSUME req[r].host \notin SslHosts
                 PROVE  line'[req[r].sock] = <<r>>
    BY <1>2, <1>4 DEF RequestLine, Clean
  <2>2. line[req[r].sock] = <<>>
    BY <1>0, <1>1, <1>4, <2>1, PoolAssumption DEF LineInv, Clean
  <2>3. line'[req[r].sock] = Append(line[req[r].sock], r) BY <1>1, <1>5 DEF TypeOK
  <2>4. QED BY <2>2, <2>3
<1>8. QED BY <1>2, <1>3, <1>4, <1>5, <1>6, <1>7, LocalKeep

LEMMA ReadRuns ==
  ASSUME TypeOK, PcInv, RunInv, TypeOK', PcInv', NEW r \in Requests, Read(r)
  PROVE  RunInv'
<1>0. LineInv BY DEF RunInv
<1>1. req[r].pc = "read" /\ req[r].sock \in Fds BY DEF Read, PcInv
<1>b. PICK b \in BOOLEAN : req' = [req EXCEPT ![r].force = ~b, ![r].pc = "close"] BY DEF Read
<1>c. (~b) \in BOOLEAN OBVIOUS
<1>2. /\ req'[r] = [pc |-> "close", host |-> req[r].host, obj |-> req[r].obj,
                    sock |-> req[r].sock, force |-> ~b]
      /\ \A q \in Requests : q # r => req'[q] = req[q]
  BY <1>1, <1>b, <1>c, CloseReq
<1>d. req'[r].obj = req[r].obj /\ req'[r].host = req[r].host BY <1>2
<1>e. UNCHANGED <<m_ready, m_busy, entry, tls, lost>> BY DEF Read
<1>3. Local(r) BY <1>2, <1>d, <1>e DEF Local
<1>4. Held(r) = req[r].sock /\ Held(r)' = req[r].sock BY <1>1, <1>2 DEF Held
<1>5. line' = [line EXCEPT ![req[r].sock] = Tail(@)] /\ peer' = peer BY DEF Read
<1>6. \A f \in Fds : f # Held(r) => line'[f] = line[f] BY <1>4, <1>5 DEF TypeOK
<1>7. RequestLine(r)'
  <2>1. SUFFICES ASSUME req[r].host \notin SslHosts
                 PROVE  line'[req[r].sock] = <<>>
    BY <1>2, <1>4 DEF RequestLine
  <2>2. line[req[r].sock] = <<r>>
    BY <1>0, <1>1, <1>4, <2>1, PoolAssumption DEF LineInv
  <2>3. line'[req[r].sock] = Tail(line[req[r].sock]) BY <1>1, <1>5 DEF TypeOK
  <2>4. QED BY <2>2, <2>3
<1>8. QED BY <1>d, <1>e, <1>3, <1>4, <1>5, <1>6, <1>7, LocalKeep

LEMMA AbortRuns ==
  ASSUME TypeOK, PcInv, RunInv, TypeOK', PcInv', NEW r \in Requests, Abort(r)
  PROVE  RunInv'
<1>1. req[r].pc \in {"connect", "write", "read"} BY DEF Abort
<1>2. /\ req'[r] = [pc |-> "close", host |-> req[r].host, obj |-> req[r].obj,
                    sock |-> req[r].sock, force |-> TRUE]
      /\ \A q \in Requests : q # r => req'[q] = req[q]
  BY <1>1, CloseReq DEF Abort
<1>d. req'[r].obj = req[r].obj /\ req'[r].host = req[r].host BY <1>2
<1>e. UNCHANGED <<m_ready, m_busy, entry, tls, lost>> BY DEF Abort
<1>3. Local(r) BY <1>2, <1>d, <1>e DEF Local
<1>4. Held(r) = req[r].sock /\ Held(r)' = req[r].sock BY <1>1, <1>2 DEF Held
<1>5. line' = line /\ peer' = peer BY DEF Abort
<1>7. RequestLine(r)' BY <1>2 DEF RequestLine, Clean
<1>8. QED BY <1>d, <1>e, <1>3, <1>4, <1>5, <1>7, LocalKeep

LEMMA CloseSocketRuns ==
  ASSUME TypeOK, PcInv, StreamInv, FlagInv, ~left, RunInv, TypeOK', PcInv',
         NEW r \in Requests, CloseSocket(r)
  PROVE  RunInv'
<1>0. OwnInv /\ SockInv /\ SpareInv /\ LineInv BY DEF RunInv
<1>1. req[r].pc = "close" BY DEF CloseSocket
<1>2. Held(r) = req[r].sock BY <1>1 DEF Held
<1>3. /\ Held(r) \in Fds \cup {Nil} /\ tls[r] \in Fds \cup {Nil}
      /\ Held(r) # Nil => Held(r) # tls[r]
      /\ tls[r] # Nil => peer[tls[r]] \in SslHosts /\ peer[tls[r]] # Nil
      /\ Held(r) # Nil /\ IsSsl(r) => peer[Held(r)] \in SslHosts
  BY <1>0, StreamApart
<1>4. \A q \in Requests : q # r => req'[q] = req[q] BY CloseSocketReq
<1>5. UNCHANGED <<m_ready, m_busy, entry, lost>> BY DEF CloseSocket
<1>6. Stream(r) # Nil => peer[Stream(r)] \in SslHosts \/ ~IsSsl(r) BY <1>2, <1>3 DEF Stream
<1>7. IsSsl(r) => {Stream(r)} \ {Nil} = Mine(r) BY <1>2 DEF StreamInv, Stream, Mine
<1>8. CASE m_enable /\ req[r].obj # Nil
  <2>1. PICK f \in Fds \cup {Nil} :
               /\ f = (IF IsSsl(r) THEN Stream(r) ELSE IF req[r].force THEN Nil ELSE req[r].sock)
               /\ req'[r] = [pc |-> "release", host |-> req[r].host, obj |-> req[r].obj,
                             sock |-> f, force |-> req[r].force]
    BY <1>8, CloseSocketReq
  <2>2. req'[r].obj = req[r].obj /\ req'[r].host = req[r].host BY <2>1
  <2>3. Local(r) BY <1>4, <1>5, <2>2 DEF Local
  <2>4. Held(r)' = f BY <2>1 DEF Held
  <2>5. CASE ~IsSsl(r) /\ req[r].force
    <3> DEFINE fs == {req[r].sock}
    <3>1. CloseFds(fs) /\ tls' = tls BY <1>8, <2>5 DEF CloseSocket
    <3>2. f = Nil BY <2>1, <2>5
    <3>3. Held(r) \in fs /\ fs \subseteq {Held(r), tls[r], Nil} /\ tls[r] \notin fs \ {Nil} BY <1>2, <1>3
    <3> HIDE DEF fs
    <3>4. QED BY <1>5, <2>3, <2>4, <3>1, <3>2, <3>3, LocalDrop
  <2>6. CASE ~IsSsl(r) /\ ~req[r].force
    <3>1. CloseFds({}) /\ tls' = tls BY <1>8, <2>6 DEF CloseSocket
    <3>2. peer' = peer /\ line' = line BY <3>1 DEF CloseFds, TypeOK
    <3>3. Held(r)' = Held(r) BY <1>2, <2>1, <2>4, <2>6
    <3>4. Clean(r) BY <1>1, <2>6 DEF Clean
    <3>5. RequestLine(r)' BY <1>0, <2>1, <3>2, <3>3, <3>4 DEF RequestLine, LineInv
    <3>6. QED BY <1>5, <2>2, <2>3, <3>1, <3>2, <3>3, <3>5, LocalKeep
  <2>7. CASE IsSsl(r)
    <3>1. tls' = [tls EXCEPT ![r] = Nil] /\ UNCHANGED <<peer, line>> BY <1>8, <2>7 DEF CloseSocket
    <3>2. tls'[r] = Nil /\ \A q \in Requests : q # r => tls'[q] = tls[q] BY <3>1 DEF TypeOK
    <3>3. f # Nil => Fits(peer[f], req'[r].host) BY <1>6, <2>1, <2>2, <2>7 DEF Fits, IsSsl
    <3>4. {Held(r)', tls'[r]} \ {Nil} = Mine(r) BY <1>7, <2>1, <2>4, <2>7, <3>2
    <3>5. RequestLine(r)' BY <2>2, <2>7 DEF RequestLine, IsSsl
    <3>6. QED BY <1>5, <2>3, <2>4, <3>1, <3>2, <3>3, <3>4, <3>5, LocalMove
  <2>8. QED BY <2>5, <2>6, <2>7
<1>9. CASE ~(m_enable /\ req[r].obj # Nil)
  <2>1. req'[r] = IdleReq BY <1>9, CloseSocketReq
  <2>2. req[r].obj = Nil BY <1>0, <1>9 DEF OwnInv, FlagInv
  <2>3. Local(r) BY <1>4, <1>5, <2>1, <2>2 DEF Local, IdleReq
  <2>4. Held(r)' = Nil BY <2>1 DEF Held, IdleReq
  <2>5. CASE ~IsSsl(r)
    <3> DEFINE fs == {req[r].sock}
    <3>1. CloseFds(fs) /\ tls' = tls BY <1>9, <2>5 DEF CloseSocket
    <3>3. Held(r) \in fs /\ fs \subseteq {Held(r), tls[r], Nil} /\ tls[r] \notin fs \ {Nil} BY <1>2, <1>3
    <3> HIDE DEF fs
    <3>4. QED BY <1>5, <2>3, <2>4, <3>1, <3>3, LocalDrop
  <2>6. CASE IsSsl(r)
    <3>1. tls' = [tls EXCEPT ![r] = Stream(r)] /\ UNCHANGED <<peer, line>> BY <1>9, <2>6 DEF CloseSocket
    <3>2. tls'[r] = Stream(r) /\ \A q \in Requests : q # r => tls'[q] = tls[q] BY <3>1 DEF TypeOK
    <3>3. tls'[r] # Nil => peer[tls'[r]] \in SslHosts BY <1>6, <2>6, <3>2
    <3>4. {Held(r)', tls'[r]} \ {Nil} = Mine(r) BY <1>7, <2>4, <2>6, <3>2
    <3>5. RequestLine(r)' BY <2>4 DEF RequestLine
    <3>6. QED BY <1>5, <2>3, <2>4, <3>1, <3>2, <3>3, <3>4, <3>5, LocalMove
  <2>7. QED BY <2>5, <2>6
<1>10. QED BY <1>8, <1>9

LEMMA ReleaseRuns ==
  ASSUME TypeOK, PcInv, RunInv, TypeOK', PcInv', NEW r \in Requests, Release(r)
  PROVE  RunInv'
<1>0. LineInv BY DEF RunInv
<1>1. req[r].pc = "release" /\ req[r].obj \in Nodes BY DEF Release, PcInv
<1>2. /\ req'[r] = [pc |-> "checkin", host |-> req[r].host, obj |-> req[r].obj,
                    sock |-> Nil, force |-> req[r].force]
      /\ \A q \in Requests : q # r => req'[q] = req[q]
  BY CheckinReq
<1>3. entry' = [entry EXCEPT ![req[r].obj].socket = req[r].sock] BY DEF Release
<1>4. /\ \A n \in Nodes : n # req[r].obj => entry'[n] = entry[n]
      /\ entry'[req[r].obj].ep = entry[req[r].obj].ep
      /\ entry'[req[r].obj].socket = req[r].sock
  BY <1>1, <1>3 DEF TypeOK
<1>d. req'[r].obj = req[r].obj /\ req'[r].host = req[r].host BY <1>2
<1>e. UNCHANGED <<m_ready, m_busy, tls, lost>> BY DEF Release
<1>5. Local(r) BY <1>2, <1>4, <1>d, <1>e DEF Local
<1>6. Held(r) = req[r].sock /\ Held(r)' = req[r].sock BY <1>1, <1>2, <1>4 DEF Held
<1>7. UNCHANGED <<peer, line>> BY DEF Release
<1>8. RequestLine(r)' BY <1>0, <1>1, <1>2, <1>6, <1>7 DEF LineInv, RequestLine, Clean
<1>9. QED BY <1>d, <1>e, <1>5, <1>6, <1>7, <1>8, LocalKeep

LEMMA DestroyRuns ==
  ASSUME TypeOK, PcInv, RunInv, TypeOK', PcInv', NEW r \in Requests, Destroy(r)
  PROVE  RunInv'
<1> DEFINE fs == {tls[r]}
<1>1. req' = req /\ req[r] = IdleReq BY DEF Destroy, PcInv
<1>2. Held(r) = Nil /\ Held(r)' = Nil BY <1>1 DEF Held, IdleReq
<1>3. UNCHANGED <<m_ready, m_busy, entry, lost>> /\ CloseFds(fs) BY DEF Destroy
<1>4. Local(r) BY <1>1, <1>3 DEF Local
<1>5. tls'[r] = Nil /\ \A q \in Requests : q # r => tls'[q] = tls[q] BY DEF Destroy, TypeOK
<1>6. tls[r] \in fs /\ fs \subseteq {Held(r), tls[r], Nil} OBVIOUS
<1> HIDE DEF fs
<1>7. QED BY <1>2, <1>3, <1>4, <1>5, <1>6, LocalDrop

\* A step that moves entries about leaves the spare descriptors to themselves.
LEMMA SpareKept ==
  ASSUME TypeOK, SpareInv, UNCHANGED <<tls, lost>>, \A f \in Spare : peer'[f] = peer[f],
         \A q \in Requests : \/ Held(q)' = Nil
                             \/ \E t \in Requests : Held(q)' = Held(t)
                             \/ \E k \in m_ready : Held(q)' = entry[k].socket,
         \A n \in m_ready' : \/ \E k \in m_ready : entry'[n].socket = entry[k].socket
                             \/ \E t \in Requests : entry'[n].socket = Held(t)
  PROVE  SpareInv' /\ Spare' = Spare
<1>1. Spare' = Spare BY DEF Spare
<1>2. Nil \notin Spare BY PoolAssumption DEF Spare
<1>3. \A f \in Spare' : peer'[f] \in SslHosts BY <1>1 DEF SpareInv
<1>4. \A q \in Requests : Held(q)' \notin Spare' BY <1>1, <1>2 DEF SpareInv
<1>5. \A n \in m_ready' : entry'[n].socket \notin Spare' BY <1>1 DEF SpareInv
<1>6. QED BY <1>1, <1>3, <1>4, <1>5 DEF SpareInv

LEMMA ExpireRuns ==
  ASSUME TypeOK, PcInv, RunInv, Expire
  PROVE  RunInv'
<1>0. OwnInv /\ SockInv /\ SpareInv /\ LineInv BY DEF RunInv
<1>1. PICK old \in SUBSET m_ready : /\ m_ready' = m_ready \ old
                                    /\ CloseFds({entry[n].socket : n \in old})
                                    /\ Erase(old)
  BY DEF Expire
<1> DEFINE fs == {entry[n].socket : n \in old}
<1>2. m_busy' = m_busy /\ req' = req /\ UNCHANGED <<tls, lost>> BY DEF Expire
<1>3. m_ready \subseteq Nodes /\ m_busy \subseteq Nodes /\ m_ready \cap m_busy = {} BY DEF TypeOK
<1>4. \A n \in Nodes \ old : entry'[n] = entry[n] BY <1>1 DEF Erase
<1>5. \A f \in Fds \ fs : peer'[f] = peer[f] /\ line'[f] = line[f] BY <1>1 DEF CloseFds
<1>6. \A f \in Fds : f \in fs => peer'[f] = Nil /\ line'[f] = <<>> BY <1>1 DEF CloseFds
<1>7. ASSUME NEW q \in Requests
      PROVE  /\ Held(q)' = Held(q) /\ Held(q) \notin fs
             /\ Held(q) # Nil => Held(q) \in Fds
  <2>1. Held(q)' = Held(q)
    <3>1. CASE req[q].pc \in {"assign", "checkin"}
      <4>1. req[q].obj \in Nodes /\ req[q].obj # Nil BY <3>1, PoolAssumption DEF PcInv
      <4>2. req[q].obj \in m_busy BY <1>0, <4>1 DEF OwnInv
      <4>3. entry'[req[q].obj] = entry[req[q].obj] BY <1>1, <1>3, <1>4, <4>2
      <4>4. QED BY <1>2, <4>3 DEF Held
    <3>2. CASE req[q].pc \notin {"assign", "checkin"} BY <1>2, <3>2 DEF Held
    <3>3. QED BY <3>1, <3>2
  <2>2. Held(q) \notin fs BY <1>0, <1>1 DEF SockInv
  <2>3. QED BY <2>1, <2>2, HeldType
<1>8. ASSUME NEW n \in m_ready'
      PROVE  /\ n \in m_ready /\ entry'[n] = entry[n]
             /\ entry[n].socket \in Fds \ fs
  <2>1. n \in m_ready /\ n \notin old BY <1>1
  <2>2. entry'[n] = entry[n] BY <1>3, <1>4, <2>1
  <2>3. entry[n].socket \notin fs BY <1>0, <1>1, <2>1 DEF SockInv
  <2>4. entry[n].socket \in Fds BY <1>0, <1>3, <2>1, SocketOf DEF SockInv
  <2>5. QED BY <2>1, <2>2, <2>3, <2>4
<1> HIDE DEF fs
<1>9. OwnInv'
  <2>1. \A n \in m_busy : entry'[n] = entry[n] BY <1>1, <1>3, <1>4
  <2>2. QED BY <1>0, <1>2, <2>1 DEF OwnInv
<1>s. SpareInv' /\ Spare' = Spare
  <2>1. \A f \in Spare : f \in Fds /\ f \notin fs BY <1>0, <1>1 DEF SpareInv, Spare, fs
  <2>2. \A f \in Spare : peer'[f] = peer[f] BY <1>5, <2>1
  <2>3. QED BY <1>0, <1>2, <1>7, <1>8, <2>2, SpareKept
<1>10. SockInv'
  <2>1. ASSUME NEW q \in Requests PROVE Held(q)' # Nil => Fits(peer'[Held(q)'], req'[q].host)
    BY <1>0, <1>2, <1>5, <1>7 DEF SockInv
  <2>2. ASSUME NEW q \in Requests, NEW p \in Requests, Held(q)' = Held(p)', q # p
        PROVE  Held(q)' = Nil
    BY <1>0, <1>7, <2>2 DEF SockInv
  <2>3. \A n \in m_ready' : /\ entry'[n].socket # Nil /\ entry'[n].ep # Nil
                            /\ Fits(peer'[entry'[n].socket], entry'[n].ep)
    BY <1>0, <1>5, <1>8 DEF SockInv
  <2>4. \A n, k \in m_ready' : entry'[n].socket = entry'[k].socket => n = k
    BY <1>0, <1>8 DEF SockInv
  <2>5. ASSUME NEW n \in m_ready', NEW q \in Requests PROVE entry'[n].socket # Held(q)'
    BY <1>0, <1>7, <1>8 DEF SockInv
  <2>6. ASSUME NEW f \in Fds, peer'[f] # Nil
        PROVE  (\E q \in Requests : Held(q)' = f) \/ (\E n \in m_ready' : entry'[n].socket = f)
               \/ f \in Spare'
    <3>0. f \notin fs /\ peer[f] # Nil BY <1>5, <1>6, <2>6
    <3>1. (\E q \in Requests : Held(q) = f) \/ (\E n \in m_ready : entry[n].socket = f) \/ f \in Spare
      BY <1>0, <3>0 DEF SockInv
    <3>2. CASE \E q \in Requests : Held(q) = f BY <1>7, <3>2
    <3>3. CASE \E n \in m_ready : entry[n].socket = f
      <4>1. PICK n \in m_ready : entry[n].socket = f BY <3>3
      <4>2. n \notin old BY <3>0, <4>1 DEF fs
      <4>3. n \in m_ready' /\ entry'[n] = entry[n] BY <1>1, <1>3, <1>4, <4>2
      <4>4. QED BY <4>1, <4>3
    <3>4. QED BY <1>s, <3>1, <3>2, <3>3
  <2>7. QED BY <2>1, <2>2, <2>3, <2>4, <2>5, <2>6 DEF SockInv
<1>11. LineInv'
  <2>1. ASSUME NEW f \in Fds, peer'[f] = Nil PROVE line'[f] = <<>>
    BY <1>0, <1>5, <1>6, <2>1 DEF LineInv
  <2>2. ASSUME NEW n \in m_ready', entry'[n].ep \notin SslHosts PROVE line'[entry'[n].socket] = <<>>
    BY <1>0, <1>5, <1>8, <2>2 DEF LineInv
  <2>3. ASSUME NEW q \in Requests PROVE RequestLine(q)'
    <3>1. RequestLine(q) BY <1>0 DEF LineInv, RequestLine
    <3>2. Held(q) # Nil => line'[Held(q)] = line[Held(q)] BY <1>5, <1>7
    <3>3. QED BY <1>2, <1>7, <3>1, <3>2 DEF RequestLine, Clean
  <2>4. QED BY <2>1, <2>2, <2>3 DEF LineInv, RequestLine
<1>12. QED BY <1>9, <1>s, <1>10, <1>11 DEF RunInv

\* A request that does without an entry.
LEMMA NoEntryRuns ==
  ASSUME TypeOK, PcInv, RunInv, TypeOK', PcInv', NEW r \in Requests, NEW h \in Hosts, req[r].pc = "idle",
         CheckedOut(r, h, Nil, Nil),
         UNCHANGED <<m_ready, m_busy, entry, tls, lost, peer, line>>
  PROVE  RunInv'
<1>1. req[r] = IdleReq BY DEF PcInv
<1>2. /\ req'[r] = [pc |-> "connect", host |-> h, obj |-> Nil, sock |-> Nil, force |-> FALSE]
      /\ \A q \in Requests : q # r => req'[q] = req[q]
  BY CheckedOutReq
<1>3. req[r].obj = Nil /\ req[r].sock = Nil /\ req'[r].obj = Nil BY <1>1, <1>2 DEF IdleReq
<1>4. Local(r) BY <1>2, <1>3 DEF Local
<1>5. Held(r) = Nil /\ Held(r)' = Nil BY <1>2, <1>3 DEF Held
<1>6. RequestLine(r)' BY <1>5 DEF RequestLine
<1>7. QED BY <1>4, <1>5, <1>6, LocalKeep

\* A ready entry goes to a request, with its descriptor.
LEMMA TakeReadyRuns ==
  ASSUME TypeOK, PcInv, RunInv, NEW r \in Requests, NEW h \in Hosts, req[r].pc = "idle",
         NEW n \in m_ready, entry[n].ep = h, m_ready' = m_ready \ {n}, m_busy' = m_busy \cup {n},
         CheckedOut(r, h, n, entry[n].socket), UNCHANGED <<entry, tls, lost, peer, line>>
  PROVE  RunInv'
<1>0. OwnInv /\ SockInv /\ SpareInv /\ LineInv BY DEF RunInv
<1>1. req[r] = IdleReq BY DEF PcInv
<1>2. m_ready \subseteq Nodes /\ m_ready \cap m_busy = {} /\ n \in Nodes /\ n # Nil
  BY PoolAssumption DEF TypeOK
<1>3. entry[n].socket # Nil /\ entry[n].socket \in Fds BY <1>0, <1>2, SocketOf DEF SockInv
<1>4. /\ req'[r] = [pc |-> "assign", host |-> h, obj |-> n, sock |-> Nil, force |-> FALSE]
      /\ \A q \in Requests : q # r => req'[q] = req[q]
  BY <1>2, <1>3, CheckedOutReq
<1>5. req'[r].obj = n /\ req'[r].host = h /\ req'[r].pc = "assign" /\ req[r].obj = Nil BY <1>1, <1>4 DEF IdleReq
<1>6. Held(r) = Nil /\ Held(r)' = entry[n].socket
  BY <1>1, <1>4 DEF Held, IdleReq
<1>7. \A q \in Requests : q # r => Held(q)' = Held(q) BY <1>4 DEF Held
<1>8. OwnInv'
  <2>1. ASSUME NEW q \in Requests, req'[q].obj # Nil
        PROVE  req'[q].obj \in m_busy' /\ entry'[req'[q].obj].ep = req'[q].host
    <3>1. CASE q = r BY <1>5, <3>1
    <3>2. CASE q # r BY <1>0, <1>4, <2>1, <3>2 DEF OwnInv
    <3>3. QED BY <3>1, <3>2
  <2>2. ASSUME NEW q \in Requests, NEW p \in Requests, req'[q].obj = req'[p].obj, q # p
        PROVE  req'[q].obj = Nil
    <3>1. \A t \in Requests : req[t].obj # n BY <1>0, <1>2 DEF OwnInv
    <3>2. QED BY <1>0, <1>4, <1>5, <2>2, <3>1 DEF OwnInv
  <2>3. ASSUME NEW k \in m_busy' PROVE \E q \in Requests : req'[q].obj = k
    <3>1. CASE k = n BY <1>5, <3>1
    <3>2. CASE k # n
      <4>1. k \in m_busy BY <3>2
      <4>2. PICK q \in Requests : req[q].obj = k BY <1>0, <4>1 DEF OwnInv
      <4>3. k # Nil BY <4>1, PoolAssumption DEF TypeOK
      <4>4. q # r BY <1>5, <4>2, <4>3
      <4>5. QED BY <1>4, <4>2, <4>4
    <3>3. QED BY <3>1, <3>2
  <2>4. QED BY <2>1, <2>2, <2>3 DEF OwnInv
<1>s. SpareInv' /\ Spare' = Spare BY <1>0, <1>6, <1>7, SpareKept
<1>9. SockInv'
  <2>1. ASSUME NEW q \in Requests PROVE Held(q)' # Nil => Fits(peer'[Held(q)'], req'[q].host)
    <3>1. CASE q = r BY <1>0, <1>5, <1>6, <3>1 DEF SockInv
    <3>2. CASE q # r BY <1>0, <1>4, <1>7, <3>2 DEF SockInv
    <3>3. QED BY <3>1, <3>2
  <2>2. ASSUME NEW q \in Requests, NEW p \in Requests, Held(q)' = Held(p)', q # p
        PROVE  Held(q)' = Nil
    BY <1>0, <1>6, <1>7, <2>2 DEF SockInv
  <2>3. \A k \in m_ready' : /\ entry'[k].socket # Nil /\ entry'[k].ep # Nil
                            /\ Fits(peer'[entry'[k].socket], entry'[k].ep)
    BY <1>0 DEF SockInv
  <2>4. \A j, k \in m_ready' : entry'[j].socket = entry'[k].socket => j = k BY <1>0 DEF SockInv
  <2>5. ASSUME NEW k \in m_ready', NEW q \in Requests PROVE entry'[k].socket # Held(q)'
    BY <1>0, <1>6, <1>7 DEF SockInv
  <2>6. ASSUME NEW f \in Fds, peer'[f] # Nil
        PROVE  (\E q \in Requests : Held(q)' = f) \/ (\E k \in m_ready' : entry'[k].socket = f)
               \/ f \in Spare'
    <3>1. (\E q \in Requests : Held(q) = f) \/ (\E k \in m_ready : entry[k].socket = f) \/ f \in Spare
      BY <1>0, <2>6 DEF SockInv
    <3>2. CASE \E q \in Requests : Held(q) = f
      <4>1. PICK q \in Requests : Held(q) = f BY <3>2
      <4>2. q # r BY <1>6, <4>1, PoolAssumption
      <4>3. Held(q)' = f BY <1>7, <4>1, <4>2
      <4>4. QED BY <4>3
    <3>3. CASE \E k \in m_ready : entry[k].socket = f
      <4>1. PICK k \in m_ready : entry[k].socket = f BY <3>3
      <4>2. CASE k = n BY <1>6, <4>1, <4>2
      <4>3. CASE k # n BY <4>1, <4>3
      <4>4. QED BY <4>2, <4>3
    <3>4. QED BY <1>s, <3>1, <3>2, <3>3
  <2>7. QED BY <2>1, <2>2, <2>3, <2>4, <2>5, <2>6 DEF SockInv
<1>10. LineInv'
  <2>1. ASSUME NEW f \in Fds, peer'[f] = Nil PROVE line'[f] = <<>> BY <1>0, <2>1 DEF LineInv
  <2>2. ASSUME NEW k \in m_ready', entry'[k].ep \notin SslHosts PROVE line'[entry'[k].socket] = <<>>
    BY <1>0, <2>2 DEF LineInv
  <2>3. ASSUME NEW q \in Requests PROVE RequestLine(q)'
    <3>1. CASE q = r BY <1>0, <1>5, <1>6, <3>1 DEF RequestLine, LineInv
    <3>2. CASE q # r
      <4>1. RequestLine(q) BY <1>0 DEF LineInv, RequestLine
      <4>2. QED BY <1>4, <1>7, <3>2, <4>1 DEF RequestLine, Clean
    <3>3. QED BY <3>1, <3>2
  <2>4. QED BY <2>1, <2>2, <2>3 DEF LineInv, RequestLine
<1>11. QED BY <1>8, <1>s, <1>9, <1>10 DEF RunInv

\* A new entry, without a connection.
LEMMA NewEntryRuns ==
  ASSUME TypeOK, PcInv, RunInv, NEW r \in Requests, NEW h \in Hosts, req[r].pc = "idle",
         NEW n \in Nodes \ (m_busy \cup m_ready), m_busy' = m_busy \cup {n},
         entry' = [entry EXCEPT ![n] = [ep |-> h, socket |-> Nil]],
         CheckedOut(r, h, n, Nil), UNCHANGED <<m_ready, tls, lost, peer, line>>
  PROVE  RunInv'
<1>0. OwnInv /\ SockInv /\ SpareInv /\ LineInv BY DEF RunInv
<1>1. req[r] = IdleReq BY DEF PcInv
<1>2. m_ready \subseteq Nodes /\ m_busy \subseteq Nodes /\ n # Nil BY PoolAssumption DEF TypeOK
<1>3. /\ \A k \in Nodes : k # n => entry'[k] = entry[k]
      /\ entry'[n] = [ep |-> h, socket |-> Nil]
  BY DEF TypeOK
<1>4. /\ req'[r] = [pc |-> "connect", host |-> h, obj |-> n, sock |-> Nil, force |-> FALSE]
      /\ \A q \in Requests : q # r => req'[q] = req[q]
  BY CheckedOutReq
<1>5. req'[r].obj = n /\ req'[r].host = h /\ req[r].obj = Nil BY <1>1, <1>4 DEF IdleReq
<1>6. Held(r) = Nil /\ Held(r)' = Nil BY <1>1, <1>4 DEF Held, IdleReq
<1>a. \A t \in Requests : req[t].obj # n BY <1>0, <1>2 DEF OwnInv
<1>7. ASSUME NEW q \in Requests PROVE Held(q)' = Held(q)
  <2>1. CASE q = r BY <1>6, <2>1
  <2>2. CASE q # r /\ req[q].pc \in {"assign", "checkin"}
    <3>1. req[q].obj \in Nodes BY <2>2 DEF PcInv
    <3>2. entry'[req[q].obj] = entry[req[q].obj] BY <1>3, <1>a, <3>1
    <3>3. req'[q] = req[q] BY <1>4, <2>2
    <3>4. QED BY <3>2, <3>3 DEF Held
  <2>3. CASE q # r /\ req[q].pc \notin {"assign", "checkin"} BY <1>4, <2>3 DEF Held
  <2>4. QED BY <2>1, <2>2, <2>3
<1>b. \A k \in m_ready : entry'[k] = entry[k] BY <1>2, <1>3
<1>8. OwnInv'
  <2>1. ASSUME NEW q \in Requests, req'[q].obj # Nil
        PROVE  req'[q].obj \in m_busy' /\ entry'[req'[q].obj].ep = req'[q].host
    <3>1. CASE q = r BY <1>3, <1>5, <3>1
    <3>2. CASE q # r
      <4>1. req'[q] = req[q] BY <1>4, <3>2
      <4>2. req[q].obj \in m_busy /\ entry[req[q].obj].ep = req[q].host BY <1>0, <2>1, <4>1 DEF OwnInv
      <4>3. entry'[req[q].obj] = entry[req[q].obj] BY <1>2, <1>3, <1>a, <4>2
      <4>4. QED BY <4>1, <4>2, <4>3
    <3>3. QED BY <3>1, <3>2
  <2>2. ASSUME NEW q \in Requests, NEW p \in Requests, req'[q].obj = req'[p].obj, q # p
        PROVE  req'[q].obj = Nil
    BY <1>0, <1>4, <1>5, <2>2, <1>a DEF OwnInv
  <2>3. ASSUME NEW k \in m_busy' PROVE \E q \in Requests : req'[q].obj = k
    <3>1. CASE k = n BY <1>5, <3>1
    <3>2. CASE k # n
      <4>1. k \in m_busy BY <3>2
      <4>2. PICK q \in Requests : req[q].obj = k BY <1>0, <4>1 DEF OwnInv
      <4>3. k # Nil BY <4>1, PoolAssumption DEF TypeOK
      <4>4. q # r BY <1>5, <4>2, <4>3
      <4>5. QED BY <1>4, <4>2, <4>4
    <3>3. QED BY <3>1, <3>2
  <2>4. QED BY <2>1, <2>2, <2>3 DEF OwnInv
<1>s. SpareInv' /\ Spare' = Spare BY <1>0, <1>7, <1>b, SpareKept
<1>9. SockInv'
  <2>1. ASSUME NEW q \in Requests PROVE Held(q)' # Nil => Fits(peer'[Held(q)'], req'[q].host)
    <3>1. CASE q = r BY <1>6, <3>1
    <3>2. CASE q # r BY <1>0, <1>4, <1>7, <3>2 DEF SockInv
    <3>3. QED BY <3>1, <3>2
  <2>2. ASSUME NEW q \in Requests, NEW p \in Requests, Held(q)' = Held(p)', q # p
        PROVE  Held(q)' = Nil
    BY <1>0, <1>7, <2>2 DEF SockInv
  <2>3. \A k \in m_ready' : /\ entry'[k].socket # Nil /\ entry'[k].ep # Nil
                            /\ Fits(peer'[entry'[k].socket], entry'[k].ep)
    BY <1>0, <1>b DEF SockInv
  <2>4. \A j, k \in m_ready' : entry'[j].socket = entry'[k].socket => j = k BY <1>0, <1>b DEF SockInv
  <2>5. ASSUME NEW k \in m_ready', NEW q \in Requests PROVE entry'[k].socket # Held(q)'
    BY <1>0, <1>7, <1>b DEF SockInv
  <2>6. ASSUME NEW f \in Fds, peer'[f] # Nil
        PROVE  (\E q \in Requests : Held(q)' = f) \/ (\E k \in m_ready' : entry'[k].socket = f)
               \/ f \in Spare'
    <3>1. (\E q \in Requests : Held(q) = f) \/ (\E k \in m_ready : entry[k].socket = f) \/ f \in Spare
      BY <1>0, <2>6 DEF SockInv
    <3>2. CASE \E q \in Requests : Held(q) = f BY <1>7, <3>2
    <3>3. CASE \E k \in m_ready : entry[k].socket = f BY <1>b, <3>3
    <3>4. QED BY <1>s, <3>1, <3>2, <3>3
  <2>7. QED BY <2>1, <2>2, <2>3, <2>4, <2>5, <2>6 DEF SockInv
<1>10. LineInv'
  <2>1. ASSUME NEW f \in Fds, peer'[f] = Nil PROVE line'[f] = <<>> BY <1>0, <2>1 DEF LineInv
  <2>2. ASSUME NEW k \in m_ready', entry'[k].ep \notin SslHosts PROVE line'[entry'[k].socket] = <<>>
    BY <1>0, <1>b, <2>2 DEF LineInv
  <2>3. ASSUME NEW q \in Requests PROVE RequestLine(q)'
    <3>1. CASE q = r BY <1>6, <3>1 DEF RequestLine
    <3>2. CASE q # r
      <4>1. RequestLine(q) BY <1>0 DEF LineInv, RequestLine
      <4>2. QED BY <1>4, <1>7, <3>2, <4>1 DEF RequestLine, Clean
    <3>3. QED BY <3>1, <3>2
  <2>4. QED BY <2>1, <2>2, <2>3 DEF LineInv, RequestLine
<1>11. QED BY <1>8, <1>s, <1>9, <1>10 DEF RunInv

\* checkin: the entry becomes ready with the descriptor, or is removed.
LEMMA CheckinRuns ==
  ASSUME TypeOK, PcInv, RunInv, NEW r \in Requests, Checkin(r)
  PROVE  RunInv'
<1> DEFINE n == req[r].obj
<1>0. OwnInv /\ SockInv /\ SpareInv /\ LineInv BY DEF RunInv
<1>1. req[r].pc = "checkin" /\ n \in Nodes /\ n # Nil BY PoolAssumption DEF Checkin, PcInv
<1>2. n \in m_busy /\ n \notin m_ready /\ m_ready \subseteq Nodes /\ m_busy \subseteq Nodes
      /\ entry[n].ep = req[r].host /\ entry[n].ep \in Hosts
  BY <1>0, <1>1 DEF OwnInv, TypeOK, PcInv
<1>3. req' = [req EXCEPT ![r] = IdleReq] /\ UNCHANGED <<tls, lost, peer, line>> BY DEF Checkin
<1>4. req'[r] = IdleReq /\ \A q \in Requests : q # r => req'[q] = req[q] BY <1>3, IdleAgain
<1>5. Held(r) = entry[n].socket /\ Held(r)' = Nil BY <1>1, <1>4 DEF Held, IdleReq
<1>6. /\ m_busy' = m_busy \ {n}
      /\ \/ entry[n].socket = Nil /\ Erase({n}) /\ m_ready' = m_ready
         \/ entry[n].socket # Nil /\ entry' = entry /\ m_ready' = m_ready \cup {n}
  BY <1>2 DEF Checkin
<1>7. \A k \in Nodes : k # n => entry'[k] = entry[k] BY <1>6 DEF Erase
<1>8. entry[n].socket # Nil => entry'[n] = entry[n] BY <1>6
<1>9. \A q \in Requests : q # r => req[q].obj # n BY <1>0, <1>1 DEF OwnInv
<1>a. ASSUME NEW q \in Requests, q # r PROVE Held(q)' = Held(q)
  <2>1. req'[q] = req[q] BY <1>4, <1>a
  <2>2. CASE req[q].pc \in {"assign", "checkin"}
    <3>1. req[q].obj \in Nodes BY <2>2 DEF PcInv
    <3>2. entry'[req[q].obj] = entry[req[q].obj] BY <1>7, <1>9, <1>a, <3>1
    <3>3. QED BY <2>1, <3>2 DEF Held
  <2>3. CASE req[q].pc \notin {"assign", "checkin"} BY <2>1, <2>3 DEF Held
  <2>4. QED BY <2>2, <2>3
<1>b. \A k \in m_ready : entry'[k] = entry[k] BY <1>2, <1>7
<1>c. \A k \in m_ready' : k \in m_ready \/ (k = n /\ entry[n].socket # Nil) BY <1>6
<1>d. m_ready \subseteq m_ready' /\ (entry[n].socket # Nil => n \in m_ready') BY <1>6
<1>e. n \in Nodes /\ n # Nil /\ n \in m_busy BY <1>1, <1>2
<1> HIDE DEF n
<1>10. OwnInv'
  <2>1. ASSUME NEW q \in Requests, req'[q].obj # Nil
        PROVE  req'[q].obj \in m_busy' /\ entry'[req'[q].obj].ep = req'[q].host
    <3>1. q # r BY <1>4, <2>1 DEF IdleReq
    <3>2. req'[q] = req[q] BY <1>4, <3>1
    <3>3. req[q].obj \in m_busy /\ entry[req[q].obj].ep = req[q].host BY <1>0, <2>1, <3>2 DEF OwnInv
    <3>4. req[q].obj # n BY <1>9, <3>1
    <3>5. entry'[req[q].obj] = entry[req[q].obj] BY <1>2, <1>7, <3>3, <3>4
    <3>6. QED BY <1>6, <3>2, <3>3, <3>4, <3>5
  <2>2. ASSUME NEW q \in Requests, NEW p \in Requests, req'[q].obj = req'[p].obj, q # p
        PROVE  req'[q].obj = Nil
    BY <1>0, <1>4, <2>2 DEF OwnInv, IdleReq
  <2>3. ASSUME NEW k \in m_busy' PROVE \E q \in Requests : req'[q].obj = k
    <3>1. k \in m_busy /\ k # n BY <1>6
    <3>2. PICK q \in Requests : req[q].obj = k BY <1>0, <3>1 DEF OwnInv
    <3>3. q # r BY <3>1, <3>2 DEF n
    <3>4. QED BY <1>4, <3>2, <3>3
  <2>4. QED BY <2>1, <2>2, <2>3 DEF OwnInv
<1>s. SpareInv' /\ Spare' = Spare
  <2>1. \A k \in m_ready' : entry'[k] = entry[k] BY <1>8, <1>b, <1>c
  <2>2. QED BY <1>0, <1>3, <1>5, <1>a, <1>c, <2>1, SpareKept
<1>11. SockInv'
  <2>1. ASSUME NEW q \in Requests PROVE Held(q)' # Nil => Fits(peer'[Held(q)'], req'[q].host)
    <3>1. CASE q = r BY <1>5, <3>1
    <3>2. CASE q # r BY <1>0, <1>3, <1>4, <1>a, <3>2 DEF SockInv
    <3>3. QED BY <3>1, <3>2
  <2>2. ASSUME NEW q \in Requests, NEW p \in Requests, Held(q)' = Held(p)', q # p
        PROVE  Held(q)' = Nil
    BY <1>0, <1>5, <1>a, <2>2 DEF SockInv
  <2>3. ASSUME NEW k \in m_ready'
        PROVE  /\ entry'[k].socket # Nil /\ entry'[k].ep # Nil
               /\ Fits(peer'[entry'[k].socket], entry'[k].ep)
    <3>1. CASE k \in m_ready BY <1>0, <1>3, <1>b, <3>1 DEF SockInv
    <3>2. CASE k = n /\ entry[n].socket # Nil
      <4>1. Fits(peer[entry[n].socket], req[r].host) BY <1>0, <1>5, <3>2 DEF SockInv
      <4>2. QED BY <1>2, <1>3, <1>8, <3>2, <4>1, PoolAssumption
    <3>3. QED BY <1>c, <3>1, <3>2
  <2>4. ASSUME NEW j \in m_ready', NEW k \in m_ready', entry'[j].socket = entry'[k].socket
        PROVE  j = k
    <3>1. \A i \in m_ready : entry[i].socket # entry[n].socket BY <1>0, <1>5 DEF SockInv
    <3>2. \A i \in m_ready' : entry'[i] = entry[i] BY <1>8, <1>b, <1>c
    <3>3. QED BY <1>0, <1>c, <2>4, <3>1, <3>2 DEF SockInv
  <2>5. ASSUME NEW k \in m_ready', NEW q \in Requests PROVE entry'[k].socket # Held(q)'
    <3>1. entry'[k] = entry[k] BY <1>8, <1>b, <1>c
    <3>2. CASE q = r BY <1>5, <2>3, <3>2
    <3>3. CASE q # r /\ k \in m_ready BY <1>0, <1>a, <3>1, <3>3 DEF SockInv
    <3>4. CASE q # r /\ k = n /\ entry[n].socket # Nil BY <1>0, <1>5, <1>a, <3>1, <3>4 DEF SockInv
    <3>5. QED BY <1>c, <3>2, <3>3, <3>4
  <2>6. ASSUME NEW f \in Fds, peer'[f] # Nil
        PROVE  (\E q \in Requests : Held(q)' = f) \/ (\E k \in m_ready' : entry'[k].socket = f)
               \/ f \in Spare'
    <3>1. (\E q \in Requests : Held(q) = f) \/ (\E k \in m_ready : entry[k].socket = f) \/ f \in Spare
      BY <1>0, <1>3, <2>6 DEF SockInv
    <3>2. CASE \E q \in Requests : Held(q) = f
      <4>1. PICK q \in Requests : Held(q) = f BY <3>2
      <4>2. CASE q # r BY <1>a, <4>1, <4>2
      <4>3. CASE q = r
        <5>1. entry[n].socket = f /\ f # Nil BY <1>5, <4>1, <4>3, PoolAssumption
        <5>2. QED BY <1>8, <1>d, <5>1
      <4>4. QED BY <4>2, <4>3
    <3>3. CASE \E k \in m_ready : entry[k].socket = f BY <1>b, <1>d, <3>3
    <3>4. QED BY <1>s, <3>1, <3>2, <3>3
  <2>7. QED BY <2>1, <2>2, <2>3, <2>4, <2>5, <2>6 DEF SockInv
<1>12. LineInv'
  <2>1. ASSUME NEW f \in Fds, peer'[f] = Nil PROVE line'[f] = <<>> BY <1>0, <1>3, <2>1 DEF LineInv
  <2>2. ASSUME NEW k \in m_ready', entry'[k].ep \notin SslHosts PROVE line'[entry'[k].socket] = <<>>
    <3>1. CASE k \in m_ready BY <1>0, <1>3, <1>b, <2>2, <3>1 DEF LineInv
    <3>2. CASE k = n /\ entry[n].socket # Nil
      <4>1. Clean(r) BY <1>1 DEF Clean
      <4>2. req[r].host \notin SslHosts BY <1>2, <1>8, <2>2, <3>2
      <4>3. line[Held(r)] = <<>> BY <1>0, <1>5, <3>2, <4>1, <4>2 DEF LineInv
      <4>4. QED BY <1>3, <1>5, <1>8, <3>2, <4>3
    <3>3. QED BY <1>c, <3>1, <3>2
  <2>3. ASSUME NEW q \in Requests PROVE RequestLine(q)'
    <3>1. CASE q = r BY <1>5, <3>1 DEF RequestLine
    <3>2. CASE q # r
      <4>1. RequestLine(q) BY <1>0 DEF LineInv, RequestLine
      <4>2. QED BY <1>3, <1>4, <1>a, <3>2, <4>1 DEF RequestLine, Clean
    <3>3. QED BY <3>1, <3>2
  <2>4. QED BY <2>1, <2>2, <2>3 DEF LineInv, RequestLine
<1>13. QED BY <1>10, <1>s, <1>11, <1>12 DEF RunInv

LEMMA RunStep ==
  ASSUME TypeOK, PcInv, StreamInv, FlagInv, ~left /\ ~stopped => RunInv, [Next]_vars,
         TypeOK', PcInv', ~left', ~stopped'
  PROVE  RunInv'
<1>1. ~left /\ ~stopped
  <2>1. CASE UNCHANGED vars \/ Start \/ Expire BY <2>1 DEF vars, flags, Start, Expire
  <2>2. CASE SignalCleanup \/ Stop BY <2>2 DEF SignalCleanup, Stop
  <2>3. ASSUME NEW r \in Requests, Request(r) PROVE UNCHANGED flags
    BY <2>3 DEF Request, Checkout, NoPool, Assign, Connect, Write, Read, Abort, CloseSocket,
                Release, Checkin, Destroy
  <2>4. QED BY <2>1, <2>2, <2>3 DEF Next, flags
<1>2. RunInv BY <1>1
<1>3. CASE UNCHANGED vars \/ Start
  <2>1. UNCHANGED <<m_ready, m_busy, entry, req, tls, lost, peer, line>>
    BY <1>3 DEF vars, Start
  <2>2. /\ Spare' = Spare
        /\ \A r \in Requests : Held(r)' = Held(r) /\ Clean(r)' = Clean(r)
    BY <2>1 DEF Spare, Held, Clean
  <2>3. OwnInv' /\ SpareInv' BY <1>2, <2>1, <2>2 DEF RunInv, OwnInv, SpareInv
  <2>4. SockInv' BY <1>2, <2>1, <2>2 DEF RunInv, SockInv
  <2>5. LineInv' BY <1>2, <2>1, <2>2 DEF RunInv, LineInv
  <2>6. QED BY <2>3, <2>4, <2>5 DEF RunInv
<1>4. CASE Expire BY <1>2, <1>4, ExpireRuns
<1>5. CASE SignalCleanup \/ Stop BY <1>5 DEF SignalCleanup, Stop
<1>6. ASSUME NEW r \in Requests, NEW h \in Hosts, Checkout(r, h) PROVE RunInv'
  <2>1. req[r].pc = "idle" /\ UNCHANGED <<tls, lost, peer, line>> BY <1>6 DEF Checkout
  <2>2. CASE \E n \in m_ready :
               /\ entry[n].ep = h
               /\ m_ready' = m_ready \ {n} /\ m_busy' = m_busy \cup {n}
               /\ CheckedOut(r, h, n, entry[n].socket)
               /\ UNCHANGED entry
    BY <1>2, <2>1, <2>2, TakeReadyRuns
  <2>3. CASE /\ \E n \in Nodes \ (m_busy \cup m_ready) :
                  /\ m_busy' = m_busy \cup {n}
                  /\ entry' = [entry EXCEPT ![n] = [ep |-> h, socket |-> Nil]]
                  /\ CheckedOut(r, h, n, Nil)
             /\ UNCHANGED m_ready
    BY <1>2, <2>1, <2>3, NewEntryRuns
  <2>4. CASE CheckedOut(r, h, Nil, Nil) /\ UNCHANGED <<m_ready, m_busy, entry>>
    BY <1>2, <2>1, <2>4, NoEntryRuns
  <2>5. QED BY <1>6, <2>2, <2>3, <2>4 DEF Checkout
<1>7. ASSUME NEW r \in Requests, NEW h \in Hosts, NoPool(r, h) PROVE RunInv'
  BY <1>2, <1>7, NoEntryRuns DEF NoPool
<1>8. ASSUME NEW r \in Requests, Request(r) PROVE RunInv'
  BY <1>1, <1>2, <1>6, <1>7, <1>8, AssignRuns, ConnectRuns, WriteRuns, ReadRuns, AbortRuns,
     CloseSocketRuns, ReleaseRuns, CheckinRuns, DestroyRuns DEF Request
<1>9. QED BY <1>3, <1>4, <1>5, <1>8 DEF Next

(***************************************************************************)
(* After stop().                                                           *)
(***************************************************************************)

LEMMA StopStops ==
  ASSUME TypeOK, PcInv, RunInv, Stop
  PROVE  StoppedInv'
<1>1. OwnInv /\ SockInv /\ SpareInv BY DEF RunInv
<1>2. req' = req /\ \A r \in Requests : req[r].pc \in {"idle", "connect", "write", "read"} BY DEF Stop
<1>3. Spare' = Spare BY DEF Stop, Spare
<1>4. ASSUME NEW f \in Fds, peer'[f] # Nil
      PROVE  \/ \E r \in Requests : req'[r].sock = f /\ (IsSsl(r)' => peer'[f] \in SslHosts)
             \/ f \in Spare' /\ peer'[f] \in SslHosts
  <2>1. peer[f] # Nil /\ peer'[f] = peer[f] /\ f \notin {entry[n].socket : n \in m_busy \cup m_ready}
    BY <1>4 DEF Stop, CloseFds
  <2>2. ~ \E n \in m_ready : entry[n].socket = f BY <2>1
  <2>3. CASE f \in Spare BY <1>1, <1>3, <2>1, <2>3 DEF SpareInv
  <2>4. CASE \E r \in Requests : Held(r) = f
    <3>1. PICK r \in Requests : Held(r) = f BY <2>4
    <3>2. Held(r) = req[r].sock BY <1>2 DEF Held
    <3>3. f # Nil BY PoolAssumption
    <3>4. Fits(peer[f], req[r].host) BY <1>1, <3>1, <3>3 DEF SockInv
    <3>5. IsSsl(r)' => peer'[f] \in SslHosts BY <1>2, <2>1, <3>4 DEF Fits, IsSsl
    <3>6. QED BY <1>2, <3>1, <3>2, <3>5
  <2>5. QED BY <1>1, <2>1, <2>2, <2>3, <2>4 DEF SockInv
<1>5. QED BY <1>2, <1>4 DEF StoppedInv

LEMMA StoppedStep ==
  ASSUME TypeOK, PcInv, StreamInv, FlagInv, StoppedInv, stopped, [Next]_vars
  PROVE  StoppedInv'
<1> DEFINE Kept(f) == \/ \E q \in Requests : req'[q].sock = f /\ (IsSsl(q)' => peer'[f] \in SslHosts)
                      \/ f \in Spare' /\ peer'[f] \in SslHosts
<1>0. ~m_enable BY DEF FlagInv
<1>1. CASE UNCHANGED vars BY <1>1 DEF vars, StoppedInv, Spare, IsSsl
<1>2. CASE Start \/ Expire \/ SignalCleanup \/ Stop
  BY <1>0, <1>2 DEF Start, Expire, SignalCleanup, Stop
<1>3. ASSUME NEW r \in Requests, Request(r) PROVE StoppedInv'
  <2>1. CASE Abort(r)
    <3>1. /\ req'[r] = [pc |-> "close", host |-> req[r].host, obj |-> req[r].obj,
                        sock |-> req[r].sock, force |-> TRUE]
          /\ \A q \in Requests : q # r => req'[q] = req[q]
      BY <2>1, CloseReq DEF Abort
    <3>2. peer' = peer /\ tls' = tls /\ lost' = lost BY <2>1 DEF Abort
    <3>3. \A q \in Requests : req'[q].sock = req[q].sock /\ req'[q].host = req[q].host BY <3>1
    <3>4. \A q \in Requests : req'[q].pc \in {"idle", "connect", "write", "read", "close"}
      BY <3>1 DEF StoppedInv
    <3>5. QED BY <3>2, <3>3, <3>4 DEF StoppedInv, Spare, IsSsl
  <2>2. CASE CloseSocket(r)
    <3>1. req' = [req EXCEPT ![r] = IdleReq] /\ lost' = lost BY <1>0, <2>2 DEF CloseSocket
    <3>2. req'[r] = IdleReq /\ \A q \in Requests : q # r => req'[q] = req[q] BY <3>1, IdleAgain
    <3>3. \A q \in Requests : req'[q].pc \in {"idle", "connect", "write", "read", "close"}
      BY <3>2 DEF StoppedInv, IdleReq
    <3>4. ASSUME ~IsSsl(r), NEW f \in Fds, peer'[f] # Nil PROVE Kept(f)
      <4>1. CloseFds({req[r].sock}) /\ tls' = tls BY <1>0, <2>2, <3>4 DEF CloseSocket
      <4>2. f # req[r].sock /\ peer[f] # Nil /\ peer'[f] = peer[f] BY <3>4, <4>1 DEF CloseFds
      <4>3. Spare' = Spare BY <3>1, <4>1 DEF Spare
      <4>4. CASE \E q \in Requests : req[q].sock = f /\ (IsSsl(q) => peer[f] \in SslHosts)
        <5>1. PICK q \in Requests : req[q].sock = f /\ (IsSsl(q) => peer[f] \in SslHosts) BY <4>4
        <5>2. q # r BY <4>2, <5>1
        <5>3. QED BY <3>2, <4>2, <5>1, <5>2 DEF IsSsl
      <4>5. QED BY <4>2, <4>3, <4>4 DEF StoppedInv
    <3>5. ASSUME IsSsl(r), NEW f \in Fds, peer'[f] # Nil PROVE Kept(f)
      <4>1. tls' = [tls EXCEPT ![r] = Stream(r)] /\ peer' = peer BY <1>0, <2>2, <3>5 DEF CloseSocket
      <4>2. tls'[r] = Stream(r) /\ \A q \in Requests : q # r => tls'[q] = tls[q] BY <4>1 DEF TypeOK
      <4>3. f # Nil BY PoolAssumption
      <4>4. ASSUME NEW q \in Requests, req[q].sock = f, IsSsl(q) => peer[f] \in SslHosts
            PROVE  Kept(f)
        <5>1. CASE q = r
          <6>1. tls'[r] = f BY <4>2, <4>3, <4>4, <5>1 DEF Stream
          <6>2. QED BY <3>5, <4>1, <4>4, <5>1, <6>1 DEF Spare
        <5>2. CASE q # r BY <3>2, <4>1, <4>4, <5>2 DEF IsSsl
        <5>3. QED BY <5>1, <5>2
      <4>5. ASSUME f \in Spare PROVE f \in Spare'
        <5>1. CASE f \in lost BY <3>1, <5>1 DEF Spare
        <5>2. CASE \E q \in Requests : tls[q] = f
          <6>1. PICK q \in Requests : tls[q] = f BY <5>2
          <6>2. tls'[q] = f
            <7>1. CASE q = r
              <8>1. req[r].sock = Nil BY <3>5, <4>3, <6>1, <7>1 DEF StreamInv
              <8>2. QED BY <4>2, <6>1, <7>1, <8>1 DEF Stream
            <7>2. CASE q # r BY <4>2, <6>1, <7>2
            <7>3. QED BY <7>1, <7>2
          <6>3. QED BY <6>2 DEF Spare
        <5>3. QED BY <4>5, <5>1, <5>2 DEF Spare
      <4>6. QED BY <3>5, <4>1, <4>4, <4>5 DEF StoppedInv
    <3>6. QED BY <3>3, <3>4, <3>5 DEF StoppedInv
  <2>3. CASE Assign(r) \/ Release(r) \/ Checkin(r)
    BY <2>3 DEF Assign, Release, Checkin, StoppedInv
  <2>4. CASE Connect(r) \/ Write(r) \/ Read(r) BY <2>4 DEF Connect, Write, Read
  <2>5. CASE \E h \in Hosts : Checkout(r, h) \/ NoPool(r, h) BY <1>0, <2>5 DEF Checkout, NoPool
  <2>6. CASE Destroy(r)
    <3>1. req' = req /\ lost' = lost /\ CloseFds({tls[r]}) BY <2>6 DEF Destroy
    <3>2. \A q \in Requests : q # r => tls'[q] = tls[q] BY <2>6 DEF Destroy, TypeOK
    <3>3. ASSUME NEW f \in Fds, peer'[f] # Nil PROVE Kept(f)
      <4>1. f # tls[r] /\ peer[f] # Nil /\ peer'[f] = peer[f] BY <3>1, <3>3 DEF CloseFds
      <4>2. f \in Spare => f \in Spare' BY <3>1, <3>2, <4>1 DEF Spare
      <4>3. QED BY <3>1, <4>1, <4>2 DEF StoppedInv, IsSsl
    <3>4. QED BY <3>1, <3>3 DEF StoppedInv
  <2>7. QED BY <1>3, <2>1, <2>2, <2>3, <2>4, <2>5, <2>6 DEF Request
<1>4. QED BY <1>1, <1>2, <1>3 DEF Next

(***************************************************************************)
(* The invariant and its consequences.                                     *)
(***************************************************************************)

LEMMA InitIInv == Init => IInv
<1> SUFFICES ASSUME Init PROVE IInv OBVIOUS
<1>1. \A r \in Requests : req[r] = IdleReq /\ Held(r) = Nil BY DEF Init, Held, IdleReq
<1>2. TypeOK
  <2>1. ReqType BY <1>1, IdleReqType DEF ReqType, Init
  <2>2. EntryType
    <3>1. FreeNode \in [ep: Hosts \cup {Nil}, socket: Fds \cup {Nil}] BY DEF FreeNode
    <3>2. QED BY <3>1 DEF EntryType, Init
  <2>3. LineType BY DEF LineType, Init
  <2>4. ListType BY DEF ListType, Init
  <2>5. FlagType BY DEF FlagType, Init
  <2>6. SpareType BY DEF SpareType, Init
  <2>7. QED BY <2>1, <2>2, <2>3, <2>4, <2>5, <2>6, TypeParts
<1>3. PcInv
  <2>1. \A r \in Requests : PcOf(req[r]) BY <1>1, IdleReqType
  <2>2. QED BY <2>1 DEF PcInv, PcOf
<1>4. FlagInv BY DEF FlagInv, Init
<1>5. CapacityInv
  <2>1. Cardinality(m_ready) = 0 /\ Cardinality(m_busy) = 0 BY FS_EmptySet DEF Init
  <2>2. QED BY <2>1, PoolAssumption DEF CapacityInv
<1>6. OwnInv BY <1>1 DEF OwnInv, Init, IdleReq
<1>7. SockInv BY <1>1 DEF SockInv, Init
<1>8. LineInv BY <1>1 DEF LineInv, Init
<1>9. SpareInv
  <2>1. Spare = {} BY PoolAssumption DEF Spare, Init
  <2>2. QED BY <2>1 DEF SpareInv, Init
<1>10. StreamInv BY <1>1 DEF StreamInv, IdleReq
<1>11. ~stopped BY DEF Init
<1>12. QED BY <1>2, <1>3, <1>4, <1>5, <1>6, <1>7, <1>8, <1>9, <1>10, <1>11 DEF IInv, RunInv

LEMMA StepIInv == IInv /\ [Next]_vars => IInv'
<1> SUFFICES ASSUME IInv, [Next]_vars PROVE IInv' OBVIOUS
<1>1. TypeOK /\ PcInv /\ StreamInv /\ FlagInv /\ CapacityInv BY DEF IInv
<1>2. ~left /\ ~stopped => RunInv BY DEF IInv
<1>3. ~left /\ stopped => StoppedInv BY DEF IInv
<1>4. TypeOK' /\ PcInv' BY <1>1, TypesStep
<1>5. FlagInv' BY <1>1, FlagStep
<1>6. CapacityInv' BY <1>1, CapacityStep
<1>7. ~left' /\ ~stopped' => RunInv' BY <1>1, <1>2, <1>4, RunStep
<1>8. ASSUME ~left', stopped' PROVE StoppedInv'
  <2>1. CASE Stop
    <3>1. ~left /\ ~stopped
      <4>1. left' = left /\ m_enable BY <2>1 DEF Stop
      <4>2. ~stopped BY <1>1, <4>1 DEF FlagInv
      <4>3. QED BY <1>8, <4>1, <4>2
    <3>2. QED BY <1>1, <1>2, <2>1, <3>1, StopStops
  <2>2. CASE ~Stop
    <3>1. ~left /\ stopped
      <4>1. CASE UNCHANGED vars \/ Start \/ Expire
        <5>1. left' = left /\ stopped' = stopped BY <4>1 DEF vars, flags, Start, Expire
        <5>2. QED BY <1>8, <5>1
      <4>2. CASE SignalCleanup BY <1>8, <4>2 DEF SignalCleanup
      <4>3. ASSUME NEW r \in Requests, Request(r) PROVE UNCHANGED flags
        BY <4>3 DEF Request, Checkout, NoPool, Assign, Connect, Write, Read, Abort, CloseSocket,
                    Release, Checkin, Destroy
      <4>4. CASE \E r \in Requests : Request(r)
        <5>1. left' = left /\ stopped' = stopped BY <4>3, <4>4 DEF flags
        <5>2. QED BY <1>8, <5>1
      <4>5. QED BY <2>2, <4>1, <4>2, <4>4 DEF Next
    <3>2. QED BY <1>1, <1>3, <3>1, StoppedStep
  <2>3. QED BY <2>1, <2>2
<1>9. StreamInv' BY <1>1, StreamStep
<1>10. QED BY <1>4, <1>5, <1>6, <1>7, <1>8, <1>9 DEF IInv

LEMMA Invariance == Spec => []IInv
<1>1. QED BY InitIInv, StepIInv, PTL DEF Spec

LEMMA Consequences ==
  IInv => CapacityIsKept /\ NoSharedSocket /\ AnswersMatchRequests /\ StopLeavesNothingOpen
<1> SUFFICES ASSUME IInv
             PROVE  CapacityIsKept /\ NoSharedSocket /\ AnswersMatchRequests /\ StopLeavesNothingOpen
  OBVIOUS
<1>1. TypeOK /\ PcInv /\ FlagInv /\ CapacityInv BY DEF IInv
<1>2. m_enable => ~stopped BY <1>1 DEF FlagInv
<1>3. m_enable /\ ~left => OwnInv /\ SockInv /\ SpareInv /\ LineInv BY <1>2 DEF IInv, RunInv
<1>4. CapacityIsKept
  <2>1. ASSUME m_enable, ~left, NEW n \in m_busy
        PROVE  \E r \in Requests : req[r].obj = n /\ \A q \in Requests : req[q].obj = n => q = r
    <3>1. OwnInv BY <1>3, <2>1
    <3>2. PICK r \in Requests : req[r].obj = n BY <3>1 DEF OwnInv
    <3>3. n # Nil BY <1>1, PoolAssumption DEF TypeOK
    <3>4. \A q \in Requests : req[q].obj = n => q = r BY <3>1, <3>2, <3>3 DEF OwnInv
    <3>5. QED BY <3>2, <3>4
  <2>2. QED BY <1>1, <2>1 DEF CapacityIsKept, CapacityInv
<1>5. ASSUME NEW r \in Requests, req[r].sock # Nil PROVE Held(r) = req[r].sock
  BY <1>1, <1>5 DEF Held, PcInv
<1>6. NoSharedSocket
  <2>1. SUFFICES ASSUME m_enable, ~left
                 PROVE  /\ \A r, q \in Requests : r # q => Own(r) \cap Own(q) = {}
                        /\ \A n, k \in m_ready : entry[n].socket = entry[k].socket => n = k
                        /\ \A n \in m_ready, r \in Requests : entry[n].socket \notin Own(r)
                        /\ \A n \in m_ready : entry[n].socket # Nil /\ Fits(peer[entry[n].socket], entry[n].ep)
    BY DEF NoSharedSocket
  <2>2. SockInv /\ SpareInv BY <1>3, <2>1
  <2>3. \A r \in Requests : \A f \in Own(r) : f # Nil /\ (f = Held(r) \/ (f = tls[r] /\ f \in Spare))
    BY <1>1, <1>5, InSpare DEF Own
  <2>4. ASSUME NEW r \in Requests, NEW q \in Requests, r # q, NEW f, f \in Own(r), f \in Own(q)
        PROVE  FALSE
    <3>1. f # Nil /\ (f = Held(r) \/ (f = tls[r] /\ f \in Spare)) BY <2>3, <2>4
    <3>2. f = Held(q) \/ (f = tls[q] /\ f \in Spare) BY <2>3, <2>4
    <3>3. QED BY <2>2, <2>4, <3>1, <3>2 DEF SockInv, SpareInv
  <2>5. \A n \in m_ready, r \in Requests : entry[n].socket \notin Own(r)
    BY <2>2, <2>3 DEF SockInv, SpareInv
  <2>6. \A r, q \in Requests : r # q => Own(r) \cap Own(q) = {} BY <2>4
  <2>7. QED BY <2>2, <2>5, <2>6 DEF SockInv
<1>7. AnswersMatchRequests
  <2>1. SUFFICES ASSUME m_enable, ~left, NEW r \in Requests, req[r].pc = "read"
                 PROVE  /\ Fits(peer[req[r].sock], req[r].host)
                        /\ req[r].host \notin SslHosts => line[req[r].sock] = <<r>>
    BY DEF AnswersMatchRequests
  <2>2. SockInv /\ LineInv BY <1>3, <2>1
  <2>3. req[r].sock # Nil /\ Held(r) = req[r].sock BY <1>1, <1>5, <2>1, PoolAssumption DEF PcInv
  <2>4. QED BY <2>1, <2>2, <2>3 DEF SockInv, LineInv
<1>8. StopLeavesNothingOpen
  <2>1. SUFFICES ASSUME stopped, ~left, \A r \in Requests : req[r].pc = "idle",
                        NEW f \in Fds, peer[f] # Nil
                 PROVE  peer[f] \in SslHosts /\ (f \in lost \/ \E r \in Requests : tls[r] = f)
    BY DEF StopLeavesNothingOpen, FreeFds
  <2>2. StoppedInv BY <2>1 DEF IInv
  <2>3. \A r \in Requests : req[r].sock = Nil BY <1>1, <2>1 DEF PcInv, IdleReq
  <2>4. QED BY <2>1, <2>2, <2>3, PoolAssumption DEF StoppedInv, Spare
<1>9. QED BY <1>4, <1>6, <1>7, <1>8

\* Whatever requests, timeouts, sweeps and signals do, the pool keeps no more
\* connections than m_capacity, and until the stop signal every busy entry is
\* in the hands of exactly one request: checkout and checkin neither hand an
\* entry out twice nor lose one.
THEOREM CapacityIsKeptHolds == Spec => []CapacityIsKept
<1>1. QED BY Invariance, Consequences, PTL

\* The bare descriptors that travel between entries and requests outside m_lock
\* have one owner each while the pool runs.
THEOREM NoSharedSocketHolds == Spec => []NoSharedSocket
<1>1. QED BY Invariance, Consequences, PTL

\* A request to a plain host reads only from a connection to that host, and only
\* its own answer: close(true) lets no half-used plain connection back into the
\* pool.  One to a TLS host reads from a connection to a TLS host.
THEOREM AnswersMatchRequestsHolds == Spec => []AnswersMatchRequests
<1>1. QED BY Invariance, Consequences, PTL

\* After stop() and the end of the requests under way no plain connection is
\* open, and of the TLS ones only what close leaves in the stream of a request
\* object and what execute lost when such a stream refused the socket of an
\* entry; when the stop signal had not already ended the monitor.
THEOREM StopLeavesNothingOpenHolds == Spec => []StopLeavesNothingOpen
<1>1. QED BY Invariance, Consequences, PTL

=============================================================================
