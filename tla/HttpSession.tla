---------------------------- MODULE HttpSession ----------------------------
(***************************************************************************)
(* One client connection: http_session.cpp, the batches of                 *)
(* json_batch_request.cpp, and the way a task handler delivers its answer  *)
(* (base_handler.h, network_handler.cpp).                                  *)
(*                                                                         *)
(* A thread of the server reads a request, processes it and, on a          *)
(* keep-alive connection, goes on to the next read at once: answers that   *)
(* need the network come later, from other threads, and a batch is         *)
(* answered by whichever thread adds its last result.                      *)
(*                                                                         *)
(* An item of a request is known by what becomes of it: answered by its    *)
(* handler at once ("sync") or later ("async"), a notification (no id),    *)
(* not a request ("invalid"), a method that does not exist ("unknown").    *)
(***************************************************************************)
EXTENDS Integers, Sequences, FiniteSets

CONSTANTS
  Scripts,     \* what clients send: sequences of requests
  Manners,     \* subset of {"waits", "pipelines"}: the ways clients send it
  KeepAlives   \* values of settings::service::keep_alive

ItemKinds == {"sync", "async", "notification", "invalid", "unknown"}

\* "denied": check_auth fails; "bad": a wrong path or verb, no JSON, or JSON that
\* is neither object nor array.
RequestType == [kind: {"denied", "bad", "single", "batch"}, keep: BOOLEAN, items: Seq(ItemKinds)]

ASSUME ScriptsAssumption ==
  /\ \A s \in Scripts : /\ s \in Seq(RequestType)
                        /\ \A i \in 1..Len(s) : s[i].kind = "single" => Len(s[i].items) = 1
  /\ Manners \subseteq {"waits", "pipelines"}
  /\ KeepAlives \subseteq BOOLEAN

VARIABLES
  script, manner, keep_setting,   \* fixed at the start
  sent,                 \* requests sent by the client
  inbox,                \* requests sent and not read
  gone,                 \* the client has closed the connection
  open,                 \* m_socket
  reading,              \* http::async_read is under way
  thread,               \* where the thread that processes a request is
  cur,                  \* the last request read
  item,                 \* and the item of it
  m_http_keep_alive,
  m_size, m_result,     \* of the batch of each request
  pending,              \* handlers of items <<request, item>> that wait for the network
  writers,              \* requests whose response is being written
  closers,              \* requests whose response is written, and that have yet to
                        \* test keep_alive
  wire,                 \* responses the client has been sent
  overtaken             \* the connection was closed behind a response when the next
                        \* request had been read (a record of the past)

fixed == <<script, manner, keep_setting>>
client == <<sent, inbox, gone>>
batch == <<m_size, m_result, pending>>
responses == <<writers, closers, wire, overtaken>>
vars == <<fixed, client, open, reading, thread, cur, item, m_http_keep_alive, batch, responses>>

Index == 1..Len(script)
Items(i) == 1..Len(script[i].items)

\* The request it answers, the items it has results for, and whether it says
\* "Connection: close".
Response == [req: Index, items: SUBSET Nat, close: BOOLEAN]

TypeOK ==
  /\ script \in Scripts /\ manner \in Manners /\ keep_setting \in KeepAlives
  /\ sent \in 0..Len(script) /\ gone \in BOOLEAN
  /\ inbox \in Seq(Index)
  /\ open \in BOOLEAN /\ reading \in BOOLEAN /\ m_http_keep_alive \in BOOLEAN
  /\ thread \in {"none", "auth", "process", "write", "after"}
  /\ cur \in 0..Len(script) /\ item \in Nat
  /\ m_size \in [Index -> Nat]
  /\ \A i \in Index : m_result[i] \subseteq Items(i) /\ Cardinality(m_result[i]) <= m_size[i]
  /\ \A p \in pending : p[1] \in Index /\ p[2] \in Items(p[1])
  /\ writers \subseteq Index /\ closers \subseteq Index
  /\ wire \in Seq(Response)
  /\ overtaken \in BOOLEAN

Init ==
  /\ script \in Scripts /\ manner \in Manners /\ keep_setting \in KeepAlives
  /\ sent = 0 /\ inbox = <<>> /\ gone = FALSE
  /\ open = TRUE /\ reading = TRUE
  /\ thread = "none" /\ cur = 0 /\ item = 1
  /\ m_http_keep_alive = FALSE
  /\ m_size = [i \in Index |-> Len(script[i].items)]
  /\ m_result = [i \in Index |-> {}]
  /\ pending = {}
  /\ writers = {} /\ closers = {} /\ wire = <<>> /\ overtaken = FALSE

(***************************************************************************)
(* The client (external).                                                  *)
(***************************************************************************)

Answered(i) == \E j \in 1..Len(wire) : wire[j].req = i

\* A single notification gets no HTTP response, and a client that waits for one
\* sends nothing more; a batch of notifications is answered with [].
Expecting(i) == script[i].kind = "single" => script[i].items # <<"notification">>

\* The last response said "Connection: close".
Told == wire # <<>> /\ wire[Len(wire)].close

\* A client that waits sends nothing behind such a response.
Send ==
  /\ open /\ ~gone /\ sent < Len(script)
  /\ manner = "waits" => ~Told /\ \A i \in 1..sent : Answered(i)
  /\ sent' = sent + 1
  /\ inbox' = Append(inbox, sent + 1)
  /\ UNCHANGED <<fixed, gone, open, reading, thread, cur, item, m_http_keep_alive, batch, responses>>

Leave ==
  /\ ~gone
  /\ manner = "waits" => \A i \in 1..sent : Answered(i)
  /\ gone' = TRUE
  /\ UNCHANGED <<fixed, sent, inbox, open, reading, thread, cur, item, m_http_keep_alive, batch, responses>>

(***************************************************************************)
(* Responses.                                                              *)
(***************************************************************************)

keep_alive == keep_setting /\ m_http_keep_alive

\* send_response up to http::write, an error of which is only logged.
Write(i) ==
  /\ i \in writers
  /\ writers' = writers \ {i} /\ closers' = closers \cup {i}
  /\ wire' = IF open THEN Append(wire, [req |-> i, items |-> m_result[i], close |-> ~keep_alive])
                     ELSE wire
  /\ UNCHANGED <<fixed, client, open, reading, thread, cur, item, m_http_keep_alive, batch, overtaken>>

\* ... and the rest of it: close unless the connection is kept.  The thread has
\* let others run in between: keep_alive is that of the last request read, or
\* false for a moment when that one is being looked at.
EndResponse(i) ==
  /\ i \in closers
  /\ closers' = closers \ {i}
  /\ open' = (open /\ keep_alive)
  /\ overtaken' = (overtaken \/ (open /\ ~keep_alive /\ cur # i))
  /\ thread' = IF thread = "write" /\ cur = i THEN "after" ELSE thread
  /\ UNCHANGED <<fixed, client, reading, cur, item, m_http_keep_alive, batch, writers, wire>>

\* The processing thread writes the response itself.
Respond ==
  /\ thread' = "write"
  /\ writers' = writers \cup {cur}

(***************************************************************************)
(* The thread that reads and processes requests.                           *)
(***************************************************************************)

\* The read ends with a request, and process_request begins; requests pipelined
\* behind it may have come into m_buf as well, and are dropped with it when run()
\* clears the buffer.
ReadRequest ==
  /\ reading /\ open /\ inbox # <<>>
  /\ \E k \in 1..Len(inbox) : inbox' = SubSeq(inbox, k + 1, Len(inbox))
  /\ reading' = FALSE
  /\ cur' = Head(inbox) /\ item' = 1
  /\ thread' = "auth"
  /\ m_http_keep_alive' = FALSE
  /\ UNCHANGED <<fixed, sent, gone, open, batch, responses>>

\* check_auth, and the version and the Connection field of the request.
CheckAuth ==
  /\ thread = "auth"
  /\ thread' = "process"
  /\ m_http_keep_alive' = (script[cur].kind # "denied" /\ script[cur].keep)
  /\ UNCHANGED <<fixed, client, open, reading, cur, item, batch, responses>>

\* The read ends with an error: the connection is closed, at either end.
ReadFails ==
  /\ reading /\ (gone \/ ~open)
  /\ reading' = FALSE
  /\ UNCHANGED <<fixed, client, open, thread, cur, item, m_http_keep_alive, batch, responses>>

Kind == script[cur].items[item]

\* process_request, when an error is answered at once.
Refuse ==
  /\ thread = "process"
  /\ \/ script[cur].kind \in {"denied", "bad"}
     \/ script[cur].kind = "batch" /\ script[cur].items = <<>>
  /\ Respond
  /\ UNCHANGED <<fixed, client, open, reading, cur, item, m_http_keep_alive, batch, closers, wire, overtaken>>

\* process_single_request
ProcessSingle ==
  /\ thread = "process" /\ script[cur].kind = "single"
  /\ \/ /\ Kind \in {"invalid", "unknown", "sync"}
        /\ m_result' = [m_result EXCEPT ![cur] = {1}]
        /\ Respond
        /\ UNCHANGED pending
     \/ /\ Kind = "notification"
        /\ thread' = "after" /\ UNCHANGED <<m_result, pending, writers>>
     \/ /\ Kind = "async"
        /\ pending' = pending \cup {<<cur, 1>>}
        /\ thread' = "after" /\ UNCHANGED <<m_result, writers>>
  /\ UNCHANGED <<fixed, client, open, reading, cur, item, m_http_keep_alive, m_size, closers, wire, overtaken>>

\* Mutant: notifications stay in the count.
BatchItemCounted ==
  /\ thread = "process" /\ script[cur].kind = "batch" /\ item \in Items(cur)
  /\ item' = item + 1
  /\ \/ Kind \in {"invalid", "unknown", "sync"} /\ m_result' = [m_result EXCEPT ![cur] = @ \cup {item}]
          /\ UNCHANGED pending
     \/ Kind = "notification" /\ UNCHANGED <<m_result, pending>>
     \/ Kind = "async" /\ pending' = pending \cup {<<cur, item>>} /\ UNCHANGED m_result
  /\ UNCHANGED <<fixed, client, open, reading, thread, cur, m_http_keep_alive, m_size, responses>>

\* Mutant: an item that is not a request is passed over like a notification.
BatchItemSkips ==
  /\ thread = "process" /\ script[cur].kind = "batch" /\ item \in Items(cur)
  /\ item' = item + 1
  /\ \/ Kind \in {"unknown", "sync"} /\ m_result' = [m_result EXCEPT ![cur] = @ \cup {item}]
          /\ UNCHANGED <<m_size, pending>>
     \/ Kind \in {"invalid", "notification"} /\ m_size' = [m_size EXCEPT ![cur] = @ - 1]
          /\ UNCHANGED <<m_result, pending>>
     \/ Kind = "async" /\ pending' = pending \cup {<<cur, item>>} /\ UNCHANGED <<m_size, m_result>>
  /\ UNCHANGED <<fixed, client, open, reading, thread, cur, m_http_keep_alive, responses>>

\* process of a batch, which holds m_lock: one item.
BatchItem ==
  /\ thread = "process" /\ script[cur].kind = "batch" /\ item \in Items(cur)
  /\ item' = item + 1
  /\ \/ /\ Kind \in {"invalid", "unknown", "sync"}
        /\ m_result' = [m_result EXCEPT ![cur] = @ \cup {item}]
        /\ UNCHANGED <<m_size, pending>>
     \/ /\ Kind = "notification"
        /\ m_size' = [m_size EXCEPT ![cur] = @ - 1]
        /\ UNCHANGED <<m_result, pending>>
     \/ /\ Kind = "async"
        /\ pending' = pending \cup {<<cur, item>>}
        /\ UNCHANGED <<m_size, m_result>>
  /\ UNCHANGED <<fixed, client, open, reading, thread, cur, m_http_keep_alive, responses>>

\* ... and behind the last item.
BatchEnd ==
  /\ thread = "process" /\ script[cur].kind = "batch"
  /\ script[cur].items # <<>> /\ item \notin Items(cur)
  /\ IF m_size[cur] = Cardinality(m_result[cur])
     THEN Respond
     ELSE thread' = "after" /\ UNCHANGED writers
  /\ UNCHANGED <<fixed, client, open, reading, cur, item, m_http_keep_alive, batch, closers, wire, overtaken>>

\* The handler of async_read: the next read, or the session is left to the
\* handlers that still refer to it.
After ==
  /\ thread = "after"
  /\ thread' = "none" /\ item' = 1
  /\ reading' = keep_alive
  /\ UNCHANGED <<fixed, client, open, cur, m_http_keep_alive, batch, responses>>

\* Mutant: handlers do not keep the session alive.
DestroyEarly ==
  /\ open /\ ~reading /\ thread = "none"
  /\ open' = FALSE
  /\ UNCHANGED <<fixed, client, reading, thread, cur, item, m_http_keep_alive, batch, responses>>

\* ~http_session: nobody refers to the session any more.
Destroy ==
  /\ open /\ ~reading /\ thread = "none" /\ pending = {} /\ writers = {} /\ closers = {}
  /\ open' = FALSE
  /\ UNCHANGED <<fixed, client, reading, thread, cur, item, m_http_keep_alive, batch, responses>>

(***************************************************************************)
(* Handlers that have waited for the network.                              *)
(***************************************************************************)

\* process holds the lock of the batch from its start until its response, if it
\* sends one, is sent.
Locked(i) == cur = i /\ thread \in {"process", "write"}

\* Mutant: send_json of a batch does not take the lock.
CompleteUnlocked(p) ==
  /\ pending' = pending \ {p}
  /\ m_result' = [m_result EXCEPT ![p[1]] = @ \cup {p[2]}]
  /\ writers' = IF script[p[1]].kind = "single" \/ m_size[p[1]] = Cardinality(m_result'[p[1]])
                THEN writers \cup {p[1]} ELSE writers
  /\ UNCHANGED <<fixed, client, open, reading, thread, cur, item, m_http_keep_alive, m_size,
                 closers, wire, overtaken>>

\* on_complete and send_json of the session or of the batch; the last result
\* sends the response of the batch.
Complete(p) ==
  /\ script[p[1]].kind = "batch" => ~Locked(p[1])
  /\ pending' = pending \ {p}
  /\ m_result' = [m_result EXCEPT ![p[1]] = @ \cup {p[2]}]
  /\ writers' = IF script[p[1]].kind = "single" \/ m_size[p[1]] = Cardinality(m_result'[p[1]])
                THEN writers \cup {p[1]} ELSE writers
  /\ UNCHANGED <<fixed, client, open, reading, thread, cur, item, m_http_keep_alive, m_size,
                 closers, wire, overtaken>>

(***************************************************************************)
(* The specification.                                                      *)
(***************************************************************************)

Server ==
  \/ ReadRequest \/ ReadFails \/ CheckAuth
  \/ Refuse \/ ProcessSingle \/ BatchItem \/ BatchEnd \/ After \/ Destroy
  \/ \E i \in writers : Write(i)
  \/ \E i \in closers : EndResponse(i)

Next == Send \/ Leave \/ Server \/ \E p \in pending : Complete(p)

Spec == Init /\ [][Next]_vars

\* The threads of the server go on, and every request to the network is answered
\* in the end: by a peer, an error or a timeout.
FairSpec == Spec /\ WF_vars(Server) /\ WF_vars(\E p \in pending : Complete(p))

(***************************************************************************)
(* Properties.                                                             *)
(***************************************************************************)

\* No request, batch or single, is answered twice: the check of the number of
\* results at the end of process and the one in send_json never both succeed.
AnsweredAtMostOnce ==
  \A j, k \in 1..Len(wire) : wire[j].req = wire[k].req => j = k

\* The response to a batch holds one result for every item that is no
\* notification, in whatever order and on whichever threads they complete.
BatchAnswersComplete ==
  \A j \in 1..Len(wire) :
    LET r == script[wire[j].req]
    IN  r.kind = "batch" =>
          wire[j].items = {k \in 1..Len(r.items) : r.items[k] # "notification"}

\* The connection is not closed on a client that waits for its answer, neither by
\* the end of the processing thread nor by the response to this or an earlier
\* request, with one exception: the thread that has written a response tests
\* keep_alive afterwards, and when the next request of the client has been read by
\* then it may meet the false of process_request, or the "close" of that request.
NotClosedBeforeAnswer ==
  manner = "waits" /\ ~open /\ ~overtaken => \A i \in 1..sent : Expecting(i) => Answered(i)

\* A client that sends one request at a time gets an answer to each, unless a
\* late test of keep_alive behind an earlier response has cut it off.
EveryRequestIsAnswered ==
  \A i \in 1..3 : (manner = "waits" /\ i <= sent /\ Expecting(i)) ~>
                     ((\E j \in 1..Len(wire) : wire[j].req = i) \/ overtaken)

=============================================================================
