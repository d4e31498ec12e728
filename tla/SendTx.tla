------------------------------- MODULE SendTx -------------------------------
(***************************************************************************)
(* send-tx: several requests of clients that spend from one address        *)
(* (task_handlers/send_tx_handler.cpp, send_tx_handler_sync.cpp,           *)
(* create_tx_base_handler.cpp, network_handler.cpp, base_handler.h).       *)
(*                                                                         *)
(* A handler takes the nonce from the request, or asks for the number of   *)
(* transactions the address has spent and adds one; it signs, and sends    *)
(* the signed body to a proxy, the same body at every attempt.  The thread *)
(* of the session that called perform() is on its way back meanwhile, and  *)
(* the completions run on other threads.                                   *)
(*                                                                         *)
(* Nonces of different addresses do not meet, so there is one address.     *)
(* fetch-balance with its retries is one step: JsonRpcRequest is about it. *)
(***************************************************************************)
EXTENDS Integers, Sequences, FiniteSets

CONSTANTS
  Sends,       \* requests of clients
  Nonces,      \* values clients put into the field "nonce"
  Locals,      \* values of settings::system::useLocalDatabase
  Attempts,    \* settings::system::jrpc_attempts_count
  Lag,         \* how many transactions a torrent or the local database may lag behind
  MaxSpent,    \* bound on what other wallets spend from the address
  Foreign      \* stands for such a wallet

ASSUME SendAssumption ==
  /\ Foreign \notin Sends
  /\ Nonces \subseteq Nat \ {0}
  /\ Locals \subseteq BOOLEAN
  /\ Attempts \in Nat \ {0} /\ Lag \in Nat /\ MaxSpent \in Nat

VARIABLES
  local,       \* useLocalDatabase: which of the two handlers serves send-tx
  given,       \* the nonce in the request, 0 when it has none
  ledger,      \* transactions of the address the network has accepted, in order
  alive,       \* the process
  pc,          \* what the handler of a request waits for
  perform,     \* perform() has not returned yet: result() is still to be called
  first,       \* m_result.first: the answer comes later
  m_nonce, m_attempt,
  body,        \* the nonce in the signed body of m_request, 0 without one or when it is garbled
  net,         \* attempts that have left and not been handled by a proxy
  reply,       \* what has come back on the connection of the current attempt
  answers      \* what the client was sent

fixed == <<local, given>>
handler == <<pc, perform, first, m_nonce, m_attempt, body>>
network == <<ledger, net, reply>>
vars == <<fixed, handler, network, alive, answers>>

Spent == Len(ledger)

TypeOK ==
  /\ local \in Locals
  /\ given \in [Sends -> Nonces \cup {0}]
  /\ ledger \in Seq([send: Sends \cup {Foreign}, nonce: Nat])
  /\ alive \in BOOLEAN
  /\ pc \in [Sends -> {"new", "balance", "sending", "answered"}]
  /\ perform \in [Sends -> BOOLEAN] /\ first \in [Sends -> BOOLEAN]
  /\ m_nonce \in [Sends -> Nat] /\ m_attempt \in [Sends -> 0..Attempts]
  /\ body \in [Sends -> Nat]
  /\ net \subseteq [send: Sends, attempt: 1..Attempts, nonce: Nat]
  /\ reply \in [Sends -> {"none", "ok", "bare", "error"}]
  /\ answers \in [Sends -> Seq({"ok", "error", "garbled"})]

Init ==
  /\ local \in Locals
  /\ given \in [Sends -> Nonces \cup {0}]
  /\ ledger = <<>> /\ net = {} /\ reply = [s \in Sends |-> "none"]
  /\ alive = TRUE
  /\ pc = [s \in Sends |-> "new"]
  /\ perform = [s \in Sends |-> FALSE] /\ first = [s \in Sends |-> FALSE]
  /\ m_nonce = [s \in Sends |-> 0] /\ m_attempt = [s \in Sends |-> 0]
  /\ body = [s \in Sends |-> 0]
  /\ answers = [s \in Sends |-> <<>>]

(***************************************************************************)
(* The network (external).                                                 *)
(***************************************************************************)

\* Numbers of spent transactions that a torrent or the local database may report.
Reported == {c \in 0..Spent : Spent - c <= Lag}

\* The connection on which attempt m was sent is open.
Waiting(m) == alive /\ pc[m.send] = "sending" /\ m_attempt[m.send] = m.attempt

Accepted(s) == \E i \in 1..Spent : ledger[i].send = s

\* A proxy handles an attempt, at once or long after the handler has given it
\* up, when its reply finds the connection closed.  The network takes a transaction
\* when its nonce is the next one.  What a proxy replies to a transaction that is
\* there already is not known.  A reply with a result may lack params ("bare").
ProxyTakes(m) ==
  /\ m \in net
  /\ net' = net \ {m}
  /\ LET next == m.nonce = Spent + 1
     IN  /\ ledger' = IF next THEN Append(ledger, [send |-> m.send, nonce |-> Spent + 1]) ELSE ledger
         /\ \E what \in IF next THEN {"ok", "bare"}
                        ELSE IF Accepted(m.send) THEN {"ok", "error"} ELSE {"error"} :
              reply' = IF Waiting(m) THEN [reply EXCEPT ![m.send] = what] ELSE reply
  /\ UNCHANGED <<fixed, handler, alive, answers>>

\* Another wallet spends from the same address.
ForeignSpend ==
  /\ Cardinality({i \in 1..Spent : ledger[i].send = Foreign}) < MaxSpent
  /\ ledger' = Append(ledger, [send |-> Foreign, nonce |-> Spent + 1])
  /\ UNCHANGED <<fixed, handler, net, reply, alive, answers>>

(***************************************************************************)
(* Handlers.                                                               *)
(***************************************************************************)

\* What m_writer.stringify() yields on one thread while perform() may be in
\* result(), which writes the same buffer, on another.
Stringified(s, text, garbled) == IF perform[s] THEN {text, garbled} ELSE {text}

\* send_response of base_network_handler
Answer(s, text) ==
  \E t \in Stringified(s, text, "garbled") : answers' = [answers EXCEPT ![s] = Append(@, t)]

\* build_request, or make_json for a given transaction, and execute of
\* base_network_handler: the body is fixed, and the first attempt leaves.
Execute(s, nonce) ==
  /\ m_nonce' = [m_nonce EXCEPT ![s] = nonce]
  /\ \E b \in Stringified(s, nonce, 0) :
       /\ body' = [body EXCEPT ![s] = b]
       /\ net' = net \cup {[send |-> s, attempt |-> 1, nonce |-> b]}
  /\ first' = [first EXCEPT ![s] = TRUE]
  /\ m_attempt' = [m_attempt EXCEPT ![s] = 1]
  /\ pc' = [pc EXCEPT ![s] = "sending"]

\* The request is not valid JSON, fails the schema or a check of its parameters,
\* the keys cannot be read, or the transaction cannot be built: prepare sets an
\* error, perform returns it and the session sends it.
Refuse(s) ==
  /\ alive /\ pc[s] = "new"
  /\ answers' = [answers EXCEPT ![s] = Append(@, "error")]
  /\ pc' = [pc EXCEPT ![s] = "answered"]
  /\ UNCHANGED <<fixed, network, alive, perform, first, m_nonce, m_attempt, body>>

\* The nonce comes with the request, in the field "nonce" or inside
\* "transaction".
SendGiven(s) ==
  /\ alive /\ pc[s] = "new" /\ given[s] # 0
  /\ Execute(s, given[s])
  /\ perform' = [perform EXCEPT ![s] = TRUE]
  /\ UNCHANGED <<fixed, ledger, reply, alive, answers>>

\* send_tx_handler_sync takes it from the local database.
SendLocal(s) ==
  /\ alive /\ pc[s] = "new" /\ given[s] = 0 /\ local
  /\ \E countSpent \in Reported : Execute(s, countSpent + 1)
  /\ perform' = [perform EXCEPT ![s] = TRUE]
  /\ UNCHANGED <<fixed, ledger, reply, alive, answers>>

\* Mutant: prepare_params does not say that the answer comes later.
FetchBalanceSync(s) ==
  /\ alive /\ pc[s] = "new" /\ given[s] = 0 /\ ~local
  /\ perform' = [perform EXCEPT ![s] = TRUE]
  /\ pc' = [pc EXCEPT ![s] = "balance"]
  /\ UNCHANGED <<fixed, network, alive, answers, first, m_nonce, m_attempt, body>>

\* send_tx_handler asks a torrent.
FetchBalance(s) ==
  /\ alive /\ pc[s] = "new" /\ given[s] = 0 /\ ~local
  /\ first' = [first EXCEPT ![s] = TRUE]
  /\ perform' = [perform EXCEPT ![s] = TRUE]
  /\ pc' = [pc EXCEPT ![s] = "balance"]
  /\ UNCHANGED <<fixed, network, alive, answers, m_nonce, m_attempt, body>>

\* perform returns, and the session sends the result unless it comes later.
Return(s) ==
  /\ alive /\ perform[s]
  /\ perform' = [perform EXCEPT ![s] = FALSE]
  /\ answers' = IF first[s] THEN answers ELSE [answers EXCEPT ![s] = Append(@, "error")]
  /\ UNCHANGED <<fixed, network, alive, pc, first, m_nonce, m_attempt, body>>

\* Mutant: the nonce is the number of transactions behind the next one.
OnGetBalanceAhead(s) ==
  /\ alive /\ pc[s] = "balance"
  /\ \E count_spent \in Reported : Execute(s, count_spent + 2)
  /\ UNCHANGED <<fixed, ledger, reply, alive, answers, perform>>

\* on_get_balance with a number of spent transactions
OnGetBalance(s) ==
  /\ alive /\ pc[s] = "balance"
  /\ \E count_spent \in Reported : Execute(s, count_spent + 1)
  /\ UNCHANGED <<fixed, ledger, reply, alive, answers, perform>>

\* ... with an error, an unusable reply, none at all, or build_request fails.
OnBalanceError(s) ==
  /\ alive /\ pc[s] = "balance"
  /\ Answer(s, "error")
  /\ pc' = [pc EXCEPT ![s] = "answered"]
  /\ UNCHANGED <<fixed, network, alive, perform, first, m_nonce, m_attempt, body>>

\* Mutant: a retry takes the nonce that is next by now.
RetrySigns(s) ==
  /\ alive /\ pc[s] = "sending" /\ m_attempt[s] < Attempts
  /\ m_attempt' = [m_attempt EXCEPT ![s] = @ + 1]
  /\ net' = net \cup {[send |-> s, attempt |-> m_attempt[s] + 1, nonce |-> Spent + 1]}
  /\ m_nonce' = [m_nonce EXCEPT ![s] = Spent + 1]
  /\ reply' = [reply EXCEPT ![s] = "none"]
  /\ UNCHANGED <<fixed, ledger, alive, answers, pc, perform, first, body>>

\* An error or a timeout of an attempt: error_handler executes the same request
\* again.  The old attempt may still reach the proxy.
Retry(s) ==
  /\ alive /\ pc[s] = "sending" /\ m_attempt[s] < Attempts
  /\ m_attempt' = [m_attempt EXCEPT ![s] = @ + 1]
  /\ net' = net \cup {[send |-> s, attempt |-> m_attempt[s] + 1, nonce |-> body[s]]}
  /\ reply' = [reply EXCEPT ![s] = "none"]
  /\ UNCHANGED <<fixed, ledger, alive, answers, pc, perform, first, m_nonce, body>>

\* ... of the last one: on_complete with an error.
GiveUp(s) ==
  /\ alive /\ pc[s] = "sending" /\ m_attempt[s] = Attempts
  /\ Answer(s, "error")
  /\ pc' = [pc EXCEPT ![s] = "answered"]
  /\ reply' = [reply EXCEPT ![s] = "none"]
  /\ UNCHANGED <<fixed, ledger, net, alive, perform, first, m_nonce, m_attempt, body>>

\* Mutant: whatever the proxy replies is taken for a result.
ResultOfAny(what) == "ok"

\* process_response: a result counts when params holds a string.
ResultOf(what) == IF what = "ok" THEN "ok" ELSE "error"

\* on_complete with the reply to the current attempt.  The local handler reads
\* params of a reply that has none, and the process dies.
OnComplete(s) ==
  /\ alive /\ pc[s] = "sending" /\ reply[s] # "none"
  /\ IF local /\ reply[s] = "bare"
     THEN alive' = FALSE /\ UNCHANGED <<pc, answers, reply>>
     ELSE /\ Answer(s, ResultOf(reply[s]))
          /\ pc' = [pc EXCEPT ![s] = "answered"]
          /\ reply' = [reply EXCEPT ![s] = "none"]
          /\ UNCHANGED alive
  /\ UNCHANGED <<fixed, ledger, net, perform, first, m_nonce, m_attempt, body>>

(***************************************************************************)
(* The specification.                                                      *)
(***************************************************************************)

Handler(s) ==
  \/ Refuse(s) \/ SendGiven(s) \/ SendLocal(s) \/ FetchBalance(s) \/ Return(s)
  \/ OnGetBalance(s) \/ OnBalanceError(s) \/ Retry(s) \/ GiveUp(s) \/ OnComplete(s)

Next ==
  \/ \E s \in Sends : Handler(s)
  \/ \E m \in net : ProxyTakes(m)
  \/ ForeignSpend

Spec == Init /\ [][Next]_vars

\* Threads run, and every request to the network ends: by a reply, an error or a
\* timeout.  Proxies and torrents need not do anything.
FairSpec == Spec /\ \A s \in Sends : WF_vars(Handler(s))

(***************************************************************************)
(* Properties.                                                             *)
(***************************************************************************)

\* A request of a client is paid at most once, although its transaction is sent
\* again after errors and timeouts, earlier attempts arrive late, and other
\* sends use up nonces in between: every attempt carries the nonce that was
\* signed (send_tx_handler.cpp, error_handler of the request).
PaidOnce ==
  \A i, j \in 1..Spent : ledger[i].send = ledger[j].send /\ ledger[i].send # Foreign => i = j

\* A client that is told of success has paid; a client that is told of an error
\* may have paid as well.
OkIsPaid == \A s \in Sends : (\E i \in 1..Len(answers[s]) : answers[s][i] = "ok") => Accepted(s)

\* A nonce that was found automatically leaves no gap: the transaction is the
\* next one, or its place has been taken, however far torrents lag and however
\* many sends are under way.
AutoNonceFits ==
  \A s \in Sends : given[s] = 0 /\ m_nonce[s] # 0 => m_nonce[s] \in 1..(Spent + 1)

\* In the end every request has one answer and stays with it, while the process
\* lives: either the result of perform is sent or that of a completion, which may
\* come while perform is still returning.
EverySendIsAnswered ==
  \A s \in Sends : <>[](Len(answers[s]) = 1 \/ ~alive)

=============================================================================
