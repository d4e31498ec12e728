--------------------------- MODULE SendTx_proofs ---------------------------
(***************************************************************************)
(* Proofs about SendTx, for any number of requests, attempts and foreign   *)
(* transactions and any lag of the nodes that report balances.             *)
(***************************************************************************)
EXTENDS SendTx, TLAPS

(***************************************************************************)
(* The inductive invariant.                                                *)
(***************************************************************************)

States == {"new", "balance", "sending", "answered"}

\* The part of TypeOK that the proofs need.
Types ==
  /\ given \in [Sends -> Nat]
  /\ ledger \in Seq([send: Sends \cup {Foreign}, nonce: Nat])
  /\ pc \in [Sends -> States]
  /\ m_nonce \in [Sends -> Nat]
  /\ m_attempt \in [Sends -> Nat]
  /\ body \in [Sends -> Nat]
  /\ net \subseteq [send: Sends, attempt: Nat, nonce: Nat]
  /\ reply \in [Sends -> {"none", "ok", "bare", "error"}]
  /\ answers \in [Sends -> Seq({"ok", "error", "garbled"})]

\* The requests whose body is fixed.
Signed == {s \in Sends : pc[s] \in {"sending", "answered"}}

\* Every attempt under way carries the body its request was signed with.
NetInv == \A m \in net : m.send \in Signed /\ m.nonce = body[m.send]

\* The network takes nonces in turn, and a transaction of a request here is the
\* one it signed.
LedgerInv ==
  \A i \in 1..Len(ledger) :
    /\ ledger[i].nonce = i
    /\ ledger[i].send # Foreign => ledger[i].send \in Signed /\ ledger[i].nonce = body[ledger[i].send]

IInv == Types /\ NetInv /\ LedgerInv

\* A success that has come back is that of an accepted transaction.
ReplyInv == \A s \in Sends : reply[s] = "ok" => Accepted(s)

(***************************************************************************)
(* Steps that leave the network alone.                                     *)
(***************************************************************************)

Transactions == [send: Sends \cup {Foreign}, nonce: Nat]

LEMMA EntryType ==
  ASSUME IInv, NEW i \in 1..Len(ledger)
  PROVE  ledger[i] \in Transactions
<1>1. ledger \in Seq(Transactions)
  BY DEF IInv, Types, Transactions
<1>. QED
  BY <1>1

LEMMA AppendType ==
  ASSUME IInv, NEW w \in Sends \cup {Foreign}
  PROVE  Append(ledger, [send |-> w, nonce |-> Spent + 1]) \in Seq(Transactions)
<1>1. ledger \in Seq(Transactions)
  BY DEF IInv, Types, Transactions
<1>2. Spent + 1 \in Nat
  BY <1>1 DEF Spent
<1>3. [send |-> w, nonce |-> Spent + 1] \in Transactions
  BY <1>2 DEF Transactions
<1>. QED
  BY <1>1, <1>3

LEMMA Frame ==
  ASSUME IInv,
         UNCHANGED <<ledger, net, body>>,
         Types',
         Signed \subseteq Signed'
  PROVE  IInv'
<1>1. NetInv'
  BY DEF IInv, NetInv, Types, Signed
<1>2. LedgerInv'
  <2>. SUFFICES ASSUME NEW i \in 1..Len(ledger)
                PROVE  /\ ledger[i].nonce = i
                       /\ ledger[i].send # Foreign => /\ ledger[i].send \in Signed'
                                                      /\ ledger[i].nonce = body[ledger[i].send]
    BY DEF LedgerInv
  <2>1. ledger[i].send \in Sends \cup {Foreign}
    BY EntryType DEF Transactions
  <2>. QED
    BY <2>1 DEF IInv, LedgerInv
<1>. QED
  BY <1>1, <1>2 DEF IInv

\* execute of base_network_handler: a body is signed once, before anything of the
\* request has left.
LEMMA ExecuteKeeps ==
  ASSUME IInv, NEW s \in Sends, NEW nonce \in Nat,
         pc[s] \in {"new", "balance"},
         Execute(s, nonce),
         UNCHANGED <<given, ledger, reply, answers>>
  PROVE  IInv'
<1>1. PICK b \in Nat : /\ body' = [body EXCEPT ![s] = b]
                       /\ net' = net \cup {[send |-> s, attempt |-> 1, nonce |-> b]}
  BY DEF Execute, Stringified
<1>2. Types'
  BY <1>1 DEF IInv, Types, Execute, States
<1>3. s \notin Signed /\ s \in Signed'
  BY DEF Signed, Execute, IInv, Types
<1>4. \A t \in Sends : t # s => body'[t] = body[t] /\ (t \in Signed' <=> t \in Signed)
  BY <1>1 DEF Signed, Execute, IInv, Types
<1>5. NetInv'
  <2>. SUFFICES ASSUME NEW m \in net' PROVE m.send \in Signed' /\ m.nonce = body'[m.send]
    BY DEF NetInv
  <2>1. CASE m \in net
    <3>1. m.send \in Sends /\ m.send \in Signed /\ m.nonce = body[m.send]
      BY <2>1 DEF IInv, Types, NetInv
    <3>. QED
      BY <3>1, <1>3, <1>4
  <2>2. CASE m = [send |-> s, attempt |-> 1, nonce |-> b]
    BY <2>2, <1>1, <1>3 DEF IInv, Types
  <2>. QED
    BY <1>1, <2>1, <2>2
<1>6. LedgerInv'
  <2>. SUFFICES ASSUME NEW i \in 1..Len(ledger)
                PROVE  /\ ledger[i].nonce = i
                       /\ ledger[i].send # Foreign => /\ ledger[i].send \in Signed'
                                                      /\ ledger[i].nonce = body'[ledger[i].send]
    BY DEF LedgerInv
  <2>1. ledger[i].send \in Sends \cup {Foreign}
    BY EntryType DEF Transactions
  <2>2. ledger[i].nonce = i
    BY DEF IInv, LedgerInv
  <2>3. CASE ledger[i].send # Foreign
    <3>1. /\ ledger[i].send \in Sends
          /\ ledger[i].send \in Signed
          /\ ledger[i].nonce = body[ledger[i].send]
      BY <2>1, <2>3 DEF IInv, LedgerInv
    <3>. QED
      BY <3>1, <2>2, <1>3, <1>4
  <2>. QED
    BY <2>2, <2>3
<1>. QED
  BY <1>2, <1>5, <1>6 DEF IInv

\* error_handler executes the same request again.
LEMMA RetryKeeps ==
  ASSUME IInv, NEW s \in Sends, Retry(s)
  PROVE  IInv'
<1>1. Types'
  BY DEF IInv, Types, Retry, fixed
<1>2. NetInv'
  <2>. SUFFICES ASSUME NEW m \in net' PROVE m.send \in Signed' /\ m.nonce = body'[m.send]
    BY DEF NetInv
  <2>1. CASE m \in net
    BY <2>1 DEF IInv, NetInv, Retry, Signed
  <2>2. CASE m = [send |-> s, attempt |-> m_attempt[s] + 1, nonce |-> body[s]]
    BY <2>2 DEF Retry, Signed
  <2>. QED
    BY <2>1, <2>2 DEF Retry
<1>3. LedgerInv'
  BY DEF IInv, LedgerInv, Retry, Signed
<1>. QED
  BY <1>1, <1>2, <1>3 DEF IInv

\* A transaction is appended with the nonce that is next.
LEMMA AppendKeeps ==
  ASSUME IInv, NEW w \in Sends \cup {Foreign},
         w # Foreign => w \in Signed /\ body[w] = Spent + 1,
         ledger' = Append(ledger, [send |-> w, nonce |-> Spent + 1]),
         UNCHANGED <<pc, body>>
  PROVE  LedgerInv'
<1>. DEFINE e == [send |-> w, nonce |-> Spent + 1]
<1>1. ledger \in Seq([send: Sends \cup {Foreign}, nonce: Nat])
  BY DEF IInv, Types
<1>2. /\ Len(ledger') = Len(ledger) + 1
      /\ ledger'[Len(ledger) + 1] = e
      /\ \A i \in 1..Len(ledger) : ledger'[i] = ledger[i]
  BY <1>1 DEF Spent
<1>. SUFFICES ASSUME NEW i \in 1..(Len(ledger) + 1)
              PROVE  /\ ledger'[i].nonce = i
                     /\ ledger'[i].send # Foreign => /\ ledger'[i].send \in Signed'
                                                     /\ ledger'[i].nonce = body'[ledger'[i].send]
  BY <1>2, SMT DEF LedgerInv
<1>3. CASE i = Len(ledger) + 1
  <2>1. ledger'[i] = e
    BY <1>2, <1>3
  <2>2. e.nonce = i /\ e.send = w
    BY <1>3 DEF Spent
  <2>. QED
    BY <2>1, <2>2, <1>3 DEF Signed, Spent
<1>4. CASE i # Len(ledger) + 1
  <2>1. i \in 1..Len(ledger)
    BY <1>1, <1>4
  <2>2. ledger'[i] = ledger[i]
    BY <2>1, <1>2
  <2>3. /\ ledger[i].nonce = i
        /\ ledger[i].send # Foreign => ledger[i].send \in Signed /\ ledger[i].nonce = body[ledger[i].send]
    BY <2>1 DEF IInv, LedgerInv
  <2>. QED
    BY <2>2, <2>3 DEF Signed
<1>. QED
  BY <1>3, <1>4

\* A proxy takes the next transaction or refuses it.
LEMMA ProxyKeeps ==
  ASSUME IInv, NEW m \in net, ProxyTakes(m)
  PROVE  IInv'
<1>1. /\ m.send \in Sends /\ m.nonce \in Nat
      /\ m.send \in Signed /\ m.nonce = body[m.send]
      /\ m.send # Foreign
  BY SendAssumption DEF IInv, Types, NetInv
<1>2. Types'
  <2>1. ledger' \in Seq([send: Sends \cup {Foreign}, nonce: Nat])
    <3>1. CASE m.nonce = Spent + 1
      BY <3>1, <1>1, AppendType DEF ProxyTakes, Transactions
    <3>2. CASE m.nonce # Spent + 1
      BY <3>2 DEF ProxyTakes, IInv, Types
    <3>. QED
      BY <3>1, <3>2
  <2>2. reply' \in [Sends -> {"none", "ok", "bare", "error"}]
    BY <1>1 DEF IInv, Types, ProxyTakes
  <2>3. net' \subseteq net
    BY DEF ProxyTakes
  <2>. QED
    BY <2>1, <2>2, <2>3 DEF IInv, Types, ProxyTakes, handler, fixed
<1>3. NetInv'
  BY DEF IInv, NetInv, ProxyTakes, handler, Signed
<1>4. LedgerInv'
  <2>1. CASE m.nonce = Spent + 1
    BY <2>1, <1>1, AppendKeeps DEF ProxyTakes, handler
  <2>2. CASE m.nonce # Spent + 1
    BY <2>2 DEF IInv, LedgerInv, ProxyTakes, handler, Signed
  <2>. QED
    BY <2>1, <2>2
<1>. QED
  BY <1>2, <1>3, <1>4 DEF IInv

LEMMA ForeignKeeps ==
  ASSUME IInv, ForeignSpend
  PROVE  IInv'
<1>1. Types'
  BY DEF IInv, Types, ForeignSpend, handler, fixed, Spent
<1>2. NetInv'
  BY DEF IInv, NetInv, ForeignSpend, handler, Signed
<1>3. LedgerInv'
  BY AppendKeeps DEF ForeignSpend, handler
<1>. QED
  BY <1>1, <1>2, <1>3 DEF IInv

LEMMA ReportedIsNat ==
  ASSUME IInv
  PROVE  Reported \subseteq 0..Spent /\ Spent \in Nat
BY DEF Reported, Spent, IInv, Types

LEMMA AnswerType ==
  ASSUME IInv, NEW s \in Sends, NEW text \in {"ok", "error"}, Answer(s, text)
  PROVE  answers' \in [Sends -> Seq({"ok", "error", "garbled"})]
<1>1. PICK t \in {"ok", "error", "garbled"} : answers' = [answers EXCEPT ![s] = Append(@, t)]
  BY DEF Answer, Stringified
<1>2. answers[s] \in Seq({"ok", "error", "garbled"})
  BY DEF IInv, Types
<1>3. Append(answers[s], t) \in Seq({"ok", "error", "garbled"})
  BY <1>2
<1>. QED
  BY <1>1, <1>3 DEF IInv, Types

LEMMA ErrorType ==
  ASSUME IInv, NEW s \in Sends, answers' = [answers EXCEPT ![s] = Append(@, "error")]
  PROVE  answers' \in [Sends -> Seq({"ok", "error", "garbled"})]
<1>1. answers[s] \in Seq({"ok", "error", "garbled"})
  BY DEF IInv, Types
<1>2. Append(answers[s], "error") \in Seq({"ok", "error", "garbled"})
  BY <1>1
<1>. QED
  BY <1>2 DEF IInv, Types

LEMMA HandlerKeeps ==
  ASSUME IInv, NEW s \in Sends, Handler(s)
  PROVE  IInv'
<1>1. CASE Refuse(s)
  <2>1. Types'
    BY <1>1, ErrorType DEF IInv, Types, Refuse, fixed, network, States
  <2>. QED
    BY <1>1, <2>1, Frame DEF Refuse, network, Signed, IInv, Types
<1>2. CASE SendGiven(s)
  <2>1. given[s] \in Nat
    BY DEF IInv, Types
  <2>. QED
    BY <1>2, <2>1, ExecuteKeeps DEF SendGiven, fixed
<1>3. CASE SendLocal(s)
  <2>1. PICK c \in Reported : Execute(s, c + 1)
    BY <1>3 DEF SendLocal
  <2>2. c + 1 \in Nat
    BY ReportedIsNat
  <2>. QED
    BY <1>3, <2>1, <2>2, ExecuteKeeps DEF SendLocal, fixed
<1>4. CASE FetchBalance(s)
  <2>1. Types'
    BY <1>4 DEF IInv, Types, FetchBalance, fixed, network, States
  <2>. QED
    BY <1>4, <2>1, Frame DEF FetchBalance, network, Signed, IInv, Types
<1>5. CASE Return(s)
  <2>1. answers' \in [Sends -> Seq({"ok", "error", "garbled"})]
    BY <1>5, ErrorType DEF Return, IInv, Types
  <2>2. Types'
    BY <1>5, <2>1 DEF IInv, Types, Return, fixed, network
  <2>. QED
    BY <1>5, <2>2, Frame DEF Return, network, Signed
<1>6. CASE OnGetBalance(s)
  <2>1. PICK c \in Reported : Execute(s, c + 1)
    BY <1>6 DEF OnGetBalance
  <2>2. c + 1 \in Nat
    BY ReportedIsNat
  <2>. QED
    BY <1>6, <2>1, <2>2, ExecuteKeeps DEF OnGetBalance, fixed
<1>7. CASE OnBalanceError(s)
  <2>1. answers' \in [Sends -> Seq({"ok", "error", "garbled"})]
    BY <1>7, AnswerType DEF OnBalanceError
  <2>2. Types'
    BY <1>7, <2>1 DEF IInv, Types, OnBalanceError, fixed, network, States
  <2>. QED
    BY <1>7, <2>2, Frame DEF OnBalanceError, network, Signed, IInv, Types
<1>8. CASE Retry(s)
  BY <1>8, RetryKeeps
<1>9. CASE GiveUp(s)
  <2>1. answers' \in [Sends -> Seq({"ok", "error", "garbled"})]
    BY <1>9, AnswerType DEF GiveUp
  <2>2. Types'
    BY <1>9, <2>1 DEF IInv, Types, GiveUp, fixed, States
  <2>. QED
    BY <1>9, <2>2, Frame DEF GiveUp, Signed, IInv, Types
<1>10. CASE OnComplete(s)
  <2>1. answers' \in [Sends -> Seq({"ok", "error", "garbled"})]
    <3>1. ResultOf(reply[s]) \in {"ok", "error"}
      BY DEF ResultOf
    <3>. QED
      BY <1>10, <3>1, AnswerType DEF OnComplete, IInv, Types
  <2>2. Types'
    BY <1>10, <2>1 DEF IInv, Types, OnComplete, fixed, States
  <2>. QED
    BY <1>10, <2>2, Frame DEF OnComplete, Signed, IInv, Types
<1>. QED
  BY <1>1, <1>2, <1>3, <1>4, <1>5, <1>6, <1>7, <1>8, <1>9, <1>10 DEF Handler

LEMMA InitIInv == Init => IInv
<1>. SUFFICES ASSUME Init PROVE IInv
  OBVIOUS
<1>1. given \in [Sends -> Nat]
  <2>1. Nonces \cup {0} \subseteq Nat
    BY SendAssumption
  <2>2. given \in [Sends -> Nonces \cup {0}]
    BY DEF Init
  <2>. QED
    BY <2>1, <2>2
<1>2. Types
  BY <1>1 DEF Init, Types, States
<1>3. NetInv /\ LedgerInv
  BY DEF Init, NetInv, LedgerInv
<1>. QED
  BY <1>2, <1>3 DEF IInv

LEMMA NextIInv == IInv /\ [Next]_vars => IInv'
<1>. SUFFICES ASSUME IInv, [Next]_vars PROVE IInv'
  OBVIOUS
<1>1. ASSUME NEW s \in Sends, Handler(s) PROVE IInv'
  BY <1>1, HandlerKeeps
<1>2. ASSUME NEW m \in net, ProxyTakes(m) PROVE IInv'
  BY <1>2, ProxyKeeps
<1>3. CASE ForeignSpend
  BY <1>3, ForeignKeeps
<1>4. CASE UNCHANGED vars
  <2>1. UNCHANGED <<given, ledger, net, body, pc, m_nonce, m_attempt, reply, answers>>
    BY <1>4 DEF vars, fixed, handler, network
  <2>. QED
    BY <2>1 DEF IInv, Types, NetInv, LedgerInv, Signed
<1>. QED
  BY <1>1, <1>2, <1>3, <1>4 DEF Next

LEMMA InvariantHolds == Spec => []IInv
BY InitIInv, NextIInv, PTL DEF Spec

(***************************************************************************)
(* Theorems.                                                               *)
(***************************************************************************)

\* A request of a client is paid at most once, whatever is sent again, arrives
\* late or is spent by others: the transaction the network takes has the one
\* nonce the request signed, and the network takes a nonce once.
THEOREM PaidOnceHolds == Spec => []PaidOnce
<1>1. IInv => PaidOnce
  <2>. SUFFICES ASSUME IInv, NEW i \in 1..Spent, NEW j \in 1..Spent,
                       ledger[i].send = ledger[j].send, ledger[i].send # Foreign
                PROVE  i = j
    BY DEF PaidOnce
  <2>1. ledger[i].nonce = i /\ ledger[i].nonce = body[ledger[i].send]
    BY DEF IInv, LedgerInv, Spent
  <2>2. ledger[j].nonce = j /\ ledger[j].nonce = body[ledger[j].send]
    BY DEF IInv, LedgerInv, Spent
  <2>. QED
    BY <2>1, <2>2
<1>. QED
  BY <1>1, InvariantHolds, PTL

(***************************************************************************)
(* Successes.                                                              *)
(***************************************************************************)

\* The success of a request is told and known only after the network took it.
OkInv == ReplyInv /\ OkIsPaid

\* The network only appends.
LEMMA LedgerGrows ==
  ASSUME IInv, [Next]_vars
  PROVE  /\ Len(ledger) \in Nat /\ Len(ledger') \in Nat /\ Len(ledger) <= Len(ledger')
         /\ \A i \in 1..Len(ledger) : ledger'[i] = ledger[i]
<1>1. \/ UNCHANGED ledger
      \/ \E e : ledger' = Append(ledger, e)
  BY DEF Next, Handler, ProxyTakes, ForeignSpend, Refuse, SendGiven, SendLocal, FetchBalance,
         Return, OnGetBalance, OnBalanceError, Retry, GiveUp, OnComplete, network, vars
<1>2. ledger \in Seq(Transactions)
  BY DEF IInv, Types, Transactions
<1>3. CASE UNCHANGED ledger
  BY <1>2, <1>3
<1>4. CASE \E e : ledger' = Append(ledger, e)
  <2>1. PICK e : ledger' = Append(ledger, e)
    BY <1>4
  <2>2. /\ Len(ledger') = Len(ledger) + 1
        /\ \A i \in 1..Len(ledger) : ledger'[i] = ledger[i]
    BY <2>1, <1>2
  <2>. QED
    BY <2>2, <1>2
<1>. QED
  BY <1>1, <1>3, <1>4

LEMMA AcceptedStays ==
  ASSUME IInv, [Next]_vars, NEW s \in Sends, Accepted(s)
  PROVE  Accepted(s)'
<1>1. PICK i \in 1..Len(ledger) : ledger[i].send = s
  BY DEF Accepted, Spent
<1>2. i \in 1..Len(ledger') /\ ledger'[i].send = s
  BY <1>1, LedgerGrows
<1>. QED
  BY <1>2 DEF Accepted, Spent

\* A proxy replies with success to what it takes or has taken.
LEMMA ReplyKeeps ==
  ASSUME IInv, ReplyInv, [Next]_vars
  PROVE  ReplyInv'
<1>. SUFFICES ASSUME NEW s \in Sends, reply'[s] = "ok" PROVE Accepted(s)'
  BY DEF ReplyInv
<1>1. CASE reply[s] = "ok"
  BY <1>1, AcceptedStays DEF ReplyInv
<1>2. CASE reply[s] # "ok"
  <2>1. PICK m \in net : ProxyTakes(m)
    BY <1>2 DEF Next, Handler, ForeignSpend, Refuse, SendGiven, SendLocal, FetchBalance,
       Return, OnGetBalance, OnBalanceError, Retry, GiveUp, OnComplete, network, vars, IInv, Types
  <2>2. m.send \in Sends
    BY DEF IInv, Types
  <2>3. m.send = s
    BY <1>2, <2>1, <2>2 DEF ProxyTakes, IInv, Types
  <2>4. CASE m.nonce = Spent + 1
    <3>1. ledger' = Append(ledger, [send |-> s, nonce |-> Spent + 1])
      BY <2>1, <2>3, <2>4 DEF ProxyTakes
    <3>2. ledger \in Seq(Transactions)
      BY DEF IInv, Types, Transactions
    <3>3. Len(ledger') = Len(ledger) + 1 /\ ledger'[Len(ledger) + 1].send = s
      BY <3>1, <3>2
    <3>. QED
      BY <3>2, <3>3 DEF Accepted, Spent
  <2>5. CASE m.nonce # Spent + 1
    <3>1. Accepted(s)
      BY <1>2, <2>1, <2>2, <2>3, <2>5 DEF ProxyTakes, IInv, Types
    <3>. QED
      BY <3>1, AcceptedStays
  <2>. QED
    BY <2>4, <2>5
<1>. QED
  BY <1>1, <1>2

\* What a step adds to the answers of a request is no success, or that of an
\* accepted transaction.
LEMMA AnswerAdds ==
  ASSUME IInv, ReplyInv, [Next]_vars, NEW s \in Sends
  PROVE  \/ answers'[s] = answers[s]
         \/ \E t : answers'[s] = Append(answers[s], t) /\ (t = "ok" => Accepted(s))
<1>1. CASE UNCHANGED answers
  BY <1>1
<1>2. ASSUME NEW u \in Sends, answers' = [answers EXCEPT ![u] = Append(@, "error")]
      PROVE  \/ answers'[s] = answers[s]
             \/ \E t : answers'[s] = Append(answers[s], t) /\ (t = "ok" => Accepted(s))
  BY <1>2 DEF IInv, Types
<1>3. ASSUME NEW u \in Sends, NEW text, Answer(u, text), text = "ok" => Accepted(u)
      PROVE  \/ answers'[s] = answers[s]
             \/ \E t : answers'[s] = Append(answers[s], t) /\ (t = "ok" => Accepted(s))
  <2>1. PICK t : answers' = [answers EXCEPT ![u] = Append(@, t)] /\ (t = "ok" => Accepted(u))
    BY <1>3 DEF Answer, Stringified
  <2>. QED
    BY <2>1 DEF IInv, Types
<1>4. ASSUME NEW u \in Sends, Refuse(u) \/ Return(u)
      PROVE  UNCHANGED answers \/ answers' = [answers EXCEPT ![u] = Append(@, "error")]
  BY <1>4 DEF Refuse, Return
<1>5. ASSUME NEW u \in Sends, OnBalanceError(u) \/ GiveUp(u)
      PROVE  Answer(u, "error")
  BY <1>5 DEF OnBalanceError, GiveUp
<1>6. ASSUME NEW u \in Sends, OnComplete(u)
      PROVE  UNCHANGED answers \/ (Answer(u, ResultOf(reply[u])) /\ (ResultOf(reply[u]) = "ok" => Accepted(u)))
  BY <1>6 DEF OnComplete, ReplyInv, ResultOf
<1>7. ASSUME NEW u \in Sends,
             SendGiven(u) \/ SendLocal(u) \/ FetchBalance(u) \/ OnGetBalance(u) \/ Retry(u)
      PROVE  UNCHANGED answers
  BY <1>7 DEF SendGiven, SendLocal, FetchBalance, OnGetBalance, Retry
<1>8. ASSUME NEW m \in net, ProxyTakes(m)
      PROVE  UNCHANGED answers
  BY <1>8 DEF ProxyTakes
<1>9. ForeignSpend \/ UNCHANGED vars => UNCHANGED answers
  BY DEF ForeignSpend, vars
<1>10. ASSUME NEW u \in Sends, Handler(u)
       PROVE  \/ answers'[s] = answers[s]
              \/ \E t : answers'[s] = Append(answers[s], t) /\ (t = "ok" => Accepted(s))
  <2>1. CASE Refuse(u) \/ Return(u)
    BY <2>1, <1>4, <1>1, <1>2
  <2>2. CASE OnBalanceError(u) \/ GiveUp(u)
    <3>1. Answer(u, "error")
      BY <2>2, <1>5
    <3>. QED
      BY <3>1, <1>3
  <2>3. CASE OnComplete(u)
    BY <2>3, <1>6, <1>1, <1>3
  <2>4. CASE SendGiven(u) \/ SendLocal(u) \/ FetchBalance(u) \/ OnGetBalance(u) \/ Retry(u)
    BY <2>4, <1>7
  <2>. QED
    BY <1>10, <2>1, <2>2, <2>3, <2>4 DEF Handler
<1>. QED
  BY <1>1, <1>8, <1>9, <1>10 DEF Next

\* A client that is told of success has paid, whichever attempt the proxy took and
\* whichever reply came late.
THEOREM OkIsPaidHolds == Spec => []OkIsPaid
<1>1. Init => OkInv
  <2>. SUFFICES ASSUME Init PROVE OkInv
    OBVIOUS
  <2>1. ReplyInv
    BY DEF Init, ReplyInv
  <2>2. \A s \in Sends : Len(answers[s]) = 0
    BY DEF Init
  <2>3. OkIsPaid
    BY <2>2 DEF OkIsPaid
  <2>. QED
    BY <2>1, <2>3 DEF OkInv
<1>2. IInv /\ OkInv /\ [Next]_vars => OkInv'
  <2>. SUFFICES ASSUME IInv, OkInv, [Next]_vars PROVE OkInv'
    OBVIOUS
  <2>1. ReplyInv'
    BY ReplyKeeps DEF OkInv
  <2>2. OkIsPaid'
    <3>. SUFFICES ASSUME NEW s \in Sends, NEW i \in 1..Len(answers'[s]), answers'[s][i] = "ok"
                  PROVE  Accepted(s)'
      BY DEF OkIsPaid
    <3>1. answers[s] \in Seq({"ok", "error", "garbled"})
      BY DEF IInv, Types
    <3>2. Accepted(s)
      <4>1. CASE answers'[s] = answers[s]
        BY <4>1 DEF OkInv, OkIsPaid
      <4>2. ASSUME NEW t, answers'[s] = Append(answers[s], t), t = "ok" => Accepted(s)
            PROVE  Accepted(s)
        <5>1. CASE i \in 1..Len(answers[s])
          BY <5>1, <4>2, <3>1 DEF OkInv, OkIsPaid
        <5>2. CASE i \notin 1..Len(answers[s])
          BY <5>2, <4>2, <3>1
        <5>. QED
          BY <5>1, <5>2
      <4>. QED
        BY <4>1, <4>2, AnswerAdds DEF OkInv
    <3>. QED
      BY <3>2, AcceptedStays
  <2>. QED
    BY <2>1, <2>2 DEF OkInv
<1>3. OkInv => OkIsPaid
  BY DEF OkInv
<1>. QED
  BY <1>1, <1>2, <1>3, InvariantHolds, PTL DEF Spec

(***************************************************************************)
(* Nonces.                                                                 *)
(***************************************************************************)

\* A step leaves the nonce of a request without one alone, or sets it to one more
\* than a number of spent transactions that was true at some time.
LEMMA NonceStep ==
  ASSUME IInv, [Next]_vars, NEW s \in Sends, given[s] = 0
  PROVE  m_nonce'[s] = m_nonce[s] \/ m_nonce'[s] \in 1..(Spent + 1)
<1>1. CASE UNCHANGED m_nonce
  BY <1>1
<1>2. ASSUME NEW u \in Sends, NEW nonce, Execute(u, nonce), u = s => nonce \in 1..(Spent + 1)
      PROVE  m_nonce'[s] = m_nonce[s] \/ m_nonce'[s] \in 1..(Spent + 1)
  BY <1>2 DEF Execute, IInv, Types
<1>3. \A c \in Reported : c + 1 \in 1..(Spent + 1)
  BY ReportedIsNat
<1>4. ASSUME NEW u \in Sends, SendGiven(u)
      PROVE  Execute(u, given[u]) /\ u # s
  BY <1>4 DEF SendGiven
<1>5. ASSUME NEW u \in Sends, SendLocal(u) \/ OnGetBalance(u)
      PROVE  \E c \in Reported : Execute(u, c + 1)
  BY <1>5 DEF SendLocal, OnGetBalance
<1>6. ASSUME NEW u \in Sends,
             \/ Refuse(u) \/ FetchBalance(u) \/ Return(u) \/ OnBalanceError(u)
             \/ Retry(u) \/ GiveUp(u) \/ OnComplete(u)
      PROVE  UNCHANGED m_nonce
  BY <1>6 DEF Refuse, FetchBalance, Return, OnBalanceError, Retry, GiveUp, OnComplete
<1>7. ASSUME NEW m \in net, ProxyTakes(m)
      PROVE  UNCHANGED m_nonce
  BY <1>7 DEF ProxyTakes, handler
<1>8. ForeignSpend \/ UNCHANGED vars => UNCHANGED m_nonce
  BY DEF ForeignSpend, vars, handler
<1>9. ASSUME NEW u \in Sends, Handler(u)
      PROVE  m_nonce'[s] = m_nonce[s] \/ m_nonce'[s] \in 1..(Spent + 1)
  <2>1. CASE SendGiven(u)
    BY <2>1, <1>4, <1>2
  <2>2. CASE SendLocal(u) \/ OnGetBalance(u)
    <3>1. PICK c \in Reported : Execute(u, c + 1)
      BY <2>2, <1>5
    <3>. QED
      BY <3>1, <1>3, <1>2
  <2>3. CASE \/ Refuse(u) \/ FetchBalance(u) \/ Return(u) \/ OnBalanceError(u)
             \/ Retry(u) \/ GiveUp(u) \/ OnComplete(u)
    BY <2>3, <1>6, <1>1
  <2>. QED
    BY <1>9, <2>1, <2>2, <2>3 DEF Handler
<1>. QED
  BY <1>1, <1>7, <1>8, <1>9 DEF Next

\* An automatic nonce leaves no gap, for any lag of torrents and any number of
\* sends at the same time.
THEOREM AutoNonceFitsHolds == Spec => []AutoNonceFits
<1>1. Init => AutoNonceFits
  BY DEF Init, AutoNonceFits
<1>2. IInv /\ AutoNonceFits /\ [Next]_vars => AutoNonceFits'
  <2>. SUFFICES ASSUME IInv, AutoNonceFits, [Next]_vars,
                       NEW s \in Sends, given'[s] = 0, m_nonce'[s] # 0
                PROVE  m_nonce'[s] \in 1..(Spent' + 1)
    BY DEF AutoNonceFits
  <2>1. given[s] = 0
    BY DEF Next, Handler, ProxyTakes, ForeignSpend, Refuse, SendGiven, SendLocal, FetchBalance,
           Return, OnGetBalance, OnBalanceError, Retry, GiveUp, OnComplete, fixed, vars
  <2>2. m_nonce'[s] \in 1..(Spent + 1)
    BY <2>1, NonceStep DEF AutoNonceFits
  <2>3. Spent \in Nat /\ Spent' \in Nat /\ Spent <= Spent'
    BY LedgerGrows DEF Spent
  <2>. QED
    BY <2>2, <2>3
<1>. QED
  BY <1>1, <1>2, InvariantHolds, PTL DEF Spec

=============================================================================
