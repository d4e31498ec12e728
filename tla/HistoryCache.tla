---------------------------- MODULE HistoryCache ----------------------------
(***************************************************************************)
(* The history cache: one worker thread copies the transactions of the     *)
(* tracked addresses from the torrents into a LevelDB, a record per        *)
(* transaction and a list per address, while handlers of fetch-transaction *)
(* read both.                                                              *)
(*                                                                         *)
(* The module follows cache/history_cache.cpp.  A torrent may lag behind   *)
(* the ledger by any number of transactions, differently for every         *)
(* request; a request that fails leaves the worker where it is or, for     *)
(* fetch-balance, moves it to the next address.  begin and tx_count are    *)
(* kept for the address at hand only: they are set before they are used.   *)
(***************************************************************************)
EXTENDS Integers, Sequences

CONSTANTS
  Txs,         \* transaction hashes
  NoTx,        \* an item of a reply without "transaction"
  Addrs,       \* settings::system::history_cache_addrs, a sequence of valid ones
  Ledger,      \* the transactions of every address, oldest first
  PageSize,    \* countTxs of a fetch-history request
  MaxCrashes,  \* bound on process crashes
  MaxFails     \* bound on failed operations of the database and failed starts

Entries == 1..Len(Addrs)

Tracked == {Addrs[i] : i \in Entries}

\* The settings name an address once: two entries of m_addrs for one address would
\* overwrite each other's list.
ASSUME HistoryAssumption ==
  /\ NoTx \notin Txs
  /\ Addrs \in Seq(Tracked) /\ Addrs # <<>>
  /\ \A i, j \in Entries : Addrs[i] = Addrs[j] => i = j
  /\ Ledger \in [Tracked -> Seq(Txs)]
  /\ PageSize \in Nat \ {0}

VARIABLES
  (* LevelDB: survives a crash *)
  record,      \* transactions that have a record
  history,     \* the stored list of every address, empty when absent
  (* the object *)
  db_open,     \* m_db is set and m_addrs is filled
  m_run,
  trx,         \* info::trx of every entry of m_addrs
  (* the process *)
  signal,      \* common::isStopSignalCalled
  stopping,    \* stop() has been called
  (* locals of the worker *)
  pc, cur, begin, tx_count, items,
  (* a handler inside get_history *)
  reader,
  (* what has gone wrong in this process *)
  unread,      \* entries of m_addrs whose stored list start() could not read
  missed,      \* requests of the worker that have ended without a reply before
  (* bounds *)
  crashes, fails

store   == <<record, history>>
process == <<db_open, m_run, signal, stopping>>
worker  == <<pc, cur, begin, tx_count, items>>
faults  == <<unread, missed>>
vars    == <<store, process, trx, worker, reader, faults, crashes, fails>>

Pcs == {"off", "none", "spawned", "loop", "balance", "page", "item", "save", "stopped", "hung"}

\* The two request objects routine() creates and uses again and again.
Requests == {"fetch_balance", "fetch_history"}

\* get_history: the list as it was read, how far the records have been read, and
\* those found.
Idle == [busy |-> FALSE, list |-> <<>>, pos |-> 1, doc |-> <<>>]
ReaderType == [busy: BOOLEAN, list: Seq(Txs), pos: Nat, doc: Seq(Txs)]

ListsType ==
  /\ record \subseteq Txs
  /\ history \in [Tracked -> Seq(Txs)]
  /\ trx \in [Entries -> Seq(Txs)]

ProcessType ==
  db_open \in BOOLEAN /\ m_run \in BOOLEAN /\ signal \in BOOLEAN /\ stopping \in BOOLEAN

WorkerType ==
  /\ pc \in Pcs /\ cur \in Entries
  /\ begin \in Nat /\ tx_count \in Nat
  /\ items \in Seq(Txs \cup {NoTx})

FaultsType == unread \subseteq Entries /\ missed \subseteq Requests

TypeOK ==
  /\ ListsType /\ ProcessType /\ WorkerType /\ FaultsType
  /\ reader \in ReaderType
  /\ crashes \in Nat /\ fails \in Nat

\* The address at hand.
addr == Addrs[cur]

(***************************************************************************)
(* What a torrent that knows the first p transactions answers (external).  *)
(***************************************************************************)

Known(a) == 0..Len(Ledger[a])

\* Number of items from position b on, newest first.
ItemCount(p, b) == IF p <= b THEN 0 ELSE IF p - b < PageSize THEN p - b ELSE PageSize

\* fetch-history: some items may lack the field the worker looks for.
HistoryReplies(a, p, b) ==
  {s \in [1..ItemCount(p, b) -> Txs \cup {NoTx}] :
     \A i \in 1..ItemCount(p, b) : s[i] \in {Ledger[a][p - b - i + 1], NoTx}}

(***************************************************************************)
(* Start, stop and death of the process.                                   *)
(***************************************************************************)

Init ==
  /\ record = {} /\ history = [a \in Tracked |-> <<>>]
  /\ db_open = FALSE /\ m_run = FALSE /\ signal = FALSE /\ stopping = FALSE
  /\ trx = [i \in Entries |-> <<>>]
  /\ pc = "off" /\ cur = 1 /\ begin = 0 /\ tx_count = 0 /\ items = <<>>
  /\ reader = Idle
  /\ unread = {} /\ missed = {}
  /\ crashes = 0 /\ fails = 0

\* One access to the database; a failed one is counted.
Access(ok) ==
  \/ ok /\ UNCHANGED fails
  \/ ~ok /\ fails < MaxFails /\ fails' = fails + 1

\* Mutant: the stored lists are not loaded.
StartEmpty ==
  /\ pc = "off"
  /\ pc' = "spawned"
  /\ db_open' = TRUE
  /\ UNCHANGED <<store, trx, m_run, signal, stopping, cur, begin, tx_count, items, reader,
                 faults, crashes, fails>>

\* start(): without a database there is no worker.  An entry whose stored list
\* cannot be read is begun with an empty one.
Start ==
  /\ pc = "off"
  /\ \/ \E lost \in SUBSET Entries :
          /\ pc' = "spawned"
          /\ db_open' = TRUE
          /\ trx' = [i \in Entries |-> IF i \in lost THEN <<>> ELSE history[Addrs[i]]]
          /\ unread' = lost
          /\ Access(lost = {})
     \/ /\ Access(FALSE)
        /\ pc' = "none"
        /\ UNCHANGED <<db_open, trx, unread>>
  /\ UNCHANGED <<store, m_run, signal, stopping, cur, begin, tx_count, items, reader, missed, crashes>>

\* The signal handler; the threads of the server notice and end, each after the
\* handler it is in.
Signal ==
  /\ pc # "off" /\ ~signal
  /\ signal' = TRUE
  /\ UNCHANGED <<store, trx, db_open, m_run, stopping, worker, reader, faults, crashes, fails>>

\* http_server::run has joined its threads and calls stop().
Stop ==
  /\ signal /\ ~stopping /\ reader = Idle
  /\ stopping' = TRUE
  /\ m_run' = FALSE
  /\ UNCHANGED <<store, trx, db_open, signal, worker, reader, faults, crashes, fails>>

\* Everything that is not in the database is gone.
ProcessEnds ==
  /\ pc' = "off"
  /\ db_open' = FALSE /\ m_run' = FALSE /\ signal' = FALSE /\ stopping' = FALSE
  /\ trx' = [i \in Entries |-> <<>>]
  /\ cur' = 1 /\ begin' = 0 /\ tx_count' = 0 /\ items' = <<>>
  /\ reader' = Idle
  /\ unread' = {} /\ missed' = {}
  /\ UNCHANGED <<store, fails>>

\* The join in stop() has returned and the program ends.
Exit ==
  /\ pc \in {"stopped", "none"} /\ stopping
  /\ ProcessEnds
  /\ UNCHANGED crashes

\* stop() waits for a worker that hangs; only killing the process ends it.
Kill ==
  /\ pc = "hung" /\ stopping
  /\ ProcessEnds
  /\ UNCHANGED crashes

Crash ==
  /\ pc # "off" /\ crashes < MaxCrashes
  /\ crashes' = crashes + 1
  /\ ProcessEnds

(***************************************************************************)
(* The worker.                                                             *)
(***************************************************************************)

\* routine() sets m_run, whatever stop() has done before.
WorkerProc ==
  /\ pc = "spawned"
  /\ pc' = "loop"
  /\ m_run' = TRUE
  /\ UNCHANGED <<store, trx, db_open, signal, stopping, cur, begin, tx_count, items, reader,
                 faults, crashes, fails>>

\* The loop condition, or the exception checkStopSignal throws.
WorkerEnds ==
  /\ pc' = "stopped"
  /\ m_run' = FALSE
  /\ cur' = 1 /\ begin' = 0 /\ tx_count' = 0 /\ items' = <<>>
  /\ UNCHANGED <<store, trx, db_open, signal, stopping, reader, faults, crashes, fails>>

\* The head of the outer loop; between rounds the worker sleeps.
Round ==
  /\ pc = "loop"
  /\ \/ (~m_run \/ signal) /\ WorkerEnds
     \/ /\ m_run /\ ~signal
        /\ pc' = "balance" /\ cur' = 1
        /\ UNCHANGED <<store, trx, process, begin, tx_count, items, reader, faults, crashes, fails>>

\* The for loop looks neither at m_run nor at the signal.
NextAddress ==
  /\ IF cur < Len(Addrs) THEN cur' = cur + 1 /\ pc' = "balance"
                         ELSE cur' = 1 /\ pc' = "loop"
  /\ begin' = 0 /\ tx_count' = 0 /\ items' = <<>>

\* fetch-balance gave no count.
BalanceFails ==
  /\ pc = "balance"
  /\ missed' = missed \cup {"fetch_balance"}
  /\ NextAddress
  /\ UNCHANGED <<store, trx, process, reader, unread, crashes, fails>>

\* fetch-balance answers n: nothing to update, or the pages are read from the start.
Balance(n) ==
  /\ pc = "balance"
  /\ IF Len(trx[cur]) = n
     THEN NextAddress
     ELSE pc' = "page" /\ tx_count' = n /\ begin' = 0 /\ UNCHANGED <<cur, items>>
  /\ UNCHANGED <<store, trx, process, reader, faults, crashes, fails>>

\* Mutant: the loop over the pages ends one transaction early.
MorePagesShort == begin + 1 < tx_count /\ Len(trx[cur]) < tx_count

MorePages == begin < tx_count /\ Len(trx[cur]) < tx_count

PagesDone ==
  /\ pc = "page" /\ ~MorePages
  /\ pc' = "save"
  /\ UNCHANGED <<store, trx, process, cur, begin, tx_count, items, reader, faults, crashes, fails>>

\* Mutant: the inner loop looks at m_run, which the signal does not change.
PageStoppedByRun ==
  /\ pc = "page" /\ MorePages /\ ~m_run
  /\ WorkerEnds

\* checkStopSignal in the inner loop.
PageStopped ==
  /\ pc = "page" /\ MorePages /\ signal
  /\ WorkerEnds

\* fetch-history answers s; behind the end of the list the worker begins again.
Page(s) ==
  /\ pc = "page" /\ MorePages /\ ~signal
  /\ IF s = <<>> THEN begin' = 0 /\ UNCHANGED <<pc, items>>
                 ELSE items' = s /\ pc' = "item" /\ UNCHANGED begin
  /\ UNCHANGED <<store, trx, process, cur, tx_count, reader, faults, crashes, fails>>

\* fetch-history gave no list: the same page is asked for again.
PageFails ==
  /\ pc = "page" /\ MorePages /\ ~signal
  /\ missed' = missed \cup {"fetch_history"}
  /\ UNCHANGED <<store, trx, process, worker, reader, unread, crashes, fails>>

\* An execute of a request object one of whose earlier ones timed out need not
\* return: module JsonRpcRequest, where ExecuteEnds does not hold.
Hang ==
  /\ \/ pc = "balance" /\ "fetch_balance" \in missed
     \/ pc = "page" /\ MorePages /\ ~signal /\ "fetch_history" \in missed
  /\ pc' = "hung"
  /\ UNCHANGED <<store, trx, process, cur, begin, tx_count, items, reader, faults, crashes, fails>>

Found(t) == \E i \in 1..Len(trx[cur]) : trx[cur][i] = t

\* Mutant: the transaction is listed before its record is written.
SaveTransactionListed(t) ==
  /\ trx' = [trx EXCEPT ![cur] = Append(@, t)]
  /\ \/ Access(TRUE) /\ record' = record \cup {t}
     \/ Access(FALSE) /\ UNCHANGED record

\* save_transaction, and PushBack when it succeeded.
SaveTransaction(t) ==
  \/ /\ Access(TRUE)
     /\ record' = record \cup {t}
     /\ trx' = [trx EXCEPT ![cur] = Append(@, t)]
  \/ Access(FALSE) /\ UNCHANGED <<record, trx>>

\* One item of the page, then the next one or the next page.
Item ==
  /\ pc = "item"
  /\ IF Head(items) = NoTx \/ Found(Head(items))
     THEN UNCHANGED <<record, trx, fails>>
     ELSE SaveTransaction(Head(items))
  /\ items' = Tail(items)
  /\ IF Tail(items) # <<>> THEN UNCHANGED <<pc, begin>>
                           ELSE pc' = "page" /\ begin' = begin + PageSize
  /\ UNCHANGED <<history, process, cur, tx_count, reader, faults, crashes>>

\* save_history; after a failure the list is only in memory.  A list begun anew
\* replaces the stored one that could not be read.
SaveHistory ==
  /\ pc = "save"
  /\ \/ Access(TRUE) /\ history' = [history EXCEPT ![addr] = trx[cur]] /\ unread' = unread \ {cur}
     \/ Access(FALSE) /\ UNCHANGED <<history, unread>>
  /\ NextAddress
  /\ UNCHANGED <<record, trx, process, reader, missed, crashes>>

(***************************************************************************)
(* get_history for the handler of fetch-transaction.                       *)
(***************************************************************************)

\* Without a database the handler is refused, which changes nothing.
ReadList ==
  /\ ~reader.busy /\ db_open /\ ~stopping
  /\ \E a \in Tracked : reader' = [busy |-> TRUE, list |-> history[a], pos |-> 1, doc |-> <<>>]
  /\ UNCHANGED <<store, trx, process, worker, faults, crashes, fails>>

\* A listed transaction without a record is left out.
ReadTransaction ==
  /\ reader.busy /\ reader.pos <= Len(reader.list)
  /\ LET t == reader.list[reader.pos]
     IN  reader' = [reader EXCEPT !.pos = @ + 1,
                                  !.doc = IF t \in record THEN Append(@, t) ELSE @]
  /\ UNCHANGED <<store, trx, process, worker, faults, crashes, fails>>

\* The handler picks the transactions with the wanted data and answers.
Respond ==
  /\ reader.busy /\ reader.pos > Len(reader.list)
  /\ reader' = Idle
  /\ UNCHANGED <<store, trx, process, worker, faults, crashes, fails>>

(***************************************************************************)
(* The specification.                                                      *)
(***************************************************************************)

Process == Start \/ Signal \/ Stop \/ Exit \/ Kill \/ Crash

GetHistory == ReadList \/ ReadTransaction \/ Respond

\* Steps of the worker that wait for nobody.
WorkerStep == WorkerProc \/ Round \/ PagesDone \/ PageStopped \/ Item \/ SaveHistory

Worker ==
  \/ WorkerStep
  \/ BalanceFails \/ PageFails \/ Hang
  \/ \E n \in Known(addr) : Balance(n)
  \/ \E p \in Known(addr) : \E s \in HistoryReplies(addr, p, begin) : Page(s)

Next == Process \/ Worker \/ GetHistory

Spec == Init /\ [][Next]_vars

\* Replies of a torrent that has everything.
GoodBalance(i) == cur = i /\ Balance(Len(Ledger[addr]))

GoodPage(i, b) ==
  /\ cur = i /\ begin = b
  /\ \E s \in HistoryReplies(addr, Len(Ledger[addr]), b) :
       (\A j \in 1..Len(s) : s[j] # NoTx) /\ Page(s)

\* Values of beginTx for the address of an entry.
Begins(i) == {b \in Known(Addrs[i]) : b < Len(Ledger[Addrs[i]]) /\ b % PageSize = 0}

\* A fetch-balance ends, with a reply or without, unless the worker hangs in it;
\* the question the worker asks again and again is at times answered by a torrent
\* that has everything.
FairSpec ==
  /\ Spec
  /\ WF_vars(Start) /\ WF_vars(WorkerStep \/ BalanceFails)
  /\ \A i \in Entries : SF_vars(GoodBalance(i))
  /\ \A i \in Entries : \A b \in Begins(i) : SF_vars(GoodPage(i, b))

(***************************************************************************)
(* Properties.                                                             *)
(***************************************************************************)

\* get_history returns every transaction of the list it has read, each once:
\* records are written before the list that names them, also when Puts fail and
\* the process dies in between.
AnswersAreExact ==
  /\ reader.doc = SubSeq(reader.list, 1, reader.pos - 1)
  /\ \A i, j \in 1..Len(reader.list) : reader.list[i] = reader.list[j] => i = j

\* The second sequence begins with the first.
Extends(t, s) == Len(s) <= Len(t) /\ \A i \in 1..Len(s) : t[i] = s[i]

\* The stored list of an address only gets new transactions at its end, whatever
\* lags, fails or dies, except for one that start() could not read: the first
\* save_history of such an entry replaces the stored list by the one begun anew.
HistoryOnlyGrows ==
  [][\A i \in Entries \ unread : Extends(history'[Addrs[i]], history[Addrs[i]])]_vars

\* Every transaction of the ledger is in the stored lists.
Complete ==
  \A a \in Tracked : \A i \in 1..Len(Ledger[a]) :
    \E j \in 1..Len(history[a]) : history[a][j] = Ledger[a][i]

\* A list that is complete in memory, but not in the database.
Unsaved == \E i \in Entries : Len(trx[i]) = Len(Ledger[Addrs[i]]) /\ history[Addrs[i]] # trx[i]

\* As long as nobody stops the program, its database opens and the worker does not
\* hang in a request, the lists become complete: lagging torrents, which make the
\* pages of different requests disagree, do not leave the worker in the inner loop
\* for ever, and a list that start() could not read is collected again.  Only after
\* a failed save_history may a list stay behind: one that is complete in memory is
\* not saved again, as its length is the count.
HistoryCompletes ==
  \/ <>(Complete \/ signal \/ pc = "hung")
  \/ <>[](pc = "none" \/ Unsaved)

\* The signal ends the worker although the loops over pages do not look at m_run,
\* when no torrent answers any more and when stop() comes before routine has set
\* m_run.  The exception is a worker that hangs in a request object it has used
\* before without getting a reply.
SignalEndsWorker == signal ~> pc \in {"stopped", "none", "off", "hung"}

=============================================================================
