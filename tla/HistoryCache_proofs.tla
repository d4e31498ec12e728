------------------------ MODULE HistoryCache_proofs ------------------------
(***************************************************************************)
(* Proofs about the history cache, for every ledger, page size and number  *)
(* of crashes and failed Puts: what a client is answered is complete, and  *)
(* no stored list that start() could read ever loses a transaction.        *)
(***************************************************************************)
EXTENDS HistoryCache, SequenceTheorems, TLAPS

(***************************************************************************)
(* The inductive invariant.                                                *)
(***************************************************************************)

\* A list of different transactions all of which are in R.
Sound(s, R) ==
  /\ \A i, j \in 1..Len(s) : s[i] = s[j] => i = j
  /\ \A i \in 1..Len(s) : s[i] \in R

\* Both the stored lists and those in memory name recorded transactions only.
ListsInv ==
  /\ \A a \in Tracked : Sound(history[a], record)
  /\ \A i \in Entries : Sound(trx[i], record)

\* What is in memory goes beyond what is stored, once start() has loaded it; a
\* list that could not be read does so again after its first save_history.
AheadInv ==
  pc \notin {"off", "none"} => \A i \in Entries \ unread : Extends(trx[i], history[Addrs[i]])

ItemsInv == pc = "item" => items # <<>>

ReaderInv ==
  /\ Sound(reader.list, record)
  /\ reader.pos \in 1..(Len(reader.list) + 1)
  /\ reader.doc = SubSeq(reader.list, 1, reader.pos - 1)

IInv == TypeOK /\ ListsInv /\ AheadInv /\ ItemsInv /\ ReaderInv

(***************************************************************************)
(* Facts about lists.                                                      *)
(***************************************************************************)

\* Every entry of m_addrs belongs to a tracked address, and the first one exists.
LEMMA EntryFacts ==
  /\ Len(Addrs) \in Nat /\ 1 \in Entries
  /\ \A i \in Entries : Addrs[i] \in Tracked
BY HistoryAssumption DEF Tracked, Entries

\* The empty list is sound and every list extends it and itself.
LEMMA EmptyLists ==
  /\ \A R : Sound(<<>>, R)
  /\ \A s \in Seq(Txs) : Extends(s, <<>>) /\ Extends(s, s)
BY DEF Sound, Extends

\* A list stays sound when records are added.
LEMMA SoundKept ==
  ASSUME NEW R, NEW Q, R \subseteq Q, NEW s, Sound(s, R)
  PROVE  Sound(s, Q)
BY DEF Sound

\* Saving a transaction that was not found keeps the list sound: this is the
\* PushBack behind save_transaction.
LEMMA SoundAppend ==
  ASSUME NEW R, NEW s \in Seq(Txs), NEW t \in Txs, Sound(s, R),
         ~ \E i \in 1..Len(s) : s[i] = t
  PROVE  /\ Append(s, t) \in Seq(Txs)
         /\ Sound(Append(s, t), R \cup {t})
         /\ Extends(Append(s, t), s)
<1>1. /\ Append(s, t) \in Seq(Txs)
      /\ Len(Append(s, t)) = Len(s) + 1
      /\ \A i \in 1..Len(s) : Append(s, t)[i] = s[i]
      /\ Append(s, t)[Len(s) + 1] = t
  BY AppendProperties
<1>2. Len(s) \in Nat
  OBVIOUS
<1>3. Sound(Append(s, t), R \cup {t})
  <2>1. ASSUME NEW i \in 1..Len(Append(s, t))
        PROVE  i \in 1..Len(s) \/ i = Len(s) + 1
    BY <1>1, <1>2
  <2>2. ASSUME NEW i \in 1..Len(Append(s, t)), NEW j \in 1..Len(Append(s, t)),
               Append(s, t)[i] = Append(s, t)[j]
        PROVE  i = j
    <3>1. CASE i \in 1..Len(s) /\ j \in 1..Len(s)
      BY <1>1, <2>2, <3>1 DEF Sound
    <3>2. CASE i = Len(s) + 1 /\ j = Len(s) + 1
      BY <3>2
    <3>3. CASE i \in 1..Len(s) /\ j = Len(s) + 1
      BY <1>1, <2>2, <3>3
    <3>4. CASE i = Len(s) + 1 /\ j \in 1..Len(s)
      BY <1>1, <2>2, <3>4
    <3>. QED BY <2>1, <3>1, <3>2, <3>3, <3>4
  <2>3. ASSUME NEW i \in 1..Len(Append(s, t))
        PROVE  Append(s, t)[i] \in R \cup {t}
    BY <1>1, <2>1 DEF Sound
  <2>. QED BY <2>2, <2>3 DEF Sound
<1>. QED BY <1>1, <1>2, <1>3 DEF Extends

\* A list in memory that has grown still extends what it extended before.
LEMMA ExtendsTransitive ==
  ASSUME NEW s \in Seq(Txs), NEW t \in Seq(Txs), NEW u \in Seq(Txs),
         Extends(t, s), Extends(u, t)
  PROVE  Extends(u, s)
<1>1. Len(s) \in Nat /\ Len(t) \in Nat /\ Len(u) \in Nat
  OBVIOUS
<1>2. Len(s) <= Len(u) /\ \A i \in 1..Len(s) : i \in 1..Len(t)
  BY <1>1 DEF Extends
<1>. QED BY <1>1, <1>2 DEF Extends

(***************************************************************************)
(* Steps.                                                                  *)
(***************************************************************************)

\* Conjuncts that do not depend on what a step changes elsewhere.
LEMMA Frame ==
  ASSUME IInv, UNCHANGED store
  PROVE  /\ UNCHANGED trx => ListsInv'
         /\ UNCHANGED reader => ReaderInv'
         /\ UNCHANGED <<trx, unread>> /\ pc \notin {"off", "none"} => AheadInv'
BY DEF IInv, ListsInv, ReaderInv, AheadInv, store

\* Nothing is stored or loaded at first.
LEMMA InitHolds == Init => IInv
<1>. SUFFICES ASSUME Init PROVE IInv
  OBVIOUS
<1>1. TypeOK
  <2>1. ListsType /\ WorkerType
    BY EntryFacts DEF Init, ListsType, WorkerType, Pcs
  <2>2. ProcessType
    BY DEF Init, ProcessType
  <2>3. reader \in ReaderType /\ FaultsType /\ crashes \in Nat /\ fails \in Nat
    BY DEF Init, Idle, ReaderType, FaultsType
  <2>. QED BY <2>1, <2>2, <2>3 DEF TypeOK
<1>2. ListsInv
  BY EntryFacts, EmptyLists DEF Init, ListsInv
<1>3. AheadInv /\ ItemsInv
  BY DEF Init, AheadInv, ItemsInv
<1>4. ReaderInv
  BY EmptyLists, SubSeqEmpty DEF Init, ReaderInv, Idle
<1>. QED BY <1>1, <1>2, <1>3, <1>4 DEF IInv

\* An idle reader satisfies its part of the invariant.
LEMMA IdleReader ==
  ASSUME reader' = Idle
  PROVE  ReaderInv' /\ reader' \in ReaderType
BY EmptyLists, SubSeqEmpty DEF ReaderInv, Idle, ReaderType

\* start() loads the stored lists it can read, or fails and leaves everything as
\* it is.
LEMMA StartStep ==
  ASSUME IInv, Start
  PROVE  IInv'
<1>1. /\ UNCHANGED <<store, reader, cur, begin, tx_count, items, m_run, signal, stopping, missed, crashes>>
      /\ fails' = fails \/ fails' = fails + 1
      /\ \/ /\ pc' = "spawned" /\ db_open' = TRUE
            /\ unread' \subseteq Entries
            /\ trx' = [i \in Entries |-> IF i \in unread' THEN <<>> ELSE history[Addrs[i]]]
         \/ pc' = "none" /\ UNCHANGED <<db_open, trx, unread>>
  BY DEF Start, Access
<1>2. \A i \in Entries : history[Addrs[i]] \in Seq(Txs) /\ Sound(history[Addrs[i]], record)
  BY EntryFacts DEF IInv, TypeOK, ListsType, ListsInv
<1>3. TypeOK'
  <2>1. WorkerType'
    BY <1>1 DEF IInv, TypeOK, WorkerType, Pcs
  <2>2. trx' \in [Entries -> Seq(Txs)]
    <3>1. <<>> \in Seq(Txs)
      OBVIOUS
    <3>2. trx \in [Entries -> Seq(Txs)]
      BY DEF IInv, TypeOK, ListsType
    <3>. QED BY <1>1, <1>2, <3>1, <3>2
  <2>3. ListsType'
    BY <1>1, <2>2 DEF IInv, TypeOK, ListsType, store
  <2>4. ProcessType'
    BY <1>1 DEF IInv, TypeOK, ProcessType
  <2>5. reader' \in ReaderType /\ FaultsType' /\ crashes' \in Nat /\ fails' \in Nat
    BY <1>1 DEF IInv, TypeOK, FaultsType
  <2>. QED BY <2>1, <2>3, <2>4, <2>5 DEF TypeOK
<1>4. ListsInv'
  BY <1>1, <1>2, EmptyLists DEF IInv, ListsInv, store
<1>5. AheadInv'
  BY <1>1, <1>2, EmptyLists DEF AheadInv, store
<1>6. ItemsInv' /\ ReaderInv'
  BY <1>1, Frame DEF ItemsInv
<1>. QED BY <1>3, <1>4, <1>5, <1>6 DEF IInv

\* Crash, Exit and Kill: only the database is left.
LEMMA EndStep ==
  ASSUME IInv, Crash \/ Exit \/ Kill
  PROVE  IInv'
<1>1. /\ pc' = "off" /\ UNCHANGED <<store, fails>> /\ reader' = Idle
      /\ db_open' = FALSE /\ m_run' = FALSE /\ signal' = FALSE /\ stopping' = FALSE
      /\ trx' = [i \in Entries |-> <<>>]
      /\ cur' = 1 /\ begin' = 0 /\ tx_count' = 0 /\ items' = <<>>
      /\ unread' = {} /\ missed' = {}
      /\ crashes' = crashes \/ crashes' = crashes + 1
  BY DEF Crash, Exit, Kill, ProcessEnds
<1>2. TypeOK'
  <2>1. ListsType' /\ WorkerType'
    BY <1>1, EntryFacts DEF IInv, TypeOK, ListsType, WorkerType, Pcs, store
  <2>2. ProcessType'
    BY <1>1 DEF ProcessType
  <2>3. reader' \in ReaderType /\ FaultsType' /\ crashes' \in Nat /\ fails' \in Nat
    BY <1>1, IdleReader DEF IInv, TypeOK, FaultsType
  <2>. QED BY <2>1, <2>2, <2>3 DEF TypeOK
<1>3. ListsInv'
  BY <1>1, EmptyLists DEF IInv, ListsInv, store
<1>4. AheadInv' /\ ItemsInv'
  BY <1>1 DEF AheadInv, ItemsInv
<1>. QED BY <1>1, <1>2, <1>3, <1>4, IdleReader DEF IInv

\* Steps that write neither the database nor a list: the worker moves between
\* addresses and pages, the signal arrives, stop() is called.
LEMMA QuietStep ==
  ASSUME IInv, UNCHANGED <<store, trx, reader, unread, crashes, fails>>,
         pc \in {"off", "none"} => pc' = pc,
         WorkerType', ProcessType', missed' \subseteq Requests, pc' = "item" => items' # <<>>
  PROVE  IInv'
<1>1. TypeOK'
  BY DEF IInv, TypeOK, ListsType, FaultsType, store
<1>2. AheadInv'
  BY Frame DEF AheadInv
<1>. QED BY <1>1, <1>2, Frame DEF IInv, ItemsInv

\* The loop over the addresses stays inside m_addrs.
LEMMA NextAddressType ==
  ASSUME IInv, NextAddress
  PROVE  /\ pc' \in {"balance", "loop"} /\ cur' \in Entries
         /\ begin' = 0 /\ tx_count' = 0 /\ items' = <<>>
BY EntryFacts DEF IInv, TypeOK, WorkerType, NextAddress, Entries

\* The signal and stop() touch flags only.
LEMMA StopStep ==
  ASSUME IInv, Signal \/ Stop
  PROVE  IInv'
<1>1. /\ UNCHANGED <<store, trx, reader, faults, crashes, fails, pc, cur, begin, tx_count, items>>
      /\ missed' \subseteq Requests
  BY DEF Signal, Stop, worker, faults, IInv, TypeOK, FaultsType
<1>2. WorkerType'
  BY <1>1 DEF IInv, TypeOK, WorkerType
<1>3. ProcessType'
  BY DEF Signal, Stop, IInv, TypeOK, ProcessType
<1>4. pc' = "item" => items' # <<>>
  BY <1>1 DEF IInv, ItemsInv
<1>. QED BY <1>1, <1>2, <1>3, <1>4, QuietStep DEF faults

\* The loops of the worker, up to the processing of a page.
LEMMA LoopStep ==
  ASSUME IInv,
         WorkerProc \/ Round \/ PagesDone \/ PageStopped \/ BalanceFails \/ PageFails \/ Hang
           \/ (\E n \in Known(addr) : Balance(n))
  PROVE  IInv'
<1>. USE EntryFacts DEF IInv, TypeOK, faults, FaultsType
<1>1. CASE WorkerProc
  <2>1. WorkerType' /\ pc' = "loop" /\ pc = "spawned"
    BY <1>1 DEF WorkerProc, WorkerType, Pcs
  <2>2. ProcessType'
    BY <1>1 DEF WorkerProc, ProcessType
  <2>. QED BY <1>1, <2>1, <2>2, QuietStep DEF WorkerProc
<1>2. ASSUME WorkerEnds, pc \in {"loop", "page"} PROVE IInv'
  <2>1. WorkerType' /\ pc' = "stopped"
    BY <1>2 DEF WorkerEnds, WorkerType, Pcs
  <2>2. ProcessType'
    BY <1>2 DEF WorkerEnds, ProcessType
  <2>. QED BY <1>2, <2>1, <2>2, QuietStep DEF WorkerEnds
<1>3. CASE Round
  <2>1. CASE WorkerEnds
    BY <1>2, <1>3, <2>1 DEF Round
  <2>2. CASE ~WorkerEnds
    <3>1. /\ pc = "loop" /\ pc' = "balance" /\ cur' = 1
          /\ UNCHANGED <<store, trx, process, begin, tx_count, items, reader, faults, crashes, fails>>
      BY <1>3, <2>2 DEF Round
    <3>2. WorkerType'
      BY <3>1 DEF WorkerType, Pcs
    <3>3. ProcessType'
      BY <3>1 DEF ProcessType, process
    <3>. QED BY <3>1, <3>2, <3>3, QuietStep
  <2>. QED BY <2>1, <2>2
<1>4. CASE PagesDone
  <2>1. WorkerType' /\ pc' = "save" /\ pc = "page"
    BY <1>4 DEF PagesDone, WorkerType, Pcs
  <2>2. ProcessType'
    BY <1>4 DEF PagesDone, ProcessType, process
  <2>. QED BY <1>4, <2>1, <2>2, QuietStep DEF PagesDone
<1>5. CASE PageStopped
  BY <1>2, <1>5 DEF PageStopped
<1>6. ASSUME pc = "balance", UNCHANGED <<store, trx, process, reader, unread, crashes, fails>>,
             missed' \subseteq Requests, NextAddress
      PROVE  IInv'
  <2>1. /\ pc' \in {"balance", "loop"} /\ cur' \in Entries
        /\ begin' = 0 /\ tx_count' = 0 /\ items' = <<>>
    BY <1>6, NextAddressType
  <2>2. WorkerType'
    BY <2>1 DEF WorkerType, Pcs
  <2>3. ProcessType'
    BY <1>6 DEF ProcessType, process
  <2>. QED BY <1>6, <2>1, <2>3, <2>2, QuietStep
<1>7. CASE BalanceFails
  BY <1>6, <1>7 DEF BalanceFails, Requests
<1>8. ASSUME NEW n \in Known(addr), Balance(n) PROVE IInv'
  <2>1. CASE Len(trx[cur]) = n
    BY <1>6, <1>8, <2>1 DEF Balance
  <2>2. CASE Len(trx[cur]) # n
    <3>1. n \in Nat
      BY DEF Known
    <3>2. WorkerType' /\ pc' = "page" /\ pc = "balance"
      BY <1>8, <2>2, <3>1 DEF Balance, WorkerType, Pcs
    <3>3. ProcessType'
      BY <1>8 DEF Balance, ProcessType, process
    <3>. QED BY <1>8, <3>2, <3>3, QuietStep DEF Balance
  <2>. QED BY <2>1, <2>2
<1>9. CASE PageFails \/ Hang
  <2>1. /\ UNCHANGED <<store, trx, process, reader, unread, crashes, fails, cur, begin, tx_count, items>>
        /\ missed' \subseteq Requests
        /\ pc' = pc \/ pc' = "hung"
        /\ pc \in {"page", "balance"}
    BY <1>9 DEF PageFails, Hang, Requests, worker
  <2>2. WorkerType'
    BY <2>1 DEF WorkerType, Pcs
  <2>3. ProcessType'
    BY <2>1 DEF ProcessType, process
  <2>. QED BY <2>1, <2>2, <2>3, QuietStep
<1>. QED BY <1>1, <1>3, <1>4, <1>5, <1>7, <1>8, <1>9

\* A page that has arrived is a list of transactions.
LEMMA PageStep ==
  ASSUME IInv, NEW p \in Known(addr), NEW s \in HistoryReplies(addr, p, begin), Page(s)
  PROVE  IInv'
<1>1. Len(Ledger[addr]) \in Nat /\ p \in Nat /\ begin \in Nat /\ PageSize \in Nat
  BY EntryFacts, HistoryAssumption DEF IInv, TypeOK, WorkerType, Known, addr
<1>2. ItemCount(p, begin) \in Nat
  BY <1>1 DEF ItemCount
<1>3. s \in Seq(Txs \cup {NoTx})
  BY <1>2 DEF HistoryReplies
<1>4. WorkerType' /\ pc = "page" /\ (pc' = "item" => items' # <<>>)
  BY <1>3 DEF Page, IInv, TypeOK, WorkerType, Pcs
<1>5. ProcessType' /\ missed' \subseteq Requests
  BY DEF Page, IInv, TypeOK, ProcessType, process, FaultsType, faults
<1>. QED BY <1>4, <1>5, QuietStep DEF Page, faults

\* What an item does to the lists: nothing, or a new transaction with its record
\* goes to the end of the list at hand.
LEMMA ItemLists ==
  ASSUME IInv, Item
  PROVE  /\ record \subseteq record'
         /\ ListsType' /\ fails' \in Nat
         /\ \A i \in Entries : Sound(trx'[i], record') /\ Extends(trx'[i], trx[i])
<1>. DEFINE t == Head(items)
<1>1. /\ trx \in [Entries -> Seq(Txs)] /\ record \subseteq Txs /\ cur \in Entries
      /\ history \in [Tracked -> Seq(Txs)] /\ fails \in Nat
      /\ \A i \in Entries : Sound(trx[i], record)
  BY DEF IInv, TypeOK, ListsType, WorkerType, ListsInv
<1>2. t \in Txs \cup {NoTx}
  BY DEF IInv, TypeOK, WorkerType, ItemsInv, Item
<1>3. history' = history
  BY DEF Item
<1>4. CASE UNCHANGED <<record, trx>> /\ fails' \in Nat
  BY <1>1, <1>3, <1>4, EmptyLists DEF ListsType
<1>5. CASE /\ t \in Txs /\ ~Found(t) /\ fails' = fails
           /\ record' = record \cup {t}
           /\ trx' = [trx EXCEPT ![cur] = Append(@, t)]
  <2>. HIDE DEF t
  <2>1. /\ Append(trx[cur], t) \in Seq(Txs)
        /\ Sound(Append(trx[cur], t), record \cup {t})
        /\ Extends(Append(trx[cur], t), trx[cur])
    BY <1>1, <1>5, SoundAppend DEF Found
  <2>2. ListsType'
    BY <1>1, <1>3, <1>5, <2>1 DEF ListsType
  <2>3. ASSUME NEW i \in Entries
        PROVE  Sound(trx'[i], record') /\ Extends(trx'[i], trx[i])
    <3>1. CASE i = cur
      BY <1>1, <1>5, <2>1, <3>1
    <3>2. CASE i # cur
      BY <1>1, <1>5, <3>2, SoundKept, EmptyLists
    <3>. QED BY <3>1, <3>2
  <2>. QED BY <1>1, <1>5, <2>2, <2>3
<1>6. \/ UNCHANGED <<record, trx>> /\ (fails' = fails \/ fails' = fails + 1)
      \/ /\ t # NoTx /\ ~Found(t) /\ fails' = fails
         /\ record' = record \cup {t}
         /\ trx' = [trx EXCEPT ![cur] = Append(@, t)]
  BY DEF Item, SaveTransaction, Access
<1>. QED BY <1>1, <1>2, <1>4, <1>5, <1>6

\* save_transaction writes the record before the list in memory names it.
LEMMA ItemStep ==
  ASSUME IInv, Item
  PROVE  IInv'
<1>1. /\ pc = "item" /\ items # <<>> /\ items \in Seq(Txs \cup {NoTx})
      /\ begin \in Nat /\ PageSize \in Nat
  BY HistoryAssumption DEF IInv, TypeOK, WorkerType, ItemsInv, Item
<1>2. Tail(items) \in Seq(Txs \cup {NoTx})
  BY <1>1, HeadTailProperties
<1>3. /\ items' = Tail(items) /\ UNCHANGED <<history, process, cur, tx_count, reader, faults, crashes>>
      /\ \/ Tail(items) # <<>> /\ UNCHANGED <<pc, begin>>
         \/ pc' = "page" /\ begin' = begin + PageSize
  BY DEF Item
<1>4. WorkerType' /\ ItemsInv'
  BY <1>1, <1>2, <1>3 DEF IInv, TypeOK, WorkerType, ItemsInv, Pcs
<1>5. ProcessType'
  BY <1>3 DEF IInv, TypeOK, ProcessType, process
<1>6. TypeOK'
  BY <1>3, <1>4, <1>5, ItemLists DEF IInv, TypeOK, FaultsType, faults
<1>7. ListsInv'
  BY <1>3, ItemLists, SoundKept DEF IInv, ListsInv
<1>8. AheadInv'
  <2>1. ASSUME NEW i \in Entries \ unread PROVE Extends(trx'[i], history[Addrs[i]])
    <3>1. /\ history[Addrs[i]] \in Seq(Txs) /\ trx[i] \in Seq(Txs) /\ trx'[i] \in Seq(Txs)
      BY EntryFacts, ItemLists DEF IInv, TypeOK, ListsType
    <3>2. Extends(trx[i], history[Addrs[i]]) /\ Extends(trx'[i], trx[i])
      BY <1>1, ItemLists DEF IInv, AheadInv
    <3>. QED BY <3>1, <3>2, ExtendsTransitive
  <2>. QED BY <1>3, <2>1 DEF AheadInv, faults
<1>9. ReaderInv'
  BY <1>3, ItemLists, SoundKept DEF IInv, ReaderInv
<1>. QED BY <1>4, <1>6, <1>7, <1>8, <1>9 DEF IInv

\* save_history replaces a stored list by one that extends it, if that list was
\* read.
LEMMA SaveHistoryStep ==
  ASSUME IInv, SaveHistory
  PROVE  IInv' /\ \A i \in Entries \ unread : Extends(history'[Addrs[i]], history[Addrs[i]])
<1>1. /\ pc = "save" /\ cur \in Entries /\ addr \in Tracked /\ fails \in Nat
      /\ history \in [Tracked -> Seq(Txs)] /\ trx \in [Entries -> Seq(Txs)]
  BY EntryFacts DEF IInv, TypeOK, ListsType, WorkerType, SaveHistory, addr
<1>2. /\ UNCHANGED <<record, trx, process, reader, missed, crashes>>
      /\ \/ history' = [history EXCEPT ![addr] = trx[cur]] /\ unread' = unread \ {cur}
         \/ history' = history /\ unread' = unread
      /\ fails' = fails \/ fails' = fails + 1
  BY DEF SaveHistory, Access
<1>3. pc' \in {"balance", "loop"} /\ WorkerType'
  BY NextAddressType DEF SaveHistory, WorkerType, Pcs
<1>4. \A a \in Tracked : history'[a] = history[a] \/ (a = addr /\ history'[a] = trx[cur])
  BY <1>1, <1>2
<1>5. TypeOK'
  <2>1. ListsType'
    BY <1>1, <1>2 DEF IInv, TypeOK, ListsType
  <2>2. ProcessType'
    BY <1>2 DEF IInv, TypeOK, ProcessType, process
  <2>3. FaultsType'
    BY <1>2 DEF IInv, TypeOK, FaultsType
  <2>. QED BY <1>1, <1>2, <1>3, <2>1, <2>2, <2>3 DEF IInv, TypeOK
<1>6. ListsInv'
  BY <1>1, <1>2, <1>4 DEF IInv, ListsInv
<1>7. AheadInv'
  <2>1. ASSUME NEW i \in Entries \ unread' PROVE Extends(trx[i], history'[Addrs[i]])
    <3>1. CASE Addrs[i] = addr /\ history'[Addrs[i]] = trx[cur]
      <4>1. i = cur
        BY <1>1, <3>1, HistoryAssumption DEF addr
      <4>. QED BY <1>1, <3>1, <4>1, EmptyLists
    <3>2. CASE history'[Addrs[i]] = history[Addrs[i]] /\ i \notin unread
      BY <1>1, <3>2 DEF IInv, AheadInv
    <3>3. i \in unread => i = cur /\ history'[Addrs[i]] = trx[cur]
      BY <1>1, <1>2 DEF addr
    <3>. QED BY <1>4, <3>1, <3>2, <3>3, EntryFacts DEF addr
  <2>. QED BY <1>2, <2>1 DEF AheadInv
<1>8. ReaderInv' /\ ItemsInv'
  BY <1>2, <1>3 DEF IInv, ReaderInv, ItemsInv
<1>9. ASSUME NEW i \in Entries \ unread PROVE Extends(history'[Addrs[i]], history[Addrs[i]])
  <2>1. CASE Addrs[i] = addr /\ history'[Addrs[i]] = trx[cur]
    <3>1. i = cur
      BY <1>1, <2>1, HistoryAssumption DEF addr
    <3>. QED BY <1>1, <2>1, <3>1 DEF IInv, AheadInv
  <2>2. CASE history'[Addrs[i]] = history[Addrs[i]]
    BY <1>1, <2>2, EntryFacts, EmptyLists
  <2>. QED BY <1>4, <2>1, <2>2, EntryFacts
<1>. QED BY <1>5, <1>6, <1>7, <1>8, <1>9 DEF IInv

\* get_history finds a record for every transaction of the list it has read.
LEMMA ReadStep ==
  ASSUME IInv, ReadList \/ ReadTransaction \/ Respond
  PROVE  IInv'
<1>1. UNCHANGED <<store, trx, process, worker, faults, crashes, fails>>
  BY DEF ReadList, ReadTransaction, Respond
<1>2. ListsInv' /\ AheadInv' /\ ItemsInv'
  BY <1>1 DEF IInv, ListsInv, AheadInv, ItemsInv, store, worker, faults
<1>3. /\ ListsType' /\ WorkerType' /\ FaultsType'
      /\ crashes' \in Nat /\ fails' \in Nat /\ record' = record
  BY <1>1 DEF IInv, TypeOK, ListsType, WorkerType, FaultsType, store, worker, faults
<1>4. ProcessType'
  BY <1>1 DEF IInv, TypeOK, ProcessType, process
<1>5. reader' \in ReaderType /\ ReaderInv'
  <2>1. CASE ReadList
    <3>1. PICK a \in Tracked : reader' = [busy |-> TRUE, list |-> history[a], pos |-> 1, doc |-> <<>>]
      BY <2>1 DEF ReadList
    <3>2. history[a] \in Seq(Txs) /\ Sound(history[a], record)
      BY DEF IInv, TypeOK, ListsType, ListsInv
    <3>3. SubSeq(history[a], 1, 0) = <<>>
      BY SubSeqEmpty
    <3>. QED BY <1>3, <3>1, <3>2, <3>3 DEF ReaderType, ReaderInv
  <2>2. CASE ReadTransaction
    <3>. DEFINE l == reader.list
                k == reader.pos
    <3>1. /\ l \in Seq(Txs) /\ k \in 1..Len(l) /\ reader \in ReaderType
          /\ Sound(l, record) /\ reader.doc = SubSeq(l, 1, k - 1)
      BY <2>2 DEF IInv, TypeOK, ReaderType, ReaderInv, ReadTransaction
    <3>2. l[k] \in record /\ l[k] \in Txs
      BY <3>1 DEF Sound
    <3>3. reader' = [reader EXCEPT !.pos = k + 1, !.doc = Append(reader.doc, l[k])]
      BY <2>2, <3>2 DEF ReadTransaction
    <3>4. Append(SubSeq(l, 1, k - 1), l[k]) = SubSeq(l, 1, k)
      <4>. HIDE DEF l, k
      <4>1. SubSeq(l, 1, k) = SubSeq(l, 1, k - 1) \o <<l[k]>>
        BY <3>1, SubSeqRecursiveSecond
      <4>2. SubSeq(l, 1, k - 1) \in Seq(Txs)
        BY <3>1, SubSeqProperties
      <4>. QED BY <3>2, <4>1, <4>2, AppendIsConcat
    <3>5. /\ reader'.list = l /\ reader'.pos = k + 1 /\ reader'.doc = SubSeq(l, 1, k)
          /\ reader' \in ReaderType
      <4>1. Append(reader.doc, l[k]) \in Seq(Txs)
        BY <3>1, <3>2, AppendProperties DEF ReaderType
      <4>2. k + 1 \in Nat
        BY <3>1
      <4>3. reader' = [busy |-> reader.busy, list |-> l, pos |-> k + 1,
                       doc |-> Append(reader.doc, l[k])]
        BY <3>1, <3>3 DEF ReaderType
      <4>4. reader.busy \in BOOLEAN
        BY <3>1 DEF ReaderType
      <4>. HIDE DEF l, k
      <4>. QED BY <3>1, <3>4, <4>1, <4>2, <4>3, <4>4 DEF ReaderType
    <3>6. k + 1 \in 1..(Len(l) + 1) /\ (k + 1) - 1 = k
      BY <3>1
    <3>. QED BY <1>3, <3>1, <3>5, <3>6 DEF ReaderInv
  <2>3. CASE Respond
    BY <2>3, IdleReader DEF Respond
  <2>. QED BY <2>1, <2>2, <2>3
<1>. QED BY <1>2, <1>3, <1>4, <1>5 DEF IInv, TypeOK

\* Every step keeps the invariant.
LEMMA StepHolds ==
  ASSUME IInv, [Next]_vars
  PROVE  IInv'
<1>1. CASE UNCHANGED vars
  <2>1. /\ UNCHANGED <<store, trx, reader, unread, crashes, fails, pc, cur, begin, tx_count, items>>
        /\ missed' \subseteq Requests
    BY <1>1 DEF vars, worker, faults, IInv, TypeOK, FaultsType
  <2>2. WorkerType' /\ (pc' = "item" => items' # <<>>)
    BY <2>1 DEF IInv, TypeOK, WorkerType, ItemsInv
  <2>3. ProcessType'
    BY <1>1 DEF IInv, TypeOK, ProcessType, vars, process
  <2>. QED BY <2>1, <2>2, <2>3, QuietStep
<1>2. CASE Process
  BY <1>2, StartStep, StopStep, EndStep DEF Process
<1>3. CASE Worker
  BY <1>3, LoopStep, PageStep, ItemStep, SaveHistoryStep DEF Worker, WorkerStep
<1>4. CASE GetHistory
  BY <1>4, ReadStep DEF GetHistory
<1>. QED BY <1>1, <1>2, <1>3, <1>4 DEF Next

\* The inductive invariant holds in every reachable state.
THEOREM Invariance == Spec => []IInv
<1>1. Init => IInv
  BY InitHolds
<1>2. IInv /\ [Next]_vars => IInv'
  BY StepHolds
<1>. QED BY <1>1, <1>2, PTL DEF Spec

\* get_history returns all transactions of the list it has read, each once, for
\* every ledger and however often the process dies and Puts fail.
THEOREM AnswersAreExactHolds == Spec => []AnswersAreExact
<1>1. IInv => AnswersAreExact
  BY DEF IInv, ReaderInv, Sound, AnswersAreExact
<1>. QED BY <1>1, Invariance, PTL

\* Only save_history writes a list, and it writes one that extends the stored one,
\* unless start() could not read that list: for every ledger and number of crashes
\* and failures, a failed Get at the start is the only way a transaction can
\* disappear from a history.
THEOREM HistoryOnlyGrowsHolds == Spec => HistoryOnlyGrows
<1>. DEFINE Grows == \A i \in Entries \ unread : Extends(history'[Addrs[i]], history[Addrs[i]])
<1>1. ASSUME IInv, Next
      PROVE  Grows
  <2>1. CASE SaveHistory
    BY <1>1, <2>1, SaveHistoryStep
  <2>2. CASE history' = history
    BY <1>1, <2>2, EmptyLists, EntryFacts DEF IInv, TypeOK, ListsType
  <2>3. ASSUME ~SaveHistory PROVE history' = history
    <3>1. CASE Process
      BY <3>1 DEF Process, Start, Signal, Stop, Exit, Kill, Crash, ProcessEnds, store
    <3>2. CASE Worker
      BY <1>1, <2>3, <3>2 DEF Worker, WorkerStep, WorkerProc, Round, WorkerEnds, PagesDone,
           PageStopped, PageFails, Hang, Item, BalanceFails, Balance, Page, store
    <3>3. CASE GetHistory
      BY <3>3 DEF GetHistory, ReadList, ReadTransaction, Respond, store
    <3>. QED BY <1>1, <3>1, <3>2, <3>3 DEF Next
  <2>. QED BY <2>1, <2>2, <2>3
<1>2. IInv /\ [Next]_vars => [Grows]_vars
  BY <1>1
<1>. QED BY <1>2, Invariance, PTL DEF Spec, HistoryOnlyGrows

=============================================================================
