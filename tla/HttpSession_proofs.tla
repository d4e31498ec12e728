------------------------- MODULE HttpSession_proofs -------------------------
(***************************************************************************)
(* Proofs about HttpSession, for clients that send any sequence of         *)
(* requests, single or batched, of any length.                             *)
(***************************************************************************)
EXTENDS HttpSession, FiniteSetTheorems, TLAPS

(***************************************************************************)
(* The inductive invariant.                                                *)
(***************************************************************************)

Types ==
  /\ script \in Seq(RequestType)
  /\ \A i \in Index : script[i].kind = "single" => Len(script[i].items) = 1
  /\ sent \in 0..Len(script)
  /\ inbox \in Seq(1..sent)
  /\ gone \in BOOLEAN /\ open \in BOOLEAN /\ reading \in BOOLEAN /\ m_http_keep_alive \in BOOLEAN
  /\ keep_setting \in BOOLEAN
  /\ thread \in {"none", "auth", "process", "write", "after"}
  /\ cur \in 0..sent /\ item \in Nat
  /\ m_size \in [Index -> Int]
  /\ m_result \in [Index -> SUBSET Nat]
  /\ pending \subseteq Index \X Nat
  /\ \A p \in pending : script[p[1]].kind # "batch" => script[p[1]].kind = "single" /\ p[2] = 1
  /\ writers \subseteq Index
  /\ wire \in Seq(Response)

\* What a request that has not been taken up looks like.
Untouched(i) ==
  /\ m_size[i] = Len(script[i].items) /\ m_result[i] = {}
  /\ \A p \in pending : p[1] # i
  /\ i \notin writers /\ ~Answered(i)

Fresh(i) == i > sent \/ \E j \in 1..Len(inbox) : inbox[j] = i

\* A request is read once: those in the inbox are different from each other and
\* from all that have been taken up.
InboxInv ==
  /\ \A j, k \in 1..Len(inbox) : inbox[j] = inbox[k] => j = k
  /\ \A i \in Index : Fresh(i) => Untouched(i) /\ i # cur

\* The thread and the request it is at.
ThreadInv ==
  /\ thread # "none" => cur # 0 /\ ~reading
  /\ thread = "auth" => Untouched(cur) /\ item = 1
  /\ thread = "process" => /\ item \in 1..(Len(script[cur].items) + 1)
                           /\ script[cur].kind # "batch" => Untouched(cur) /\ item = 1

\* The response to a request is the end of it.
ResponseInv ==
  \A i \in Index : i \in writers \/ Answered(i) =>
    /\ \A p \in pending : p[1] # i
    /\ ~(thread = "process" /\ cur = i)
    /\ ~(i \in writers /\ Answered(i))

\* The items of request i before item k to which there is a result, and those to
\* which there is none.
Results(i, k) == {x \in 1..(k - 1) : script[i].items[x] # "notification"}
Silent(i, k) == {x \in 1..(k - 1) : script[i].items[x] = "notification"}

\* The items of a batch before item k are accounted for: each is answered,
\* waited for, or taken off the count.
Counted(i, k) ==
  /\ m_size[i] = Len(script[i].items) - Cardinality(Silent(i, k))
  /\ m_result[i] \subseteq Results(i, k)
  /\ \A p \in pending : p[1] = i => p[2] \in Results(i, k) \ m_result[i]
  /\ \A x \in Results(i, k) \ m_result[i] : <<i, x>> \in pending

BatchInv ==
  \A i \in Index : script[i].kind = "batch" =>
    IF thread = "process" /\ cur = i
    THEN Counted(i, item)
    ELSE Untouched(i) \/ Counted(i, Len(script[i].items) + 1)

\* A batch that is being answered is complete.
WrittenInv ==
  \A i \in writers : script[i].kind = "batch" => m_result[i] = Results(i, Len(script[i].items) + 1)

IInv ==
  /\ Types /\ InboxInv /\ ThreadInv /\ ResponseInv /\ BatchInv /\ WrittenInv
  /\ AnsweredAtMostOnce /\ BatchAnswersComplete

\* There is a read under way, or there will be one.
ReadsNext == reading \/ (thread \in {"write", "after"} /\ keep_alive)

AllAnswered == \A i \in 1..sent : Answered(i)

\* What keeps the session of a client that waits from being closed: the connection
\* is kept while a read that is not the first one is under way, and a client
\* without a read ahead of it has been told.
WaitInv ==
  /\ open => \A i \in closers : Answered(i)
  /\ reading /\ cur # 0 => keep_alive
  /\ open /\ ~gone /\ thread = "none" => reading \/ ~keep_alive
  /\ manner = "waits" =>
       /\ \A i \in 1..sent : i < sent => Answered(i)
       /\ gone => AllAnswered
       /\ open /\ ~gone /\ AllAnswered => inbox = <<>> /\ (ReadsNext \/ Told)
       /\ open /\ ~gone /\ ~AllAnswered =>
            \/ inbox = <<sent>> /\ ReadsNext
            \/ /\ cur = sent
               /\ \/ thread \in {"auth", "process"}
                  \/ \E p \in pending : p[1] = sent
                  \/ sent \in writers
                  \/ ~Expecting(sent)

(***************************************************************************)
(* Items of a batch.                                                       *)
(***************************************************************************)

LEMMA ScriptFields ==
  ASSUME Types, NEW i \in Index
  PROVE  /\ script[i].items \in Seq(ItemKinds) /\ Len(script[i].items) \in Nat
         /\ script[i].kind \in {"denied", "bad", "single", "batch"}
         /\ script[i].keep \in BOOLEAN
<1>1. script[i] \in RequestType
  BY DEF Types, Index
<1>. QED
  BY <1>1 DEF RequestType

LEMMA ItemSets ==
  ASSUME NEW i, NEW k \in Nat \ {0}
  PROVE  /\ IsFiniteSet(Results(i, k)) /\ IsFiniteSet(Silent(i, k))
         /\ Cardinality(Results(i, k)) \in Nat /\ Cardinality(Silent(i, k)) \in Nat
         /\ Cardinality(Results(i, k)) = (k - 1) - Cardinality(Silent(i, k))
<1>1. IsFiniteSet(1..(k - 1)) /\ Cardinality(1..(k - 1)) = k - 1
  BY FS_Interval
<1>2. Silent(i, k) \subseteq 1..(k - 1) /\ Results(i, k) = (1..(k - 1)) \ Silent(i, k)
  BY DEF Silent, Results
<1>3. (1..(k - 1)) \cap Silent(i, k) = Silent(i, k)
  BY <1>2
<1>4. IsFiniteSet(Silent(i, k))
  BY <1>1, <1>2, FS_Subset
<1>5. IsFiniteSet(Results(i, k)) /\ Cardinality(Results(i, k)) = (k - 1) - Cardinality(Silent(i, k))
  BY <1>1, <1>2, <1>3, FS_Difference
<1>. QED
  BY <1>4, <1>5, FS_CardinalityType

LEMMA NextItem ==
  ASSUME NEW i, NEW k \in Nat \ {0}
  PROVE  IF script[i].items[k] = "notification"
         THEN /\ Results(i, k + 1) = Results(i, k)
              /\ Cardinality(Silent(i, k + 1)) = Cardinality(Silent(i, k)) + 1
         ELSE /\ Results(i, k + 1) = Results(i, k) \cup {k} /\ k \notin Results(i, k)
              /\ Silent(i, k + 1) = Silent(i, k)
<1>1. CASE script[i].items[k] = "notification"
  <2>1. Silent(i, k + 1) = Silent(i, k) \cup {k} /\ k \notin Silent(i, k)
    BY <1>1 DEF Silent
  <2>2. Results(i, k + 1) = Results(i, k)
    BY <1>1 DEF Results
  <2>. QED
    BY <1>1, <2>1, <2>2, ItemSets, FS_AddElement
<1>2. CASE script[i].items[k] # "notification"
  BY <1>2 DEF Results, Silent
<1>. QED
  BY <1>1, <1>2

\* The counts agree exactly when every result is there.
LEMMA CountsAgree ==
  ASSUME Types, NEW i \in Index, Counted(i, Len(script[i].items) + 1),
         NEW res, res \subseteq Results(i, Len(script[i].items) + 1), m_size[i] = Cardinality(res)
  PROVE  res = Results(i, Len(script[i].items) + 1)
<1>. DEFINE k == Len(script[i].items) + 1
<1>1. k \in Nat \ {0} /\ k - 1 = Len(script[i].items)
  BY ScriptFields
<1>2. Cardinality(Results(i, k)) = m_size[i] /\ IsFiniteSet(Results(i, k))
  BY <1>1, ItemSets DEF Counted
<1>. QED
  BY <1>2, FS_Subset
(***************************************************************************)
(* Frames: what the parts of the invariant depend on.                      *)
(***************************************************************************)

LEMMA AnsweredFrame ==
  ASSUME UNCHANGED wire
  PROVE  \A i : Answered(i)' <=> Answered(i)
BY DEF Answered

LEMMA UntouchedFrame ==
  ASSUME UNCHANGED <<script, m_size, m_result, pending, writers, wire>>
  PROVE  \A i : Untouched(i)' <=> Untouched(i)
BY AnsweredFrame DEF Untouched

LEMMA ItemsFrame ==
  ASSUME UNCHANGED script
  PROVE  /\ Index' = Index /\ Response' = Response
         /\ \A i, k : Results(i, k)' = Results(i, k) /\ Silent(i, k)' = Silent(i, k)
BY DEF Index, Response, Results, Silent

LEMMA CountedFrame ==
  ASSUME UNCHANGED <<script, m_size, m_result, pending>>
  PROVE  \A i, k : Counted(i, k)' <=> Counted(i, k)
BY ItemsFrame DEF Counted

LEMMA WireFrame ==
  ASSUME UNCHANGED <<script, wire>>, AnsweredAtMostOnce, BatchAnswersComplete
  PROVE  AnsweredAtMostOnce' /\ BatchAnswersComplete'
BY DEF AnsweredAtMostOnce, BatchAnswersComplete

\* The bookkeeping of batches when neither it nor the thread moves.
LEMMA BatchFrame ==
  ASSUME BatchInv, WrittenInv, UNCHANGED <<script, m_size, m_result, pending, writers, wire, thread, cur, item>>
  PROVE  BatchInv' /\ WrittenInv'
<1>1. BatchInv'
  BY UntouchedFrame, CountedFrame, ItemsFrame DEF BatchInv
<1>2. WrittenInv'
  BY ItemsFrame DEF WrittenInv
<1>. QED
  BY <1>1, <1>2

LEMMA ResponseFrame ==
  ASSUME ResponseInv, UNCHANGED <<script, pending, writers, wire, thread, cur>>
  PROVE  ResponseInv'
BY AnsweredFrame, ItemsFrame DEF ResponseInv

LEMMA InboxFrame ==
  ASSUME InboxInv, UNCHANGED <<script, sent, inbox, m_size, m_result, pending, writers, wire, cur>>
  PROVE  InboxInv'
BY UntouchedFrame, ItemsFrame DEF InboxInv, Fresh

LEMMA SeqLarger ==
  ASSUME NEW S, NEW T, S \subseteq T, NEW q \in Seq(S)
  PROVE  q \in Seq(T)
OBVIOUS

(***************************************************************************)
(* The client.                                                             *)
(***************************************************************************)

LEMMA SendKeeps ==
  ASSUME IInv, Send
  PROVE  IInv'
<1>. USE DEF IInv
<1>0. UNCHANGED <<fixed, gone, open, reading, thread, cur, item, m_http_keep_alive, batch, writers, wire>>
  BY DEF Send, responses
<1>u. UNCHANGED <<script, m_size, m_result, pending, writers, wire, thread, cur, item>>
  BY <1>0 DEF fixed, batch
<1>i. Index' = Index /\ Response' = Response
  BY <1>u, ItemsFrame
<1>1. Types'
  <2>1. sent' = sent + 1 /\ sent' \in 0..Len(script) /\ sent \in Nat
    BY DEF Send, Types
  <2>2. inbox' \in Seq(1..sent')
    <3>1. inbox \in Seq(1..sent')
      BY <2>1, SeqLarger DEF Types
    <3>. QED
      BY <2>1, <3>1 DEF Send
  <2>. QED
    BY <1>0, <1>i, <2>1, <2>2 DEF Types, fixed, batch
<1>2. InboxInv'
  <2>1. /\ inbox \in Seq(1..sent) /\ sent \in Nat /\ sent' = sent + 1
        /\ inbox' = Append(inbox, sent + 1)
    BY DEF Types, Send
  <2>2. /\ Len(inbox') = Len(inbox) + 1 /\ Len(inbox) \in Nat
        /\ inbox'[Len(inbox) + 1] = sent + 1
        /\ \A j \in 1..Len(inbox) : inbox'[j] = inbox[j] /\ inbox[j] <= sent
    BY <2>1
  <2>3. \A j, k \in 1..Len(inbox') : inbox'[j] = inbox'[k] => j = k
    BY <2>1, <2>2 DEF InboxInv
  <2>4. \A i \in Index : Fresh(i)' => Fresh(i)
    BY <2>1, <2>2 DEF Fresh, Index
  <2>. QED
    BY <1>u, <1>i, <2>3, <2>4, UntouchedFrame DEF InboxInv
<1>3. ThreadInv'
  BY <1>0, <1>u, UntouchedFrame DEF ThreadInv
<1>4. ResponseInv' /\ BatchInv' /\ WrittenInv' /\ AnsweredAtMostOnce' /\ BatchAnswersComplete'
  BY <1>u, ResponseFrame, BatchFrame, WireFrame
<1>. QED
  BY <1>1, <1>2, <1>3, <1>4

\* The steps that change only the flags of the connection.
LEMMA FlagsKeep ==
  ASSUME IInv, Leave \/ ReadFails \/ Destroy \/ UNCHANGED vars
  PROVE  IInv'
<1>. USE DEF IInv
<1>0. /\ UNCHANGED <<fixed, sent, inbox, thread, cur, item, m_http_keep_alive, batch, writers, wire>>
      /\ gone' \in BOOLEAN /\ open' \in BOOLEAN /\ reading' \in BOOLEAN
      /\ reading' => reading
  <2>. gone \in BOOLEAN /\ open \in BOOLEAN /\ reading \in BOOLEAN
    BY DEF Types
  <2>1. CASE Leave
    BY <2>1 DEF Leave, responses
  <2>2. CASE ReadFails
    BY <2>2 DEF ReadFails, client, responses
  <2>3. CASE Destroy
    BY <2>3 DEF Destroy, client, responses
  <2>4. CASE UNCHANGED vars
    BY <2>4 DEF vars, client, responses
  <2>. QED
    BY <2>1, <2>2, <2>3, <2>4
<1>u. UNCHANGED <<script, m_size, m_result, pending, writers, wire, thread, cur, item, sent, inbox>>
  BY <1>0 DEF fixed, batch
<1>i. Index' = Index /\ Response' = Response
  BY <1>u, ItemsFrame
<1>1. Types'
  BY <1>0, <1>i DEF Types, fixed, batch
<1>2. InboxInv'
  BY <1>u, InboxFrame
<1>3. ThreadInv'
  BY <1>0, <1>u, UntouchedFrame DEF ThreadInv
<1>4. ResponseInv' /\ BatchInv' /\ WrittenInv' /\ AnsweredAtMostOnce' /\ BatchAnswersComplete'
  BY <1>u, ResponseFrame, BatchFrame, WireFrame
<1>. QED
  BY <1>1, <1>2, <1>3, <1>4
(***************************************************************************)
(* The thread that reads and processes.                                    *)
(***************************************************************************)

LEMMA AtRequest ==
  ASSUME Types, ThreadInv, thread # "none"
  PROVE  cur \in Index
BY DEF Types, ThreadInv, Index

LEMMA AfterKeeps ==
  ASSUME IInv, After
  PROVE  IInv'
<1>. USE DEF IInv
<1>0. /\ thread = "after" /\ thread' = "none" /\ item' = 1 /\ reading' = keep_alive
      /\ UNCHANGED <<fixed, client, open, cur, m_http_keep_alive, batch, writers, wire>>
  BY DEF After, responses
<1>u. UNCHANGED <<script, m_size, m_result, pending, writers, wire, sent, inbox, cur>>
  BY <1>0 DEF fixed, batch, client
<1>i. Index' = Index /\ Response' = Response
  BY <1>u, ItemsFrame
<1>1. Types'
  <2>1. reading' \in BOOLEAN
    BY <1>0 DEF keep_alive, Types
  <2>2. item' \in Nat
    BY <1>0
  <2>. QED
    BY <1>0, <1>i, <2>1, <2>2 DEF Types, fixed, batch, client
<1>2. InboxInv'
  BY <1>u, InboxFrame
<1>3. ThreadInv'
  BY <1>0 DEF ThreadInv
<1>4. ResponseInv'
  BY <1>0, <1>u, <1>i, AnsweredFrame DEF ResponseInv
<1>5. BatchInv'
  BY <1>0, <1>u, <1>i, UntouchedFrame, CountedFrame DEF BatchInv
<1>6. WrittenInv' /\ AnsweredAtMostOnce' /\ BatchAnswersComplete'
  BY <1>u, ItemsFrame, WireFrame DEF WrittenInv
<1>. QED
  BY <1>1, <1>2, <1>3, <1>4, <1>5, <1>6

LEMMA NoItemsYet ==
  ASSUME Types, NEW i \in Index, Untouched(i)
  PROVE  Counted(i, 1)
<1>1. Results(i, 1) = {} /\ Silent(i, 1) = {}
  BY DEF Results, Silent
<1>2. Cardinality(Silent(i, 1)) = 0
  BY <1>1, FS_EmptySet
<1>. QED
  BY <1>1, <1>2, ScriptFields DEF Counted, Untouched

LEMMA ReadRequestKeeps ==
  ASSUME IInv, ReadRequest
  PROVE  IInv'
<1>. USE DEF IInv
<1>0. /\ reading /\ inbox # <<>>
      /\ reading' = FALSE /\ cur' = Head(inbox) /\ item' = 1 /\ thread' = "auth"
      /\ m_http_keep_alive' = FALSE
      /\ UNCHANGED <<fixed, sent, gone, open, batch, writers, wire>>
  BY DEF ReadRequest, responses
<1>u. UNCHANGED <<script, m_size, m_result, pending, writers, wire, sent>>
  BY <1>0 DEF fixed, batch
<1>i. Index' = Index /\ Response' = Response
  BY <1>u, ItemsFrame
<1>t. thread = "none"
  BY <1>0 DEF ThreadInv, Types
<1>b. /\ inbox \in Seq(1..sent) /\ Len(inbox) \in Nat /\ Len(inbox) >= 1
      /\ cur' = inbox[1] /\ cur' \in 1..sent /\ sent \in 0..Len(script) /\ Len(script) \in Nat
  BY <1>0 DEF Types
<1>c. cur' \in Index
  BY <1>b DEF Index
<1>f. Fresh(cur')
  BY <1>b DEF Fresh
<1>n. Untouched(cur')
  BY <1>c, <1>f DEF InboxInv
<1>k. PICK k \in 1..Len(inbox) : inbox' = SubSeq(inbox, k + 1, Len(inbox))
  BY DEF ReadRequest
<1>s. /\ inbox' \in Seq(1..sent)
      /\ \A j \in 1..Len(inbox') : j + k \in 2..Len(inbox) /\ inbox'[j] = inbox[j + k]
  BY <1>b, <1>k
<1>1. Types'
  <2>1. m_http_keep_alive' \in BOOLEAN
    BY <1>0
  <2>2. cur' \in 0..sent /\ item' \in Nat
    BY <1>0, <1>b
  <2>. QED
    BY <1>0, <1>i, <1>s, <2>1, <2>2 DEF Types, fixed, batch
<1>2. InboxInv'
  <2>1. \A j, l \in 1..Len(inbox') : inbox'[j] = inbox'[l] => j = l
    BY <1>b, <1>s DEF InboxInv
  <2>2. \A i \in Index : Fresh(i)' => Fresh(i) /\ i # cur'
    <3>. SUFFICES ASSUME NEW i \in Index, Fresh(i)' PROVE Fresh(i) /\ i # cur'
      OBVIOUS
    <3>1. CASE i > sent
      BY <3>1, <1>b DEF Fresh
    <3>2. CASE \E j \in 1..Len(inbox') : inbox'[j] = i
      <4>1. PICK j \in 1..Len(inbox') : inbox'[j] = i
        BY <3>2
      <4>2. j + k \in 2..Len(inbox) /\ inbox[j + k] = i
        BY <4>1, <1>s
      <4>. QED
        BY <4>2, <1>b DEF InboxInv, Fresh
    <3>. QED
      BY <3>1, <3>2, <1>u DEF Fresh
  <2>. QED
    BY <1>u, <1>i, <2>1, <2>2, UntouchedFrame DEF InboxInv
<1>3. ThreadInv'
  BY <1>0, <1>u, <1>b, <1>n, UntouchedFrame DEF ThreadInv
<1>4. ResponseInv'
  BY <1>0, <1>u, <1>i, AnsweredFrame DEF ResponseInv
<1>5. BatchInv'
  BY <1>0, <1>t, <1>u, <1>i, UntouchedFrame, CountedFrame DEF BatchInv
<1>6. WrittenInv' /\ AnsweredAtMostOnce' /\ BatchAnswersComplete'
  BY <1>u, ItemsFrame, WireFrame DEF WrittenInv
<1>. QED
  BY <1>1, <1>2, <1>3, <1>4, <1>5, <1>6
LEMMA CheckAuthKeeps ==
  ASSUME IInv, CheckAuth
  PROVE  IInv'
<1>. USE DEF IInv
<1>0. /\ thread = "auth" /\ thread' = "process"
      /\ UNCHANGED <<fixed, client, open, reading, cur, item, batch, writers, wire>>
  BY DEF CheckAuth, responses
<1>u. UNCHANGED <<script, m_size, m_result, pending, writers, wire, sent, inbox, cur, item, reading>>
  BY <1>0 DEF fixed, batch, client
<1>i. Index' = Index /\ Response' = Response
  BY <1>u, ItemsFrame
<1>c. cur \in Index
  BY <1>0, AtRequest
<1>n. Untouched(cur) /\ item = 1
  BY <1>0 DEF ThreadInv
<1>1. Types'
  <2>1. m_http_keep_alive' \in BOOLEAN
    BY <1>c, ScriptFields DEF CheckAuth
  <2>. QED
    BY <1>0, <1>i, <2>1 DEF Types, fixed, batch, client
<1>2. InboxInv'
  BY <1>u, InboxFrame
<1>3. ThreadInv'
  <2>1. 1 \in 1..(Len(script[cur].items) + 1)
    BY <1>c, ScriptFields
  <2>. QED
    BY <1>0, <1>u, <1>n, <2>1, UntouchedFrame DEF ThreadInv
<1>4. ResponseInv'
  BY <1>0, <1>u, <1>i, <1>n, AnsweredFrame DEF ResponseInv, Untouched
<1>5. BatchInv'
  <2>1. Counted(cur, 1)
    BY <1>c, <1>n, NoItemsYet
  <2>. QED
    BY <1>0, <1>u, <1>i, <1>n, <2>1, UntouchedFrame, CountedFrame DEF BatchInv
<1>6. WrittenInv' /\ AnsweredAtMostOnce' /\ BatchAnswersComplete'
  BY <1>u, ItemsFrame, WireFrame DEF WrittenInv
<1>. QED
  BY <1>1, <1>2, <1>3, <1>4, <1>5, <1>6

\* A step that does not concern request i.
LEMMA OtherFrame ==
  ASSUME NEW i, UNCHANGED <<script, wire>>,
         m_size'[i] = m_size[i], m_result'[i] = m_result[i],
         \A p : p[1] = i => (p \in pending' <=> p \in pending),
         i \in writers' <=> i \in writers
  PROVE  /\ Untouched(i)' <=> Untouched(i)
         /\ \A k : Counted(i, k)' <=> Counted(i, k)
<1>1. Untouched(i)' <=> Untouched(i)
  BY AnsweredFrame DEF Untouched
<1>2. ASSUME NEW k PROVE Counted(i, k)' <=> Counted(i, k)
  <2>1. \A x : <<i, x>>[1] = i
    OBVIOUS
  <2>2. Results(i, k)' = Results(i, k) /\ Silent(i, k)' = Silent(i, k)
    BY ItemsFrame
  <2>. QED
    BY <2>1, <2>2 DEF Counted
<1>. QED
  BY <1>1, <1>2

\* The thread is through with the request it is at, and responds or leaves the
\* response to others.
LEMMA EndOfProcessing ==
  ASSUME IInv, thread = "process", thread' \in {"write", "after"},
         writers' = IF thread' = "write" THEN writers \cup {cur} ELSE writers,
         UNCHANGED <<fixed, client, open, reading, cur, item, m_http_keep_alive, m_size, wire>>,
         m_result' \in [Index -> SUBSET Nat], pending' \subseteq Index \X Nat,
         \A p \in pending' : script[p[1]].kind # "batch" => script[p[1]].kind = "single" /\ p[2] = 1,
         \A i \in Index : i # cur => m_result'[i] = m_result[i],
         \A p : p[1] # cur => (p \in pending' <=> p \in pending),
         script[cur].kind = "batch" => Counted(cur, Len(script[cur].items) + 1)',
         thread' = "write" =>
           /\ \A p \in pending' : p[1] # cur
           /\ script[cur].kind = "batch" => m_result'[cur] = Results(cur, Len(script[cur].items) + 1)
  PROVE  IInv'
<1>. USE DEF IInv
<1>u. UNCHANGED <<script, m_size, wire, sent, inbox, cur, reading>>
  BY DEF fixed, client
<1>i. Index' = Index /\ Response' = Response
  BY <1>u, ItemsFrame
<1>c. cur \in Index
  BY AtRequest
<1>o. ASSUME NEW i \in Index, i # cur
      PROVE  /\ Untouched(i)' <=> Untouched(i)
             /\ \A k : Counted(i, k)' <=> Counted(i, k)
  <2>1. i \in writers' <=> i \in writers
    BY <1>o
  <2>. QED
    BY <1>u, <1>o, <2>1, OtherFrame
<1>a. ~Answered(cur) /\ cur \notin writers
  BY <1>c DEF ResponseInv
<1>1. Types'
  <2>1. writers' \subseteq Index
    BY <1>c DEF Types
  <2>. QED
    BY <1>i, <2>1 DEF Types, fixed, client
<1>2. InboxInv'
  <2>1. \A i : Fresh(i)' <=> Fresh(i)
    BY <1>u DEF Fresh
  <2>. QED
    BY <1>u, <1>i, <1>o, <2>1 DEF InboxInv
<1>3. ThreadInv'
  BY <1>u DEF ThreadInv
<1>4. ResponseInv'
  BY <1>u, <1>i, <1>a, AnsweredFrame DEF ResponseInv
<1>5. BatchInv'
  <2>1. ASSUME NEW i \in Index, script[i].kind = "batch"
        PROVE  Untouched(i)' \/ Counted(i, Len(script[i].items) + 1)'
    <3>1. CASE i = cur
      BY <1>u, <2>1, <3>1 DEF Counted, Results, Silent
    <3>2. CASE i # cur
      <4>1. Untouched(i) \/ Counted(i, Len(script[i].items) + 1)
        BY <2>1, <3>2 DEF BatchInv
      <4>2. \A k : Counted(i, k)' <=> Counted(i, k)
        BY <1>o, <3>2
      <4>3. Counted(i, Len(script[i].items) + 1)' <=> Counted(i, Len(script[i].items) + 1)
        BY <1>u, <4>2
      <4>. QED
        BY <1>o, <3>2, <4>1, <4>3
    <3>. QED
      BY <3>1, <3>2
  <2>. QED
    BY <1>u, <1>i, <2>1 DEF BatchInv
<1>6. WrittenInv'
  <2>1. ASSUME NEW i \in writers', script[i].kind = "batch"
        PROVE  m_result'[i] = Results(i, Len(script[i].items) + 1)
    BY <1>a, <2>1 DEF WrittenInv, Types
  <2>. QED
    BY <1>u, <2>1, ItemsFrame DEF WrittenInv
<1>7. AnsweredAtMostOnce' /\ BatchAnswersComplete'
  BY <1>u, WireFrame
<1>. QED
  BY <1>1, <1>2, <1>3, <1>4, <1>5, <1>6, <1>7

LEMMA RefuseKeeps ==
  ASSUME IInv, Refuse
  PROVE  IInv'
<1>. USE DEF IInv
<1>0. /\ thread = "process" /\ thread' = "write" /\ writers' = writers \cup {cur}
      /\ UNCHANGED <<fixed, client, open, reading, cur, item, m_http_keep_alive, batch, wire>>
      /\ \/ script[cur].kind \in {"denied", "bad"}
         \/ script[cur].kind = "batch" /\ script[cur].items = <<>>
  BY DEF Refuse, Respond
<1>u. UNCHANGED <<m_size, m_result, pending, script>>
  BY <1>0 DEF batch, fixed
<1>c. cur \in Index
  BY <1>0, AtRequest
<1>1. CASE script[cur].kind \in {"denied", "bad"}
  <2>1. \A p \in pending : p[1] # cur
    BY <1>0, <1>1 DEF ThreadInv, Untouched
  <2>. QED
    BY <1>0, <1>1, <1>u, <2>1, EndOfProcessing DEF Types
<1>2. CASE script[cur].kind = "batch" /\ script[cur].items = <<>>
  <2>1. Len(script[cur].items) = 0 /\ item = Len(script[cur].items) + 1 /\ item = 1
    BY <1>0, <1>2 DEF ThreadInv
  <2>2. Counted(cur, Len(script[cur].items) + 1) /\ Results(cur, Len(script[cur].items) + 1) = {}
    BY <1>0, <1>2, <1>c, <2>1 DEF BatchInv, Results
  <2>3. (\A p \in pending : p[1] # cur) /\ m_result[cur] = {}
    BY <2>2 DEF Counted
  <2>4. Counted(cur, Len(script[cur].items) + 1)'
    BY <1>0, <1>u, <2>2, CountedFrame
  <2>. QED
    BY <1>0, <1>u, <2>2, <2>3, <2>4, EndOfProcessing DEF Types
<1>. QED
  BY <1>0, <1>1, <1>2

LEMMA BatchEndKeeps ==
  ASSUME IInv, BatchEnd
  PROVE  IInv'
<1>. USE DEF IInv
<1>0. /\ thread = "process" /\ script[cur].kind = "batch" /\ item \notin Items(cur)
      /\ UNCHANGED <<fixed, client, open, reading, cur, item, m_http_keep_alive, batch, wire>>
      /\ IF m_size[cur] = Cardinality(m_result[cur])
         THEN thread' = "write" /\ writers' = writers \cup {cur}
         ELSE thread' = "after" /\ writers' = writers
  BY DEF BatchEnd, Respond
<1>u. UNCHANGED <<m_size, m_result, pending, script>>
  BY <1>0 DEF batch, fixed
<1>c. cur \in Index
  BY <1>0, AtRequest
<1>1. item = Len(script[cur].items) + 1
  BY <1>0, <1>c, ScriptFields DEF ThreadInv, Items
<1>2. Counted(cur, Len(script[cur].items) + 1)
  BY <1>0, <1>1, <1>c DEF BatchInv
<1>3. Counted(cur, Len(script[cur].items) + 1)'
  BY <1>0, <1>u, <1>2, CountedFrame
<1>4. CASE m_size[cur] = Cardinality(m_result[cur])
  <2>1. m_result[cur] = Results(cur, Len(script[cur].items) + 1)
    BY <1>c, <1>2, <1>4, CountsAgree DEF Counted
  <2>2. \A p \in pending : p[1] # cur
    BY <1>2, <2>1 DEF Counted
  <2>. QED
    BY <1>0, <1>u, <1>3, <1>4, <2>1, <2>2, EndOfProcessing DEF Types
<1>5. CASE m_size[cur] # Cardinality(m_result[cur])
  BY <1>0, <1>u, <1>3, <1>5, EndOfProcessing DEF Types
<1>. QED
  BY <1>4, <1>5

LEMMA ProcessSingleKeeps ==
  ASSUME IInv, ProcessSingle
  PROVE  IInv'
<1>. USE DEF IInv
<1>0. /\ thread = "process" /\ script[cur].kind = "single"
      /\ UNCHANGED <<fixed, client, open, reading, cur, item, m_http_keep_alive, m_size, wire>>
      /\ \/ /\ m_result' = [m_result EXCEPT ![cur] = {1}]
            /\ thread' = "write" /\ writers' = writers \cup {cur} /\ pending' = pending
         \/ /\ thread' = "after" /\ UNCHANGED <<m_result, pending, writers>>
         \/ /\ pending' = pending \cup {<<cur, 1>>}
            /\ thread' = "after" /\ UNCHANGED <<m_result, writers>>
  BY DEF ProcessSingle, Respond
<1>c. cur \in Index
  BY <1>0, AtRequest
<1>n. Untouched(cur)
  BY <1>0 DEF ThreadInv
<1>1. m_result' \in [Index -> SUBSET Nat] /\ \A i \in Index : i # cur => m_result'[i] = m_result[i]
  BY <1>0, <1>c DEF Types
<1>2. pending' \subseteq Index \X Nat /\ \A p : p[1] # cur => (p \in pending' <=> p \in pending)
  BY <1>0, <1>c DEF Types
<1>3. thread' = "write" => \A p \in pending' : p[1] # cur
  BY <1>0, <1>n DEF Untouched
<1>4. \A p \in pending' : script[p[1]].kind # "batch" => script[p[1]].kind = "single" /\ p[2] = 1
  BY <1>0 DEF Types
<1>. QED
  BY <1>0, <1>1, <1>2, <1>3, <1>4, EndOfProcessing
LEMMA BatchItemKeeps ==
  ASSUME IInv, BatchItem
  PROVE  IInv'
<1>. USE DEF IInv
<1>0. /\ thread = "process" /\ script[cur].kind = "batch" /\ item \in Items(cur) /\ item' = item + 1
      /\ \/ /\ Kind \in {"invalid", "unknown", "sync"}
            /\ m_result' = [m_result EXCEPT ![cur] = @ \cup {item}]
            /\ UNCHANGED <<m_size, pending>>
         \/ /\ Kind = "notification"
            /\ m_size' = [m_size EXCEPT ![cur] = @ - 1]
            /\ UNCHANGED <<m_result, pending>>
         \/ /\ Kind = "async"
            /\ pending' = pending \cup {<<cur, item>>}
            /\ UNCHANGED <<m_size, m_result>>
      /\ UNCHANGED <<fixed, client, open, reading, thread, cur, m_http_keep_alive, writers, wire>>
  BY DEF BatchItem, responses
<1>u. UNCHANGED <<script, sent, inbox, writers, wire, thread, cur, reading>>
  BY <1>0 DEF fixed, client
<1>i. Index' = Index /\ Response' = Response
  BY <1>u, ItemsFrame
<1>c. cur \in Index
  BY <1>0, AtRequest
<1>k. item \in Nat \ {0} /\ item' \in 1..(Len(script[cur].items) + 1)
  BY <1>0, <1>c, ScriptFields DEF Items
<1>r. /\ m_size' \in [Index -> Int] /\ m_result' \in [Index -> SUBSET Nat]
      /\ pending' \subseteq Index \X Nat
  <2>1. m_size \in [Index -> Int] /\ m_result \in [Index -> SUBSET Nat] /\ pending \subseteq Index \X Nat
    BY DEF Types
  <2>2. m_size' \in [Index -> Int]
    BY <1>0, <1>c, <2>1
  <2>3. m_result' \in [Index -> SUBSET Nat]
    BY <1>0, <1>c, <1>k, <2>1
  <2>4. pending' \subseteq Index \X Nat
    BY <1>0, <1>c, <1>k, <2>1
  <2>. QED
    BY <2>2, <2>3, <2>4
<1>s. /\ \A i \in Index : i # cur => m_size'[i] = m_size[i] /\ m_result'[i] = m_result[i]
      /\ \A p : p[1] # cur => (p \in pending' <=> p \in pending)
  BY <1>0, <1>c DEF Types
<1>o. ASSUME NEW i \in Index, i # cur
      PROVE  /\ Untouched(i)' <=> Untouched(i)
             /\ \A k : Counted(i, k)' <=> Counted(i, k)
  BY <1>u, <1>s, <1>o, OtherFrame
<1>1. Types'
  <2>1. \A p \in pending' : script[p[1]].kind # "batch" => script[p[1]].kind = "single" /\ p[2] = 1
    BY <1>0 DEF Types
  <2>. QED
    BY <1>0, <1>i, <1>k, <1>r, <2>1 DEF Types, fixed, client
<1>2. InboxInv'
  <2>1. \A i : Fresh(i)' <=> Fresh(i)
    BY <1>u DEF Fresh
  <2>. QED
    BY <1>u, <1>i, <1>o, <2>1 DEF InboxInv
<1>3. ThreadInv'
  BY <1>0, <1>u, <1>k DEF ThreadInv
<1>4. ResponseInv'
  <2>1. cur \notin writers /\ ~Answered(cur)
    BY <1>0, <1>c DEF ResponseInv
  <2>2. ASSUME NEW i \in Index, i \in writers \/ Answered(i)
        PROVE  (\A p \in pending' : p[1] # i) /\ ~(thread = "process" /\ cur = i) /\ ~(i \in writers /\ Answered(i))
    BY <1>s, <2>1, <2>2 DEF ResponseInv
  <2>. QED
    BY <1>u, <1>i, <2>2, AnsweredFrame DEF ResponseInv
<1>5. BatchInv'
  <2>1. ASSUME NEW i \in Index, i = cur, NEW k \in Nat \ {0}, k = item
        PROVE  Counted(i, k + 1)'
    <3>1. Counted(i, k)
      BY <1>0, <2>1 DEF BatchInv
    <3>2. Results(i, k + 1)' = Results(i, k + 1) /\ Silent(i, k + 1)' = Silent(i, k + 1)
      BY <1>u, ItemsFrame
    <3>3. script[i].items[k] = Kind
      BY <2>1 DEF Kind
    <3>4. Cardinality(Silent(i, k)) \in Nat /\ Len(script[i].items) \in Nat
      BY ItemSets, ScriptFields
    <3>5. CASE Kind = "notification"
      <4>1. m_size'[i] = m_size[i] - 1 /\ UNCHANGED <<m_result, pending>>
        BY <1>0, <2>1, <3>5 DEF Types
      <4>2. Results(i, k + 1) = Results(i, k) /\ Cardinality(Silent(i, k + 1)) = Cardinality(Silent(i, k)) + 1
        BY <3>3, <3>5, NextItem
      <4>. QED
        BY <1>u, <3>1, <3>2, <3>4, <4>1, <4>2 DEF Counted
    <3>6. CASE Kind # "notification"
      <4>1. /\ Results(i, k + 1) = Results(i, k) \cup {k} /\ k \notin Results(i, k)
            /\ Silent(i, k + 1) = Silent(i, k)
        BY <3>3, <3>6, NextItem
      <4>2. m_size' = m_size
        BY <1>0, <3>6
      <4>3. \/ m_result'[i] = m_result[i] \cup {k} /\ pending' = pending
            \/ m_result'[i] = m_result[i] /\ pending' = pending \cup {<<i, k>>}
        BY <1>0, <2>1, <3>6 DEF Types
      <4>. QED
        BY <1>u, <3>1, <3>2, <4>1, <4>2, <4>3 DEF Counted
    <3>. QED
      BY <3>5, <3>6
  <2>2. ASSUME NEW i \in Index, script[i].kind = "batch", i # cur
        PROVE  Untouched(i)' \/ Counted(i, Len(script[i].items) + 1)'
    <3>1. Untouched(i) \/ Counted(i, Len(script[i].items) + 1)
      BY <2>2 DEF BatchInv
    <3>2. Counted(i, Len(script[i].items) + 1)' <=> Counted(i, Len(script[i].items) + 1)
      BY <1>u, <1>o, <2>2
    <3>. QED
      BY <1>o, <2>2, <3>1, <3>2
  <2>3. ASSUME NEW i \in Index, i = cur PROVE Counted(i, item)'
    BY <1>0, <1>k, <2>1, <2>3
  <2>. QED
    BY <1>0, <1>u, <1>i, <2>2, <2>3 DEF BatchInv
<1>6. WrittenInv'
  <2>1. cur \notin writers
    BY <1>0, <1>c DEF ResponseInv
  <2>2. \A i \in writers : m_result'[i] = m_result[i]
    BY <1>s, <2>1 DEF Types
  <2>. QED
    BY <1>u, <2>2, ItemsFrame DEF WrittenInv
<1>7. AnsweredAtMostOnce' /\ BatchAnswersComplete'
  BY <1>u, WireFrame
<1>. QED
  BY <1>1, <1>2, <1>3, <1>4, <1>5, <1>6, <1>7

(***************************************************************************)
(* Responses and late results.                                             *)
(***************************************************************************)

LEMMA AnsweredAppend ==
  ASSUME Types, NEW w \in writers,
         NEW r \in Response, r.req = w,
         wire' = IF open THEN Append(wire, r) ELSE wire
  PROVE  /\ wire' \in Seq(Response)
         /\ \A i : Answered(i)' <=> Answered(i) \/ (open /\ i = w)
<1>1. wire \in Seq(Response)
  BY DEF Types
<1>2. CASE open
  <2>1. /\ Len(wire') = Len(wire) + 1 /\ Len(wire) \in Nat
        /\ wire'[Len(wire) + 1] = r
        /\ \A j \in 1..Len(wire) : wire'[j] = wire[j]
    BY <1>1, <1>2
  <2>. QED
    BY <1>1, <1>2, <2>1 DEF Answered
<1>3. CASE ~open
  BY <1>1, <1>3 DEF Answered
<1>. QED
  BY <1>2, <1>3

LEMMA WriteKeeps ==
  ASSUME IInv, NEW w \in writers, Write(w)
  PROVE  IInv'
<1>. USE DEF IInv
<1>. DEFINE r == [req |-> w, items |-> m_result[w], close |-> ~keep_alive]
<1>0. /\ writers' = writers \ {w}
      /\ wire' = IF open THEN Append(wire, r) ELSE wire
      /\ UNCHANGED <<fixed, client, open, reading, thread, cur, item, m_http_keep_alive, batch>>
  BY DEF Write
<1>u. UNCHANGED <<script, sent, inbox, thread, cur, item, reading, m_size, m_result, pending>>
  BY <1>0 DEF fixed, client, batch
<1>i. Index' = Index /\ w \in Index /\ Response' = Response
  BY <1>u, ItemsFrame DEF Types
<1>r. r \in Response /\ r.req = w /\ r.items = m_result[w]
  <2>1. m_result[w] \in SUBSET Nat
    BY <1>i DEF Types
  <2>2. keep_alive \in BOOLEAN
    BY DEF keep_alive, Types
  <2>. QED
    BY <1>i, <2>1, <2>2 DEF Response
<1>. HIDE DEF r
<1>a. /\ wire' \in Seq(Response)
      /\ \A i : Answered(i)' <=> Answered(i) \/ (open /\ i = w)
  BY <1>0, <1>r, AnsweredAppend
<1>n. /\ ~Answered(w) /\ (\A p \in pending : p[1] # w) /\ ~(thread = "process" /\ cur = w)
  BY <1>i DEF ResponseInv
<1>o. \A i : Untouched(i) => Untouched(i)'
  BY <1>0, <1>u, <1>a DEF Untouched
<1>1. Types'
  <2>1. writers' \subseteq Index
    BY <1>0 DEF Types
  <2>. QED
    BY <1>0, <1>i, <1>a, <2>1 DEF Types, fixed, client, batch
<1>2. InboxInv'
  <2>1. \A i : Fresh(i)' <=> Fresh(i)
    BY <1>u DEF Fresh
  <2>. QED
    BY <1>u, <1>i, <1>o, <2>1 DEF InboxInv
<1>3. ThreadInv'
  BY <1>u, <1>o DEF ThreadInv
<1>4. ResponseInv'
  BY <1>0, <1>u, <1>i, <1>a, <1>n DEF ResponseInv
<1>5. BatchInv'
  <2>1. \A i, k : Counted(i, k)' <=> Counted(i, k)
    BY <1>u, CountedFrame
  <2>. QED
    BY <1>u, <1>i, <1>o, <2>1 DEF BatchInv
<1>6. WrittenInv'
  BY <1>0, <1>u, ItemsFrame DEF WrittenInv
<1>7. AnsweredAtMostOnce' /\ BatchAnswersComplete'
  <2>1. CASE open
    <3>1. wire \in Seq(Response) /\ wire' = Append(wire, r)
      BY <1>0, <2>1 DEF Types
    <3>2. /\ Len(wire') = Len(wire) + 1 /\ Len(wire) \in Nat
          /\ wire'[Len(wire) + 1].req = w /\ wire'[Len(wire) + 1].items = m_result[w]
          /\ \A j \in 1..Len(wire) : wire'[j] = wire[j] /\ wire[j].req # w
      BY <3>1, <1>n, <1>r DEF Answered
    <3>3. AnsweredAtMostOnce'
      BY <3>2 DEF AnsweredAtMostOnce
    <3>4. script[w].kind = "batch" =>
            m_result[w] = {k \in 1..Len(script[w].items) : script[w].items[k] # "notification"}
      <4>1. (Len(script[w].items) + 1) - 1 = Len(script[w].items)
        BY <1>i, ScriptFields
      <4>. QED
        BY <4>1 DEF WrittenInv, Results
    <3>5. BatchAnswersComplete'
      BY <1>u, <3>2, <3>4 DEF BatchAnswersComplete
    <3>. QED
      BY <3>3, <3>5
  <2>2. CASE ~open
    BY <1>0, <1>u, <2>2, WireFrame
  <2>. QED
    BY <2>1, <2>2
<1>. QED
  BY <1>1, <1>2, <1>3, <1>4, <1>5, <1>6, <1>7
LEMMA EndResponseKeeps ==
  ASSUME IInv, NEW w \in closers, EndResponse(w)
  PROVE  IInv'
<1>. USE DEF IInv
<1>0. /\ thread' = thread \/ (thread = "write" /\ thread' = "after")
      /\ open' = (open /\ keep_alive)
      /\ UNCHANGED <<fixed, client, reading, cur, item, m_http_keep_alive, batch, writers, wire>>
  BY DEF EndResponse
<1>u. UNCHANGED <<script, m_size, m_result, pending, writers, wire, sent, inbox, cur, item, reading>>
  BY <1>0 DEF fixed, batch, client
<1>i. Index' = Index /\ Response' = Response
  BY <1>u, ItemsFrame
<1>1. Types'
  <2>1. open' \in BOOLEAN /\ thread' \in {"none", "auth", "process", "write", "after"}
    BY <1>0 DEF keep_alive, Types
  <2>. QED
    BY <1>0, <1>i, <2>1 DEF Types, fixed, client, batch
<1>2. InboxInv'
  BY <1>u, InboxFrame
<1>3. ThreadInv'
  BY <1>0, <1>u, UntouchedFrame DEF ThreadInv
<1>4. ResponseInv'
  BY <1>0, <1>u, <1>i, AnsweredFrame DEF ResponseInv
<1>5. BatchInv'
  BY <1>0, <1>u, <1>i, UntouchedFrame, CountedFrame DEF BatchInv
<1>6. WrittenInv' /\ AnsweredAtMostOnce' /\ BatchAnswersComplete'
  BY <1>u, ItemsFrame, WireFrame DEF WrittenInv
<1>. QED
  BY <1>1, <1>2, <1>3, <1>4, <1>5, <1>6

LEMMA CompleteKeeps ==
  ASSUME IInv, NEW p \in pending, Complete(p)
  PROVE  IInv'
<1>. USE DEF IInv
<1>. DEFINE n == p[1]
            full == Results(n, Len(script[n].items) + 1)
<1>0. /\ script[n].kind = "batch" => ~Locked(n)
      /\ pending' = pending \ {p}
      /\ m_result' = [m_result EXCEPT ![n] = @ \cup {p[2]}]
      /\ writers' = IF script[n].kind = "single" \/ m_size[n] = Cardinality(m_result'[n])
                    THEN writers \cup {n} ELSE writers
      /\ UNCHANGED <<fixed, client, open, reading, thread, cur, item, m_http_keep_alive, m_size, wire>>
  BY DEF Complete
<1>u. UNCHANGED <<script, sent, inbox, wire, thread, cur, item, reading, m_size>>
  BY <1>0 DEF fixed, client
<1>i. Index' = Index /\ Response' = Response /\ n \in Index /\ p[2] \in Nat /\ p = <<n, p[2]>>
  BY <1>u, ItemsFrame DEF Types
<1>r. /\ m_result' \in [Index -> SUBSET Nat] /\ m_result'[n] = m_result[n] \cup {p[2]}
      /\ \A i \in Index : i # n => m_result'[i] = m_result[i]
  <2>1. m_result \in [Index -> SUBSET Nat]
    BY DEF Types
  <2>. QED
    BY <1>0, <1>i, <2>1
<1>n. /\ n \notin writers /\ ~Answered(n) /\ ~Untouched(n)
  BY <1>i DEF ResponseInv, Untouched
<1>t. ~(thread \in {"auth", "process"} /\ cur = n)
  BY <1>0, <1>n DEF ThreadInv, Locked
<1>o. ASSUME NEW i \in Index, i # n
      PROVE  /\ Untouched(i)' <=> Untouched(i)
             /\ \A k : Counted(i, k)' <=> Counted(i, k)
  <2>1. i \in writers' <=> i \in writers
    BY <1>0, <1>o
  <2>2. \A q : q[1] = i => (q \in pending' <=> q \in pending)
    BY <1>0, <1>o
  <2>. QED
    BY <1>u, <1>r, <1>o, <2>1, <2>2, OtherFrame
\* The batch of the result that comes in.
<1>b. ASSUME script[n].kind = "batch"
      PROVE  /\ Counted(n, Len(script[n].items) + 1)
             /\ p[2] \in full /\ m_result'[n] \subseteq full
             /\ \A q \in pending' : q[1] = n => q[2] \in full \ m_result'[n]
             /\ \A x \in full \ m_result'[n] : <<n, x>> \in pending'
  <2>1. Counted(n, Len(script[n].items) + 1)
    BY <1>b, <1>i, <1>n, <1>t DEF BatchInv
  <2>2. p[2] \in full \ m_result[n]
    BY <2>1 DEF Counted
  <2>3. \A q \in pending' : q \in Index \X Nat /\ q = <<q[1], q[2]>> /\ q # p
    BY <1>0 DEF Types
  <2>4. ASSUME NEW q \in pending', q[1] = n PROVE q[2] \in full \ m_result'[n]
    <3>1. q[2] # p[2]
      BY <1>i, <2>3, <2>4
    <3>. QED
      BY <1>0, <1>r, <2>1, <2>4, <3>1 DEF Counted
  <2>5. ASSUME NEW x \in full \ m_result'[n] PROVE <<n, x>> \in pending'
    <3>1. x \in full \ m_result[n] /\ x # p[2]
      BY <1>r, <2>5
    <3>2. <<n, x>> \in pending
      BY <2>1, <3>1 DEF Counted
    <3>3. <<n, x>> # p
      BY <3>1
    <3>. QED
      BY <1>0, <3>2, <3>3
  <2>6. m_result'[n] \subseteq full
    BY <1>r, <2>1, <2>2 DEF Counted
  <2>. QED
    BY <2>1, <2>2, <2>4, <2>5, <2>6
<1>w. ASSUME n \in writers'
      PROVE  /\ \A q \in pending' : q[1] # n
             /\ script[n].kind = "batch" => m_result'[n] = full
  <2>1. CASE script[n].kind = "batch"
    <3>1. m_size[n] = Cardinality(m_result'[n])
      BY <1>0, <1>n, <1>w, <2>1
    <3>2. m_result'[n] = full
      BY <1>b, <1>i, <2>1, <3>1, CountsAgree
    <3>. QED
      BY <1>b, <2>1, <3>2
  <2>2. CASE script[n].kind # "batch"
    <3>1. ASSUME NEW q \in pending', q[1] = n PROVE FALSE
      <4>1. q \in pending /\ q # p
        BY <1>0
      <4>2. q[2] = 1 /\ p[2] = 1
        BY <2>2, <3>1, <4>1 DEF Types
      <4>3. q = <<q[1], q[2]>> /\ p = <<p[1], p[2]>>
        BY <4>1 DEF Types
      <4>. QED
        BY <3>1, <4>1, <4>2, <4>3
    <3>. QED
      BY <2>2, <3>1
  <2>. QED
    BY <2>1, <2>2
<1>1. Types'
  <2>1. writers' \subseteq Index /\ pending' \subseteq Index \X Nat
        /\ \A q \in pending' : script[q[1]].kind # "batch" => script[q[1]].kind = "single" /\ q[2] = 1
    BY <1>0, <1>i DEF Types
  <2>. QED
    BY <1>0, <1>i, <1>r, <2>1 DEF Types, fixed, client
<1>2. InboxInv'
  <2>1. \A i : Fresh(i)' <=> Fresh(i)
    BY <1>u DEF Fresh
  <2>. QED
    BY <1>u, <1>i, <1>n, <1>o, <2>1 DEF InboxInv
<1>3. ThreadInv'
  <2>1. writers \subseteq writers'
    BY <1>0
  <2>2. thread \in {"auth", "process"} => cur # n /\ cur \in Index
    BY <1>t, AtRequest
  <2>. QED
    BY <1>u, <1>o, <2>1, <2>2 DEF ThreadInv
<1>4. ResponseInv'
  <2>1. \A i : Answered(i)' <=> Answered(i)
    BY <1>u, AnsweredFrame
  <2>2. ASSUME NEW i \in Index, i \in writers' \/ Answered(i)
        PROVE  (\A q \in pending' : q[1] # i) /\ ~(thread = "process" /\ cur = i) /\ ~(i \in writers' /\ Answered(i))
    <3>1. CASE i = n
      BY <1>n, <1>t, <1>w, <2>2, <3>1
    <3>2. CASE i # n
      BY <1>0, <2>2, <3>2 DEF ResponseInv
    <3>. QED
      BY <3>1, <3>2
  <2>. QED
    BY <1>u, <1>i, <2>1, <2>2 DEF ResponseInv
<1>5. BatchInv'
  <2>1. ASSUME NEW i \in Index, script[i].kind = "batch", ~(thread = "process" /\ cur = i)
        PROVE  Untouched(i)' \/ Counted(i, Len(script[i].items) + 1)'
    <3>1. CASE i = n
      <4>1. m_size'[n] = Len(script[n].items) - Cardinality(Silent(n, Len(script[n].items) + 1))
        BY <1>b, <1>u, <2>1, <3>1 DEF Counted
      <4>2. Counted(i, Len(script[i].items) + 1)'
        BY <1>b, <1>u, <2>1, <3>1, <4>1, ItemsFrame DEF Counted
      <4>. QED
        BY <4>2
    <3>2. CASE i # n
      <4>1. Untouched(i) \/ Counted(i, Len(script[i].items) + 1)
        BY <2>1 DEF BatchInv
      <4>2. Counted(i, Len(script[i].items) + 1)' <=> Counted(i, Len(script[i].items) + 1)
        BY <1>u, <1>o, <3>2
      <4>. QED
        BY <1>o, <3>2, <4>1, <4>2
    <3>. QED
      BY <3>1, <3>2
  <2>2. ASSUME NEW i \in Index, script[i].kind = "batch", thread = "process", cur = i
        PROVE  Counted(i, item)'
    <3>1. Counted(i, item) /\ i # n
      BY <1>t, <2>2 DEF BatchInv
    <3>2. Counted(i, item)' <=> Counted(i, item)
      BY <1>u, <1>o, <3>1
    <3>. QED
      BY <3>1, <3>2
  <2>. QED
    BY <1>u, <1>i, <2>1, <2>2 DEF BatchInv
<1>6. WrittenInv'
  <2>1. ASSUME NEW i \in writers', script[i].kind = "batch"
        PROVE  m_result'[i] = Results(i, Len(script[i].items) + 1)
    <3>1. CASE i = n
      BY <1>w, <2>1, <3>1
    <3>2. CASE i # n
      BY <1>0, <1>r, <2>1, <3>2 DEF WrittenInv, Types
    <3>. QED
      BY <3>1, <3>2
  <2>. QED
    BY <1>u, <2>1, ItemsFrame DEF WrittenInv
<1>7. AnsweredAtMostOnce' /\ BatchAnswersComplete'
  BY <1>u, WireFrame
<1>. QED
  BY <1>1, <1>2, <1>3, <1>4, <1>5, <1>6, <1>7
(***************************************************************************)
(* Every request is answered at most once, and completely.                 *)
(***************************************************************************)

LEMMA InitIInv == Init => IInv
<1>. SUFFICES ASSUME Init PROVE IInv
  OBVIOUS
<1>1. /\ script \in Seq(RequestType)
      /\ \A i \in Index : script[i].kind = "single" => Len(script[i].items) = 1
      /\ keep_setting \in BOOLEAN
  BY ScriptsAssumption DEF Init, Index
<1>2. sent = 0 /\ inbox = <<>> /\ cur = 0 /\ item = 1 /\ thread = "none" /\ wire = <<>>
      /\ pending = {} /\ writers = {}
  BY DEF Init
<1>3. \A i \in Index : Len(script[i].items) \in Nat
  <2>1. \A i \in Index : script[i] \in RequestType
    BY <1>1 DEF Index
  <2>. QED
    BY <2>1 DEF RequestType
<1>4. m_size \in [Index -> Int] /\ m_result \in [Index -> SUBSET Nat]
  BY <1>3 DEF Init
<1>5. sent \in 0..Len(script) /\ inbox \in Seq(1..sent) /\ wire \in Seq(Response)
  BY <1>1, <1>2
<1>6. Types
  <2>1. gone \in BOOLEAN /\ open \in BOOLEAN /\ reading \in BOOLEAN /\ m_http_keep_alive \in BOOLEAN
    BY DEF Init
  <2>2. cur \in 0..sent /\ item \in Nat /\ thread \in {"none", "process", "write", "after"}
    BY <1>2
  <2>3. pending \subseteq Index \X Nat /\ writers \subseteq Index
        /\ \A p \in pending : script[p[1]].kind # "batch" => script[p[1]].kind = "single" /\ p[2] = 1
    BY <1>2
  <2>. QED
    BY <1>1, <1>4, <1>5, <2>1, <2>2, <2>3 DEF Types
<1>7. \A i \in Index : Untouched(i) /\ i # cur
  BY <1>2, <1>5 DEF Init, Untouched, Answered, Index
<1>8. InboxInv /\ ThreadInv /\ ResponseInv /\ BatchInv /\ WrittenInv
  <2>1. \A i : ~Answered(i) /\ i \notin writers
    BY <1>2, <1>5 DEF Answered
  <2>. QED
    BY <1>2, <1>7, <2>1 DEF InboxInv, ThreadInv, ResponseInv, BatchInv, WrittenInv
<1>9. AnsweredAtMostOnce /\ BatchAnswersComplete
  BY <1>2 DEF AnsweredAtMostOnce, BatchAnswersComplete
<1>. QED
  BY <1>6, <1>8, <1>9 DEF IInv

LEMMA NextIInv == IInv /\ [Next]_vars => IInv'
<1>. SUFFICES ASSUME IInv, [Next]_vars PROVE IInv'
  OBVIOUS
<1>1. CASE Send
  BY <1>1, SendKeeps
<1>2. CASE Leave \/ ReadFails \/ Destroy \/ UNCHANGED vars
  BY <1>2, FlagsKeep
<1>3. CASE ReadRequest
  BY <1>3, ReadRequestKeeps
<1>4. CASE Refuse
  BY <1>4, RefuseKeeps
<1>5. CASE ProcessSingle
  BY <1>5, ProcessSingleKeeps
<1>6. CASE BatchItem
  BY <1>6, BatchItemKeeps
<1>7. CASE BatchEnd
  BY <1>7, BatchEndKeeps
<1>8. CASE After
  BY <1>8, AfterKeeps
<1>9. ASSUME NEW i \in writers, Write(i) PROVE IInv'
  BY <1>9, WriteKeeps
<1>11. ASSUME NEW i \in closers, EndResponse(i) PROVE IInv'
  BY <1>11, EndResponseKeeps
<1>12. CASE CheckAuth
  BY <1>12, CheckAuthKeeps
<1>10. ASSUME NEW p \in pending, Complete(p) PROVE IInv'
  BY <1>10, CompleteKeeps
<1>. QED
  BY <1>1, <1>2, <1>3, <1>4, <1>5, <1>6, <1>7, <1>8, <1>9, <1>10, <1>11, <1>12 DEF Next, Server

LEMMA IInvHolds == Spec => []IInv
BY InitIInv, NextIInv, PTL DEF Spec

\* No request, single or batch, is answered twice, however long the batch and
\* whichever of process and the late results (send_json) comes last.
THEOREM AnsweredAtMostOnceHolds == Spec => []AnsweredAtMostOnce
<1>1. IInv => AnsweredAtMostOnce
  BY DEF IInv
<1>. QED
  BY <1>1, IInvHolds, PTL

\* The response to a batch has one result for each of its items but the
\* notifications (json_batch_request.cpp: m_size against the size of m_result).
THEOREM BatchAnswersCompleteHolds == Spec => []BatchAnswersComplete
<1>1. IInv => BatchAnswersComplete
  BY DEF IInv
<1>. QED
  BY <1>1, IInvHolds, PTL
(***************************************************************************)
(* A client that waits is not cut off, unless its request was overtaken.   *)
(***************************************************************************)

LEMMA InitWait == Init => WaitInv
<1>. SUFFICES ASSUME Init PROVE WaitInv
  OBVIOUS
<1>1. /\ sent = 0 /\ inbox = <<>> /\ gone = FALSE /\ open = TRUE /\ reading = TRUE
      /\ cur = 0 /\ closers = {}
  BY DEF Init
<1>2. AllAnswered
  BY <1>1 DEF AllAnswered
<1>. QED
  BY <1>1, <1>2 DEF WaitInv, ReadsNext

\* Of a client that waits, only the last request may be without an answer.
LEMMA LastIsOpen ==
  ASSUME IInv, WaitInv, manner = "waits", NEW i \in 1..sent, ~Answered(i)
  PROVE  i = sent /\ ~AllAnswered
<1>1. sent \in Nat
  BY DEF IInv, Types
<1>. QED
  BY <1>1 DEF WaitInv, AllAnswered

LEMMA SendWaits ==
  ASSUME IInv, WaitInv, Send
  PROVE  WaitInv'
<1>0. /\ open /\ ~gone /\ sent < Len(script) /\ sent' = sent + 1 /\ inbox' = Append(inbox, sent + 1)
      /\ manner = "waits" => AllAnswered /\ ~Told
      /\ UNCHANGED <<script, manner, keep_setting, gone, open, reading, thread, cur, item, m_http_keep_alive,
                     pending, writers, closers, wire>>
  BY DEF Send, AllAnswered, fixed, batch, responses
<1>1. (keep_alive' <=> keep_alive) /\ (ReadsNext' <=> ReadsNext)
  BY <1>0 DEF keep_alive, ReadsNext
<1>2. sent \in Nat /\ \A i : Answered(i)' <=> Answered(i)
  BY <1>0, AnsweredFrame DEF IInv, Types
<1>3. CASE manner = "waits"
  <2>1. inbox = <<>> /\ ReadsNext
    BY <1>0, <1>3 DEF WaitInv
  <2>2. inbox' = <<sent'>>
    BY <1>0, <2>1
  <2>3. \A i \in 1..sent' : i < sent' => Answered(i)'
    BY <1>0, <1>2, <1>3 DEF AllAnswered
  <2>4. ~AllAnswered'
    <3>1. sent + 1 \in Index /\ sent + 1 > sent
      BY <1>0, <1>2 DEF IInv, Types, Index
    <3>2. ~Answered(sent + 1)
      BY <3>1 DEF IInv, InboxInv, Fresh, Untouched
    <3>3. sent' \in 1..sent' /\ ~(\A i \in 1..sent' : Answered(i)')
      BY <1>0, <1>2, <3>2
    <3>. QED
      BY <3>3 DEF AllAnswered
  <2>. QED
    BY <1>0, <1>1, <1>2, <2>1, <2>2, <2>3, <2>4 DEF WaitInv
<1>4. CASE manner # "waits"
  BY <1>0, <1>1, <1>2, <1>4 DEF WaitInv
<1>. QED
  BY <1>3, <1>4

LEMMA FlagsWait ==
  ASSUME IInv, WaitInv, Leave \/ ReadFails \/ Destroy \/ UNCHANGED vars
  PROVE  WaitInv'
<1>0. /\ UNCHANGED <<script, manner, keep_setting, sent, inbox, thread, cur, item, m_http_keep_alive, pending,
                     writers, closers, wire>>
      /\ open' => open
      /\ reading' => reading
  BY DEF Leave, ReadFails, Destroy, vars, fixed, client, batch, responses
<1>1. (keep_alive' <=> keep_alive) /\ (AllAnswered' <=> AllAnswered) /\ \A i : Answered(i)' <=> Answered(i)
  BY <1>0, AnsweredFrame DEF keep_alive, AllAnswered
<1>2. CASE Leave
  <2>1. gone' /\ (manner = "waits" => AllAnswered)
    BY <1>2 DEF Leave, AllAnswered
  <2>. QED
    BY <1>0, <1>1, <2>1 DEF WaitInv
<1>3. CASE ReadFails
  <2>1. ~(open' /\ ~gone') /\ gone' = gone
    BY <1>3 DEF ReadFails, client
  <2>. QED
    BY <1>0, <1>1, <2>1 DEF WaitInv
<1>4. CASE Destroy
  <2>1. ~open' /\ gone' = gone
    BY <1>4 DEF Destroy, client
  <2>. QED
    BY <1>0, <1>1, <2>1 DEF WaitInv
<1>5. CASE UNCHANGED vars
  <2>1. gone' = gone /\ open' = open /\ reading' = reading
    BY <1>5 DEF vars, client
  <2>2. (ReadsNext' <=> ReadsNext) /\ (Told' <=> Told)
    BY <1>0, <1>1, <2>1 DEF ReadsNext, Told
  <2>3. Expecting(sent)' <=> Expecting(sent)
    BY <1>0 DEF Expecting
  <2>. QED
    BY <1>0, <1>1, <2>1, <2>2, <2>3 DEF WaitInv
<1>. QED
  BY <1>2, <1>3, <1>4, <1>5

LEMMA ReadRequestWaits ==
  ASSUME IInv, WaitInv, ReadRequest
  PROVE  WaitInv'
<1>0. /\ reading /\ open /\ inbox # <<>> /\ cur' = Head(inbox) /\ thread' = "auth" /\ ~reading'
      /\ UNCHANGED <<manner, sent, gone, open, closers, wire>>
  BY DEF ReadRequest, fixed, responses
<1>1. (AllAnswered' <=> AllAnswered) /\ \A i : Answered(i)' <=> Answered(i)
  BY <1>0, AnsweredFrame DEF AllAnswered
<1>2. thread' # "none"
  BY <1>0
<1>3. CASE manner = "waits" /\ ~gone
  <2>1. /\ inbox \in Seq(1..sent) /\ Len(inbox) >= 1 /\ inbox[1] \in 1..sent /\ cur' = inbox[1]
        /\ sent \in 0..Len(script) /\ Len(script) \in Nat
    BY <1>0 DEF IInv, Types
  <2>2. cur' \in Index /\ Fresh(cur')
    BY <2>1 DEF Index, Fresh
  <2>3. ~Answered(cur')
    BY <2>2 DEF IInv, InboxInv, Untouched
  <2>4. cur' = sent /\ ~AllAnswered
    BY <1>3, <2>1, <2>3, LastIsOpen
  <2>. QED
    BY <1>0, <1>1, <1>2, <1>3, <2>4 DEF WaitInv
<1>4. CASE manner # "waits" \/ gone
  BY <1>0, <1>1, <1>2, <1>4 DEF WaitInv
<1>. QED
  BY <1>3, <1>4

\* What a step of the processing thread has to see to.
LEMMA ProcessingWaits ==
  ASSUME IInv, WaitInv, thread \in {"auth", "process"}, thread' \in {"process", "write", "after"},
         UNCHANGED <<script, manner, keep_setting, sent, gone, open, reading, cur, closers, wire>>,
         \/ thread' = "process"
         \/ \E p \in pending' : p[1] = cur
         \/ cur \in writers'
         \/ ~Expecting(cur)
  PROVE  WaitInv'
<1>1. (AllAnswered' <=> AllAnswered) /\ \A i : Answered(i)' <=> Answered(i)
  BY AnsweredFrame DEF AllAnswered
<1>2. thread' # "none" /\ ~reading'
  BY DEF IInv, ThreadInv
<1>3. CASE manner = "waits"
  <2>1. cur \in Index /\ cur \in 1..sent
    BY AtRequest DEF IInv, ThreadInv, Types
  <2>2. ~Answered(cur)
    BY <2>1 DEF IInv, ResponseInv, ThreadInv, Untouched
  <2>3. cur = sent /\ ~AllAnswered
    BY <1>3, <2>1, <2>2, LastIsOpen
  <2>4. Expecting(sent)' <=> Expecting(sent)
    BY DEF Expecting
  <2>. QED
    BY <1>1, <1>2, <2>3, <2>4 DEF WaitInv
<1>4. CASE manner # "waits"
  BY <1>1, <1>2, <1>4 DEF WaitInv
<1>. QED
  BY <1>3, <1>4

LEMMA ProcessWaits ==
  ASSUME IInv, WaitInv, CheckAuth \/ Refuse \/ ProcessSingle \/ BatchItem \/ BatchEnd
  PROVE  WaitInv'
<1>0. /\ thread \in {"auth", "process"}
      /\ UNCHANGED <<script, manner, keep_setting, sent, gone, open, reading, cur, closers, wire>>
  BY DEF CheckAuth, Refuse, ProcessSingle, BatchItem, BatchEnd, fixed, client, responses
<1>c. cur \in Index
  BY <1>0, AtRequest DEF IInv
<1>1. CASE Refuse
  <2>1. thread' = "write" /\ cur \in writers'
    BY <1>1 DEF Refuse, Respond
  <2>. QED
    BY <1>0, <2>1, ProcessingWaits
<1>2. CASE ProcessSingle
  <2>1. /\ thread = "process" /\ thread' \in {"write", "after"} /\ script[cur].kind = "single"
        /\ cur \in writers' \/ Kind = "notification" \/ <<cur, 1>> \in pending'
    BY <1>2 DEF ProcessSingle, Respond
  <2>2. Kind = "notification" => ~Expecting(cur)
    <3>1. item = 1 /\ Len(script[cur].items) = 1 /\ script[cur].items \in Seq(ItemKinds)
      BY <1>c, <2>1, ScriptFields DEF IInv, Types, ThreadInv
    <3>2. script[cur].items = <<script[cur].items[1]>>
      BY <3>1
    <3>. QED
      BY <2>1, <3>1, <3>2 DEF Expecting, Kind
  <2>. QED
    BY <1>0, <2>1, <2>2, ProcessingWaits
<1>3. CASE BatchItem \/ CheckAuth
  <2>1. thread' = "process"
    BY <1>3 DEF BatchItem, CheckAuth
  <2>. QED
    BY <1>0, <2>1, ProcessingWaits
<1>4. CASE BatchEnd
  <2>1. CASE m_size[cur] = Cardinality(m_result[cur])
    BY <1>0, <1>4, <2>1, ProcessingWaits DEF BatchEnd, Respond
  <2>2. CASE m_size[cur] # Cardinality(m_result[cur])
    <3>. DEFINE k == Len(script[cur].items) + 1
    <3>1. /\ thread = "process" /\ thread' = "after" /\ pending' = pending
          /\ script[cur].kind = "batch" /\ item \notin Items(cur)
      BY <1>4, <2>2 DEF BatchEnd, batch
    <3>2. item = k /\ k \in Nat \ {0} /\ k - 1 = Len(script[cur].items)
      BY <1>c, <3>1, ScriptFields DEF IInv, ThreadInv, Items
    <3>3. Counted(cur, k)
      BY <1>c, <3>1, <3>2 DEF IInv, BatchInv
    <3>4. Cardinality(Results(cur, k)) = m_size[cur]
      BY <3>2, <3>3, ItemSets DEF Counted
    <3>5. Results(cur, k) # m_result[cur]
      BY <2>2, <3>4
    <3>6. PICK x \in Results(cur, k) : x \notin m_result[cur]
      BY <3>3, <3>5 DEF Counted
    <3>7. <<cur, x>> \in pending
      BY <3>3, <3>6 DEF Counted
    <3>. QED
      BY <1>0, <3>1, <3>7, ProcessingWaits
  <2>. QED
    BY <2>1, <2>2
<1>. QED
  BY <1>1, <1>2, <1>3, <1>4

LEMMA AfterWaits ==
  ASSUME IInv, WaitInv, After
  PROVE  WaitInv'
<1>0. /\ thread = "after" /\ thread' = "none" /\ reading' = keep_alive
      /\ UNCHANGED <<script, manner, keep_setting, sent, inbox, gone, open, cur, m_http_keep_alive, pending,
                     writers, closers, wire>>
  BY DEF After, fixed, client, batch, responses
<1>1. /\ keep_alive' <=> keep_alive
      /\ AllAnswered' <=> AllAnswered
      /\ Told' <=> Told
      /\ \A i : Answered(i)' <=> Answered(i)
      /\ Expecting(sent)' <=> Expecting(sent)
  BY <1>0, AnsweredFrame DEF keep_alive, AllAnswered, Expecting, Told
<1>2. ~reading
  BY <1>0 DEF IInv, ThreadInv
<1>3. ReadsNext => ReadsNext'
  BY <1>0, <1>2 DEF ReadsNext
<1>4. reading' <=> keep_alive'
  BY <1>0, <1>1
<1>. QED
  BY <1>0, <1>1, <1>3, <1>4 DEF WaitInv

LEMMA WriteWaits ==
  ASSUME IInv, WaitInv, NEW w \in writers, Write(w)
  PROVE  WaitInv'
<1>. DEFINE r == [req |-> w, items |-> m_result[w], close |-> ~keep_alive]
<1>0. /\ closers' = closers \cup {w}
      /\ wire' = IF open THEN Append(wire, r) ELSE wire
      /\ UNCHANGED <<script, manner, keep_setting, sent, inbox, gone, open, reading, thread, cur,
                     m_http_keep_alive, pending>>
  BY DEF Write, fixed, client, batch
<1>w. w \in 1..sent /\ w \in Index /\ ~Answered(w)
  <2>1. w \in Index
    BY DEF IInv, Types
  <2>2. ~Fresh(w) /\ ~Answered(w)
    BY <2>1 DEF IInv, InboxInv, ResponseInv, Untouched
  <2>. QED
    BY <2>1, <2>2 DEF IInv, Types, Index, Fresh
<1>r. r \in Response /\ r.req = w /\ (r.close <=> ~keep_alive) /\ wire \in Seq(Response)
  <2>1. m_result[w] \in SUBSET Nat /\ wire \in Seq(Response)
    BY <1>w DEF IInv, Types
  <2>2. keep_alive \in BOOLEAN
    BY DEF IInv, keep_alive, Types
  <2>. QED
    BY <1>w, <2>1, <2>2 DEF Response
<1>. HIDE DEF r
<1>a. \A i : Answered(i)' <=> Answered(i) \/ (open /\ i = w)
  BY <1>0, <1>r, AnsweredAppend DEF IInv
<1>k. (keep_alive' <=> keep_alive) /\ (ReadsNext' <=> ReadsNext)
  BY <1>0 DEF keep_alive, ReadsNext
<1>c. open' => \A i \in closers' : Answered(i)'
  BY <1>0, <1>a DEF WaitInv
<1>1. (open' /\ ~gone' /\ thread' = "none" => reading' \/ ~keep_alive') /\ (reading' /\ cur' # 0 => keep_alive')
  BY <1>0, <1>k DEF WaitInv
<1>2. CASE manner = "waits"
  <2>1. w = sent /\ ~AllAnswered
    BY <1>2, <1>w, LastIsOpen
  <2>2. \A i \in 1..sent : i < sent => Answered(i)'
    BY <1>2, <1>a DEF WaitInv
  <2>3. gone' => AllAnswered'
    BY <1>0, <1>2, <1>a DEF WaitInv, AllAnswered
  <2>4. ASSUME open', ~gone'
        PROVE  AllAnswered' /\ inbox' = <<>> /\ (ReadsNext' \/ Told')
    <3>1. open /\ ~gone
      BY <1>0, <2>4
    <3>2. \A i \in 1..sent : Answered(i)'
      BY <1>a, <2>1, <2>2, <3>1 DEF IInv, Types
    <3>3. inbox = <<>>
      <4>1. ASSUME NEW j \in 1..Len(inbox) PROVE FALSE
        <5>1. inbox[j] \in 1..sent /\ inbox[j] \in Index /\ Fresh(inbox[j])
          BY DEF IInv, Types, Fresh, Index
        <5>2. ~Answered(inbox[j]) /\ inbox[j] # w
          BY <5>1 DEF IInv, InboxInv, Untouched
        <5>. QED
          BY <1>2, <2>1, <5>1, <5>2, LastIsOpen
      <4>2. inbox \in Seq(1..sent)
        BY DEF IInv, Types
      <4>. QED
        BY <4>1, <4>2
    <3>4. CASE keep_alive
      <4>1. ReadsNext
        <5>1. CASE thread = "none"
          BY <3>1, <3>4, <5>1 DEF WaitInv, ReadsNext
        <5>2. CASE thread \in {"write", "after"}
          BY <3>4, <5>2 DEF ReadsNext
        <5>3. CASE thread \in {"auth", "process"}
          <6>1. cur \in Index /\ cur \in 1..sent
            BY <5>3, AtRequest DEF IInv, ThreadInv, Types
          <6>2. ~Answered(cur) /\ cur # w
            BY <1>w, <5>3, <6>1 DEF IInv, ThreadInv, ResponseInv, Untouched
          <6>. QED
            BY <1>2, <2>1, <6>1, <6>2, LastIsOpen
        <5>. QED
          BY <5>1, <5>2, <5>3 DEF IInv, Types
      <4>. QED
        BY <1>0, <1>k, <3>2, <3>3, <4>1 DEF AllAnswered
    <3>5. CASE ~keep_alive
      <4>1. wire' = Append(wire, r) /\ Len(wire') = Len(wire) + 1 /\ wire'[Len(wire')] = r
        BY <1>0, <1>r, <3>1
      <4>2. Told'
        BY <1>r, <3>5, <4>1 DEF Told
      <4>. QED
        BY <1>0, <3>2, <3>3, <4>2 DEF AllAnswered
    <3>. QED
      BY <3>4, <3>5
  <2>. QED
    BY <1>0, <1>1, <1>c, <2>2, <2>3, <2>4 DEF WaitInv
<1>3. CASE manner # "waits"
  BY <1>0, <1>1, <1>c, <1>3 DEF WaitInv
<1>. QED
  BY <1>2, <1>3

LEMMA EndResponseWaits ==
  ASSUME IInv, WaitInv, NEW w \in closers, EndResponse(w)
  PROVE  WaitInv'
<1>0. /\ closers' = closers \ {w}
      /\ open' = (open /\ keep_alive)
      /\ thread' = thread \/ (thread = "write" /\ thread' = "after")
      /\ UNCHANGED <<script, manner, keep_setting, sent, inbox, gone, reading, cur, m_http_keep_alive,
                     pending, writers, wire>>
  BY DEF EndResponse, fixed, client, batch
<1>1. /\ keep_alive' <=> keep_alive
      /\ AllAnswered' <=> AllAnswered
      /\ Told' <=> Told
      /\ \A i : Answered(i)' <=> Answered(i)
      /\ Expecting(sent)' <=> Expecting(sent)
  BY <1>0, AnsweredFrame DEF keep_alive, AllAnswered, Expecting, Told
<1>2. /\ ReadsNext => ReadsNext'
      /\ thread' = "none" => thread = "none"
      /\ thread \in {"auth", "process"} => thread' = thread
  BY <1>0, <1>1 DEF ReadsNext
<1>. QED
  BY <1>0, <1>1, <1>2 DEF WaitInv

LEMMA CompleteWaits ==
  ASSUME IInv, WaitInv, NEW p \in pending, Complete(p)
  PROVE  WaitInv'
<1>. DEFINE n == p[1]
            k == Len(script[n].items) + 1
<1>0. /\ script[n].kind = "batch" => ~Locked(n)
      /\ pending' = pending \ {p}
      /\ m_result' = [m_result EXCEPT ![n] = @ \cup {p[2]}]
      /\ writers' = IF script[n].kind = "single" \/ m_size[n] = Cardinality(m_result'[n])
                    THEN writers \cup {n} ELSE writers
      /\ UNCHANGED <<script, manner, keep_setting, sent, inbox, gone, open, reading, thread, cur,
                     m_http_keep_alive, closers, wire>>
  BY DEF Complete, fixed, client
<1>1. /\ keep_alive' <=> keep_alive
      /\ AllAnswered' <=> AllAnswered
      /\ ReadsNext' <=> ReadsNext
      /\ Told' <=> Told
      /\ \A i : Answered(i)' <=> Answered(i)
      /\ Expecting(sent)' <=> Expecting(sent)
  BY <1>0, AnsweredFrame DEF keep_alive, AllAnswered, Expecting, ReadsNext, Told
<1>2. n \in Index /\ p[2] \in Nat
  BY DEF IInv, Types
<1>3. n \in writers' \/ \E q \in pending' : q[1] = n
  <2>1. CASE script[n].kind # "batch"
    BY <1>0, <2>1 DEF IInv, Types
  <2>2. CASE script[n].kind = "batch"
    <3>1. ~Untouched(n) /\ ~(thread = "process" /\ cur = n)
      BY <1>0, <2>2 DEF Untouched, Locked
    <3>2. Counted(n, k)
      BY <1>2, <2>2, <3>1 DEF IInv, BatchInv
    <3>3. k \in Nat \ {0} /\ k - 1 = Len(script[n].items)
      BY <1>2, ScriptFields DEF IInv
    <3>4. Cardinality(Results(n, k)) = m_size[n]
      BY <3>2, <3>3, ItemSets DEF Counted
    <3>5. m_result'[n] = m_result[n] \cup {p[2]} /\ p[2] \in Results(n, k)
      BY <1>0, <1>2, <3>2 DEF IInv, Types, Counted
    <3>6. CASE m_result'[n] = Results(n, k)
      BY <1>0, <3>4, <3>6
    <3>7. CASE m_result'[n] # Results(n, k)
      <4>1. PICK x \in Results(n, k) : x \notin m_result'[n]
        BY <3>2, <3>5, <3>7 DEF Counted
      <4>2. <<n, x>> \in pending /\ x # p[2]
        BY <3>2, <3>5, <4>1 DEF Counted
      <4>3. <<n, x>> # p
        BY <4>2
      <4>4. <<n, x>> \in pending' /\ <<n, x>>[1] = n
        BY <1>0, <4>2, <4>3
      <4>. QED
        BY <4>4
    <3>. QED
      BY <3>6, <3>7
  <2>. QED
    BY <2>1, <2>2
<1>4. (\E q \in pending : q[1] = sent) => sent \in writers' \/ \E q \in pending' : q[1] = sent
  BY <1>0, <1>3
<1>5. sent \in writers => sent \in writers'
  BY <1>0
<1>. QED
  BY <1>0, <1>1, <1>4, <1>5 DEF WaitInv

LEMMA NextWait == IInv /\ WaitInv /\ [Next]_vars => WaitInv'
<1>. SUFFICES ASSUME IInv, WaitInv, [Next]_vars PROVE WaitInv'
  OBVIOUS
<1>1. CASE Send
  BY <1>1, SendWaits
<1>2. CASE Leave \/ ReadFails \/ Destroy \/ UNCHANGED vars
  BY <1>2, FlagsWait
<1>3. CASE ReadRequest
  BY <1>3, ReadRequestWaits
<1>4. CASE CheckAuth \/ Refuse \/ ProcessSingle \/ BatchItem \/ BatchEnd
  BY <1>4, ProcessWaits
<1>5. CASE After
  BY <1>5, AfterWaits
<1>6. ASSUME NEW i \in writers, Write(i) PROVE WaitInv'
  BY <1>6, WriteWaits
<1>7. ASSUME NEW i \in closers, EndResponse(i) PROVE WaitInv'
  BY <1>7, EndResponseWaits
<1>8. ASSUME NEW p \in pending, Complete(p) PROVE WaitInv'
  BY <1>8, CompleteWaits
<1>. QED
  BY <1>1, <1>2, <1>3, <1>4, <1>5, <1>6, <1>7, <1>8 DEF Next, Server

\* Closing the connection: EndResponse and Destroy do it, and both find the client
\* answered, unless EndResponse comes when the next request has been read.
LEMMA ClosesAnswered ==
  ASSUME IInv, WaitInv, NotClosedBeforeAnswer, [Next]_vars
  PROVE  NotClosedBeforeAnswer'
<1>. SUFFICES ASSUME manner' = "waits", ~open', ~overtaken', NEW i \in 1..sent', Expecting(i)'
              PROVE  Answered(i)'
  BY DEF NotClosedBeforeAnswer
<1>1. CASE Send
  BY <1>1 DEF Send
<1>2. CASE open = open' /\ UNCHANGED <<script, manner, sent, overtaken>> /\ (wire' = wire \/ open)
  <2>1. Expecting(i) <=> Expecting(i)'
    BY <1>2 DEF Expecting
  <2>. QED
    BY <1>2, <2>1, AnsweredFrame DEF NotClosedBeforeAnswer
<1>3. ASSUME NEW w \in closers, EndResponse(w) PROVE Answered(i)'
  <2>1. /\ open' = (open /\ keep_alive)
        /\ overtaken' = (overtaken \/ (open /\ ~keep_alive /\ cur # w))
        /\ UNCHANGED <<script, manner, sent, wire>>
    BY <1>3 DEF EndResponse, fixed, client
  <2>2. /\ Expecting(i) <=> Expecting(i)'
        /\ Answered(i) <=> Answered(i)'
    BY <2>1, AnsweredFrame DEF Expecting
  <2>3. CASE open
    <3>1. ~keep_alive /\ cur = w
      BY <2>1, <2>3
    <3>2. Answered(cur) /\ cur # 0
      <4>1. Answered(cur)
        BY <2>3, <3>1 DEF WaitInv
      <4>2. PICK j \in 1..Len(wire) : wire[j].req = cur
        BY <4>1 DEF Answered
      <4>3. wire[j] \in Response
        BY DEF IInv, Types
      <4>. QED
        BY <4>1, <4>2, <4>3 DEF Response, Index
    <3>3. ASSUME ~Answered(i) PROVE FALSE
      <4>1. i = sent /\ ~AllAnswered
        BY <2>1, <3>3, LastIsOpen
      <4>2. \/ inbox = <<sent>> /\ ReadsNext
            \/ cur = sent
        BY <2>1, <2>3, <4>1 DEF WaitInv
      <4>3. ReadsNext => keep_alive
        BY <3>2 DEF ReadsNext, WaitInv
      <4>. QED
        BY <3>1, <3>2, <3>3, <4>1, <4>2, <4>3
    <3>. QED
      BY <2>2, <3>3
  <2>4. CASE ~open
    BY <2>1, <2>2, <2>4 DEF NotClosedBeforeAnswer
  <2>. QED
    BY <2>3, <2>4
<1>4. CASE Destroy
  <2>1. /\ open /\ ~reading /\ thread = "none" /\ pending = {} /\ writers = {}
        /\ UNCHANGED <<script, manner, sent, wire>>
    BY <1>4 DEF Destroy, fixed, client, responses
  <2>2. ~ReadsNext
    BY <2>1 DEF ReadsNext
  <2>3. AllAnswered \/ ~Expecting(sent)
    BY <2>1, <2>2 DEF WaitInv
  <2>4. ASSUME ~Answered(i) PROVE FALSE
    <3>1. i = sent /\ ~AllAnswered
      BY <2>1, <2>4, LastIsOpen
    <3>2. Expecting(i) <=> Expecting(i)'
      BY <2>1 DEF Expecting
    <3>. QED
      BY <2>3, <3>1, <3>2
  <2>. QED
    BY <2>1, <2>4, AnsweredFrame
<1>5. [Next]_vars =>
        \/ Send \/ Destroy \/ \E w \in closers : EndResponse(w)
        \/ open = open' /\ UNCHANGED <<script, manner, sent, overtaken>> /\ (wire' = wire \/ open)
  BY DEF Next, Server, Leave, ReadRequest, ReadFails, CheckAuth, Refuse, ProcessSingle, BatchItem, BatchEnd,
         After, Write, Complete, vars, fixed, client, responses
<1>. QED
  BY <1>1, <1>2, <1>3, <1>4, <1>5

\* A client that sends one request at a time is not cut off before the answer,
\* whatever it asks and in whichever order threads end (the session lives as
\* long as a handler or a read refers to it), except by the thread of an earlier
\* response whose test of keep_alive comes after the next request has been read.
THEOREM NotClosedBeforeAnswerHolds == Spec => []NotClosedBeforeAnswer
<1>1. Init => WaitInv /\ NotClosedBeforeAnswer
  BY InitWait DEF Init, NotClosedBeforeAnswer
<1>2. IInv /\ WaitInv /\ NotClosedBeforeAnswer /\ [Next]_vars => WaitInv' /\ NotClosedBeforeAnswer'
  BY NextWait, ClosesAnswered
<1>. QED
  BY <1>1, <1>2, IInvHolds, PTL DEF Spec

=============================================================================
