---------------------------- MODULE CacheReaders ----------------------------
(***************************************************************************)
(* The request handlers that read the block cache while its worker writes  *)
(* it: get-block-by-number/hash (task_handlers/get_block_base.cpp) and     *)
(* get-dump-block-by-number/hash (get_dump_block_base.cpp).  Handlers run  *)
(* on the threads of the HTTP server; every LevelDB Get is a step.         *)
(***************************************************************************)
EXTENDS BlocksCache

CONSTANTS
  Readers,     \* handlers in flight
  HashDigits,  \* std::atoi of the hexadecimal hash of a block
  Hidden       \* state blocks, unless settings::system::allowStateBlocks

ASSUME ReadersAssumption == HashDigits \in [Blocks -> Nat]

VARIABLE rd

Idle == [pc |-> "idle", number |-> 0, want |-> NoBlock, block |-> NoBlock,
         reported |-> 0, extra |-> NoBlock, ready |-> FALSE]

To(r, state) == rd' = [rd EXCEPT ![r].pc = state]

\* A block that every request made now has to find.
Available(n) == n < m_nextblock /\ first <= n /\ data[n] = "signed"

\* execute() with a number: the cache is asked only while its worker runs.
AskNumber(r) ==
  /\ pc # "off" /\ rd[r].pc = "idle"
  /\ \E n \in Numbers \ {0} :
       rd' = [rd EXCEPT ![r] = [Idle EXCEPT !.number = n,
                                            !.ready = m_run /\ Available(n),
                                            !.pc = IF ~m_run THEN "forwarded"
                                                   ELSE IF Verification THEN "data"
                                                   ELSE "dump"]]

\* execute() with a hash
AskHash(r) ==
  /\ pc # "off" /\ rd[r].pc = "idle"
  /\ \E b \in Blocks :
       rd' = [rd EXCEPT ![r] = [Idle EXCEPT !.want = b,
                                            !.ready = m_run /\ index[b] # 0 /\ Available(index[b]),
                                            !.pc = IF m_run THEN "hash" ELSE "forwarded"]]

\* Mutant: the number is read out of the digits of the hash.
ReadHashDigits(r) ==
  /\ db_open /\ rd[r].pc = "hash"
  /\ rd' = [rd EXCEPT ![r].number = HashDigits[rd[r].want], ![r].pc = "data"]

\* get_block_num_by_hash
ReadHash(r) ==
  /\ db_open /\ rd[r].pc = "hash"
  /\ IF index[rd[r].want] = 0
     THEN To(r, "refused")
     ELSE rd' = [rd EXCEPT ![r].number = index[rd[r].want],
                           ![r].pc = IF Verification THEN "data" ELSE "dump"]

\* get_block_by_num: a status other than signed hides the block, no status
\* does not.
ReadData(r) ==
  /\ db_open /\ rd[r].pc = "data"
  /\ To(r, IF data[rd[r].number] \in {"signed", "none"} THEN "dump" ELSE "refused")

ReadDump(r) ==
  /\ db_open /\ rd[r].pc = "dump"
  /\ IF dump[rd[r].number] = NoBlock
     THEN To(r, "refused")
     ELSE rd' = [rd EXCEPT ![r].block = dump[rd[r].number], ![r].pc = "extra"]

\* get_extra_block_for.  The number reported for a request by hash is read out
\* of the digits of the hash.  A dump that is no block, and a state block the
\* settings hide, are errors.
ReadExtra(r) ==
  /\ db_open /\ rd[r].pc = "extra"
  /\ LET n == IF rd[r].want = NoBlock THEN rd[r].number ELSE HashDigits[rd[r].want]
     IN  IF rd[r].block \in Hidden \cup {Junk}
         THEN To(r, "refused")
         ELSE rd' = [rd EXCEPT ![r].reported = n,
                               ![r].extra = IF n \in Numbers THEN extra[n] ELSE NoBlock,
                               ![r].pc = "answered"]

\* get-dump-block answers with the dump, whatever it holds.
AnswerDump(r) ==
  /\ db_open /\ rd[r].pc = "extra"
  /\ To(r, "answered")

\* perform returns the result of the handler, and the session sends it.
Respond(r) ==
  /\ rd[r].pc \in {"answered", "refused", "forwarded"}
  /\ rd' = [rd EXCEPT ![r] = Idle]

Reader ==
  \E r \in Readers :
    \/ AskNumber(r) \/ AskHash(r)
    \/ ReadHash(r) \/ ReadData(r) \/ ReadDump(r) \/ ReadExtra(r)
    \/ AnswerDump(r) \/ Respond(r)

\* The handlers die with the process.
CacheStep ==
  /\ Next
  /\ IF pc' = "off" THEN rd' = [r \in Readers |-> Idle] ELSE UNCHANGED rd

ReadersInit == Init /\ rd = [r \in Readers |-> Idle]

ReadersNext == CacheStep \/ (Reader /\ UNCHANGED vars)

ReadersSpec == ReadersInit /\ [][ReadersNext]_<<vars, rd>>

(***************************************************************************)
(* Properties.                                                             *)
(***************************************************************************)

\* While the process lives, an answer stays right: the block a client was given
\* for a number is the block the cache keeps under that number, and a request by
\* hash gets the block of that hash, although the handler reads index, status and
\* dump in separate steps while the worker is writing them in separate Puts and
\* the torrents disagree.
AnswersStayRight ==
  \A r \in Readers :
    rd[r].pc = "answered" =>
      /\ rd[r].block = dump[rd[r].number]
      /\ rd[r].want # NoBlock /\ rd[r].number > 1 => rd[r].block = rd[r].want

\* A block, not a hidden one, that was signed and cached when the request arrived
\* is never refused.
SignedBlocksAreAnswered ==
  \A r \in Readers : rd[r].ready /\ rd[r].block \notin Hidden \cup {Junk} => rd[r].pc # "refused"

=============================================================================
