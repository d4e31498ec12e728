------------------------ MODULE JsonRpcRequest_proofs ------------------------
(***************************************************************************)
(* Proofs about JsonRpcRequest, for any number of attempts and any setups. *)
(*                                                                         *)
(* They are about the first use of an object: a request on the io_context  *)
(* of the server is used only once, and an object with an io_context of    *)
(* its own starts its first use without anything of an earlier one.        *)
(***************************************************************************)
EXTENDS JsonRpcRequest, TLAPS

(***************************************************************************)
(* The inductive invariant.                                                *)
(***************************************************************************)

\* The handlers of one use form a single chain: at any time one operation is
\* under way, or the handler of the last one is running, or the chain has ended.
ChainInv ==
  /\ \A o, p \in ops : o = p
  /\ io.pc # "idle" => ops = {}
  /\ io.pc # "joining"
  /\ io.pc \in {"stop", "decide"} /\ io.kind = "resolve" => io.pc = "decide"
  /\ io.pc = "stop" => io.kind \in {"connect", "read"}
  /\ io.pc \in {"timer", "start"} => io.kind # "resolve"

\* No timer runs and nobody has cancelled the attempt.
Quiet == thread = "none" /\ ~m_canceled /\ ~m_rerun /\ answers = 0

\* Where the chain is, and what the timer thread can have done there.
PlaceInv ==
  /\ (\E o \in ops : o.kind = "resolve") => Quiet
  /\ io.pc = "decide" /\ io.kind = "resolve" => Quiet
  /\ io.pc = "decide" /\ io.kind \in {"connect", "read"} => thread = "none"
  /\ io.pc \in {"timer", "finish"} => Quiet
  /\ io.pc = "stop_again" => thread # "fired" /\ m_canceled /\ ~m_rerun /\ answers = 0
  /\ io.pc = "failed" => thread = "none" /\ m_canceled /\ ~m_rerun /\ answers = 0

\* The timer thread: between its two steps the attempt is cancelled and has no
\* entry of the pool; a rerun is asked for only when the thread has ended.
TimerInv ==
  /\ t_lock = IF thread \in {"firing", "fired"} THEN "timer" ELSE "free"
  /\ thread = "fired" => m_canceled /\ ~m_rerun /\ ~pool_obj
  /\ thread # "none" => answers = 0
  /\ m_rerun => m_canceled /\ thread = "none" /\ answers = 0

\* After the answer the chain has ended, or what is left of it finds m_canceled.
AnswerInv ==
  /\ answers \in {0, 1}
  /\ answers = 1 => ~pool_obj /\ (m_canceled \/ (ops = {} /\ io.pc = "idle"))

BusyInv == busy = IF pool_obj THEN 1 ELSE 0

FirstUse == ChainInv /\ PlaceInv /\ TimerInv /\ AnswerInv /\ BusyInv

\* Before the first use nothing has happened.
BeforeInv ==
  executes = 0 => /\ ops = {} /\ io.pc = "idle" /\ thread = "none" /\ answers = 0
                  /\ ~m_canceled /\ ~m_rerun /\ ~pool_obj

\* An entry held is counted, and an object at work has begun an attempt.
WorkInv ==
  /\ pool_obj => busy >= 1
  /\ executes = 0 => io.pc = "idle" /\ ops = {}
  /\ executes >= 1 => m_attempt >= 1

IInv == TypeOK /\ WorkInv /\ BeforeInv /\ (executes <= 1 => FirstUse)

(***************************************************************************)
(* Types.                                                                  *)
(***************************************************************************)

IoRec == [pc: IoPcs, kind: Kinds, res: Results, failing: BOOLEAN]

SetupType == setup \in Setups /\ setup.own \in BOOLEAN /\ setup.ssl \in BOOLEAN /\ setup.pool \in BOOLEAN
FieldType ==
  /\ m_attempt \in 0..AttemptsCount /\ m_canceled \in BOOLEAN /\ m_rerun \in BOOLEAN
  /\ pool_obj \in BOOLEAN /\ sock \in BOOLEAN
BusyType == busy \in Nat
LockType == m_locker \in {"free", "timer"} /\ t_lock \in {"free", "io", "timer"}
            /\ thread \in {"none", "waiting", "firing", "fired"}
CallType == /\ stopped \in BOOLEAN /\ running \in BOOLEAN /\ owed \in Nat
            /\ executes \in 0..MaxExecutes /\ answers \in Nat
OpsType == ops \subseteq Op
IoType == io \in IoRec

LEMMA TypeParts ==
  TypeOK <=> SetupType /\ FieldType /\ BusyType /\ LockType /\ CallType /\ OpsType /\ IoType
BY SetupsAssumption DEF TypeOK, SetupType, FieldType, BusyType, LockType, CallType, OpsType, IoType, IoRec

LEMMA TypePartsNext ==
  ASSUME SetupType', FieldType', BusyType', LockType', CallType', OpsType', IoType'
  PROVE  TypeOK'
BY DEF TypeOK, SetupType, FieldType, BusyType, LockType, CallType, OpsType, IoType, IoRec

LEMMA IdleType == Idle \in IoRec /\ Idle.pc = "idle"
BY DEF Idle, IoRec, IoPcs, Kinds, Results

LEMMA NewOpType ==
  ASSUME NEW kind \in Kinds, NEW res \in Results, NEW a \in 1..AttemptsCount, NEW u \in 1..MaxExecutes
  PROVE  /\ NewOp(kind, a, u, res) \in Op
         /\ NewOp(kind, a, u, res).kind = kind /\ NewOp(kind, a, u, res).res = res
BY DEF NewOp, Op

\* What is aborted keeps its place in the chain.
LEMMA AbortedType ==
  ASSUME NEW os \in SUBSET Op
  PROVE  /\ Aborted(os) \subseteq Op
         /\ os = {} => Aborted(os) = {}
         /\ \A p \in Aborted(os) : \E o \in os : o.kind = p.kind
         /\ (\A o, p \in os : o = p) => \A o, p \in Aborted(os) : o = p
<1> DEFINE ab(o) == IF o.res = "pending" /\ o.kind # "resolve" THEN [o EXCEPT !.res = "error"] ELSE o
<1>1. Aborted(os) = {ab(o) : o \in os} BY DEF Aborted
<1>2. ASSUME NEW o \in os PROVE ab(o) \in Op /\ ab(o).kind = o.kind
  <2>1. o \in Op BY <1>2
  <2>2. [o EXCEPT !.res = "error"] \in Op /\ [o EXCEPT !.res = "error"].kind = o.kind
    BY <2>1 DEF Op, Results
  <2>3. QED BY <2>1, <2>2
<1> HIDE DEF ab
<1>3. QED BY <1>1, <1>2

LEMMA CloseOpsType ==
  ASSUME OpsType
  PROVE  /\ CloseOps \subseteq Op
         /\ ops = {} => CloseOps = {}
         /\ \A p \in CloseOps : \E o \in ops : o.kind = p.kind
         /\ (\A o, p \in ops : o = p) => \A o, p \in CloseOps : o = p
<1>1. ops \in SUBSET Op BY DEF OpsType
<1>2. CASE KeepsSocket BY <1>1, <1>2 DEF CloseOps
<1>3. CASE ~KeepsSocket
  <2>1. CloseOps = Aborted(ops) BY <1>3 DEF CloseOps
  <2>2. QED BY <1>1, <2>1, AbortedType
<1>4. QED BY <1>2, <1>3

\* What an attempt leaves behind.
LEMMA AttemptShape ==
  ASSUME SetupType, NEW os, os \subseteq Op, NEW use \in 1..MaxExecutes,
         NEW attempt \in 1..AttemptsCount, NEW held \in Nat, NEW open \in BOOLEAN,
         NEW failing \in BOOLEAN, owed \in Nat, Attempt(os, use, attempt, held, open, failing)
  PROVE  /\ m_attempt' = attempt /\ m_canceled' = FALSE
         /\ pool_obj' \in BOOLEAN /\ sock' \in BOOLEAN /\ owed' \in Nat
         /\ busy' = held + (IF pool_obj' THEN 1 ELSE 0)
         /\ ops' \subseteq Op /\ io' \in IoRec
         /\ \/ io'.pc = "idle" /\ ops' = os \cup {NewOp("resolve", attempt, use, "pending")}
            \/ io'.pc = "timer" /\ io'.kind = "write" /\ ops' = os
<1>1. m_attempt' = attempt /\ m_canceled' = FALSE BY DEF Attempt
<1>2. CASE /\ pool_obj' \in {FALSE} \cup {setup.pool}
           /\ busy' = held + (IF pool_obj' THEN 1 ELSE 0)
           /\ sock' = open
           /\ ops' = os \cup {NewOp("resolve", attempt, use, "pending")}
           /\ io' = Idle
           /\ owed' = IF failing THEN owed + 1 ELSE owed
  <2>1. NewOp("resolve", attempt, use, "pending") \in Op BY NewOpType DEF Kinds, Results
  <2>2. pool_obj' \in BOOLEAN BY <1>2 DEF SetupType
  <2>3. owed' \in Nat BY <1>2
  <2>4. io' \in IoRec /\ io'.pc = "idle" BY <1>2, IdleType
  <2>5. QED BY <1>1, <1>2, <2>1, <2>2, <2>3, <2>4
<1>3. CASE /\ setup.pool /\ ~open
           /\ pool_obj' = TRUE /\ busy' = held + 1
           /\ sock' = TRUE
           /\ ops' = os
           /\ io' = [pc |-> "timer", kind |-> "write", res |-> "ok", failing |-> failing]
           /\ UNCHANGED owed
  <2>1. io' \in IoRec /\ io'.pc = "timer" /\ io'.kind = "write" BY <1>3 DEF IoRec, IoPcs, Kinds, Results
  <2>2. QED BY <1>1, <1>3, <2>1
<1>4. QED BY <1>2, <1>3 DEF Attempt

\* A handler that goes on.
LEMMA IoMove ==
  ASSUME IoType, NEW pc \in IoPcs, NEW kind \in Kinds,
         io' = [io EXCEPT !.pc = pc, !.kind = kind]
  PROVE  IoType' /\ io'.pc = pc /\ io'.kind = kind
BY DEF IoType, IoRec

LEMMA IoMovePc ==
  ASSUME IoType, NEW pc \in IoPcs, io' = [io EXCEPT !.pc = pc]
  PROVE  IoType' /\ io'.pc = pc /\ io'.kind = io.kind
BY DEF IoType, IoRec

LEMMA NextStageShape ==
  ASSUME IoType, io' = NextStage
  PROVE  /\ IoType'
         /\ \/ io.kind \in {"resolve", "connect"} /\ io'.pc = "timer" /\ io'.kind # "resolve"
            \/ io.kind \in {"handshake", "write"} /\ io'.pc = "start" /\ io'.kind # "resolve"
            \/ io.kind = "read" /\ io'.pc = "finish"
<1>1. io.kind \in Kinds BY DEF IoType, IoRec
<1>2. CASE io.kind = "resolve"
  <2>1. io' = [io EXCEPT !.pc = "timer", !.kind = "connect"] BY <1>2 DEF NextStage
  <2>2. QED BY <1>2, <2>1, IoMove DEF IoPcs, Kinds
<1>3. CASE io.kind = "connect"
  <2>1. PICK k \in {"handshake", "write"} : io' = [io EXCEPT !.pc = "timer", !.kind = k]
    BY <1>3 DEF NextStage
  <2>2. QED BY <1>3, <2>1, IoMove DEF IoPcs, Kinds
<1>4. CASE io.kind = "handshake"
  <2>1. io' = [io EXCEPT !.pc = "start", !.kind = "write"] BY <1>4 DEF NextStage
  <2>2. QED BY <1>4, <2>1, IoMove DEF IoPcs, Kinds
<1>5. CASE io.kind = "write"
  <2>1. io' = [io EXCEPT !.pc = "start", !.kind = "read"] BY <1>5 DEF NextStage
  <2>2. QED BY <1>5, <2>1, IoMove DEF IoPcs, Kinds
<1>6. CASE io.kind = "read"
  <2>1. io' = [io EXCEPT !.pc = "finish"] BY <1>6 DEF NextStage
  <2>2. QED BY <1>6, <2>1, IoMovePc DEF IoPcs
<1>7. QED BY <1>1, <1>2, <1>3, <1>4, <1>5, <1>6 DEF Kinds

LEMMA HandleShape ==
  ASSUME OpsType, NEW o \in ops, Handle(o)
  PROVE  /\ IoType' /\ io'.kind = o.kind
         /\ io'.pc = IF o.kind \in {"connect", "read"} THEN "stop" ELSE "decide"
<1>1. o.kind \in Kinds /\ o.res \in Results BY DEF OpsType, Op
<1> DEFINE pc == IF o.kind \in {"connect", "read"} THEN "stop" ELSE "decide"
<1>2. io' = [pc |-> pc, kind |-> o.kind, res |-> o.res, failing |-> FALSE] BY DEF Handle
<1>3. pc \in IoPcs BY DEF IoPcs
<1> HIDE DEF pc
<1>4. IoType' BY <1>1, <1>2, <1>3 DEF IoType, IoRec
<1>5. QED BY <1>2, <1>4 DEF pc

\* Finish and OnTimeout close, and the last Failed does.
LEMMA CloseType ==
  ASSUME TypeOK, WorkInv
  PROVE  /\ (IF pool_obj THEN busy - 1 ELSE busy) \in Nat
         /\ (sock /\ KeepsSocket) \in BOOLEAN
         /\ CloseOps \subseteq Op
<1>1. FieldType /\ BusyType /\ OpsType BY TypeParts
<1>2. CASE pool_obj BY <1>1, <1>2, CloseOpsType DEF WorkInv, BusyType
<1>3. CASE ~pool_obj BY <1>1, <1>3, CloseOpsType DEF BusyType
<1>4. QED BY <1>2, <1>3

LEMMA AnswerType ==
  ASSUME TypeOK, Answer
  PROVE  running' \in BOOLEAN /\ stopped' \in BOOLEAN /\ executes' = executes /\ answers' = answers + 1
BY TypeParts DEF Answer, SetupType

\* The operation a handler starts.
LEMMA StartOpShape ==
  ASSUME TypeOK, WorkInv, StartOp
  PROVE  \E o \in Op : \E old \in SUBSET Op :
           /\ o.kind = io.kind /\ ops' = old \cup {o} /\ (ops = {} => old = {})
<1>1. OpsType /\ IoType /\ FieldType /\ CallType BY TypeParts
<1>2. io.pc = "start" /\ io.kind \in Kinds BY <1>1 DEF StartOp, IoType, IoRec
<1>3. executes \in 1..MaxExecutes /\ m_attempt \in 1..AttemptsCount
  BY <1>1, <1>2, AttemptsAssumption DEF WorkInv, CallType, FieldType
<1> DEFINE res == IF sock \/ io.kind = "connect" THEN "pending" ELSE "error"
           old == IF io.kind = "connect" THEN Aborted(ops) ELSE ops
           o == NewOp(io.kind, m_attempt, executes, res)
<1>4. ops' = old \cup {o} BY DEF StartOp
<1>5. old \in SUBSET Op /\ (ops = {} => old = {}) BY <1>1, AbortedType DEF OpsType
<1>6. res \in Results BY DEF Results
<1> HIDE DEF res
<1>7. o \in Op /\ o.kind = io.kind BY <1>2, <1>3, <1>6, NewOpType
<1>8. QED BY <1>4, <1>5, <1>7

LEMMA CallTypes ==
  ASSUME TypeOK, WorkInv, Execute \/ Return
  PROVE  TypeOK' /\ WorkInv'
<1>1. SetupType /\ FieldType /\ BusyType /\ LockType /\ CallType /\ OpsType /\ IoType BY TypeParts
<1>2. CASE Execute
  <2>0. Attempt(ops, executes + 1, 1, busy, sock, FALSE) BY <1>2 DEF Execute
  <2>1. executes + 1 \in 1..MaxExecutes /\ executes' = executes + 1
    <3>1. executes < MaxExecutes BY <1>1, <1>2, AttemptsAssumption DEF Execute, CallType
    <3>2. QED BY <1>1, <1>2, <3>1, AttemptsAssumption DEF Execute, CallType
  <2>2. 1 \in 1..AttemptsCount BY AttemptsAssumption
  <2>3. /\ m_attempt' = 1 /\ m_canceled' = FALSE
        /\ pool_obj' \in BOOLEAN /\ sock' \in BOOLEAN /\ owed' \in Nat
        /\ busy' = busy + (IF pool_obj' THEN 1 ELSE 0)
        /\ ops' \subseteq Op /\ io' \in IoRec
    BY <1>1, <2>0, <2>1, <2>2, AttemptShape DEF OpsType, BusyType, FieldType, CallType
  <2>4. SetupType' /\ LockType' BY <1>1, <1>2 DEF Execute, SetupType, LockType, timer
  <2>a. m_rerun' = m_rerun /\ running' = TRUE /\ answers' = 0 /\ stopped' = FALSE BY <1>2 DEF Execute
  <2>b. m_attempt' \in 0..AttemptsCount BY <2>3, AttemptsAssumption
  <2>5. FieldType' BY <1>1, <2>3, <2>a, <2>b DEF FieldType
  <2>6. BusyType' BY <1>1, <2>3 DEF BusyType
  <2>7. CallType'
    <3>1. executes' \in 0..MaxExecutes BY <2>1, AttemptsAssumption
    <3>2. QED BY <2>3, <2>a, <3>1 DEF CallType
  <2>8. OpsType' /\ IoType' BY <2>3 DEF OpsType, IoType
  <2>9. WorkInv' BY <1>1, <2>1, <2>3 DEF WorkInv, BusyType
  <2>10. QED BY <2>4, <2>5, <2>6, <2>7, <2>8, <2>9, TypePartsNext
<1>3. CASE Return
  <2>1. /\ UNCHANGED <<setup, fields, m_locker, ops, stopped, io, owed, timer, executes, answers>>
        /\ running' = FALSE
    BY <1>3 DEF Return
  <2>2. SetupType' /\ FieldType' /\ BusyType' /\ LockType' /\ OpsType' /\ IoType' /\ WorkInv'
    BY <1>1, <2>1 DEF SetupType, FieldType, BusyType, LockType, OpsType, IoType, WorkInv, fields, timer
  <2>3. CallType' BY <1>1, <2>1 DEF CallType
  <2>4. QED BY <2>2, <2>3, TypePartsNext
<1>4. QED BY <1>2, <1>3

LEMMA TimerTypes ==
  ASSUME TypeOK, WorkInv, TimerFires \/ OnTimeout \/ OnTimeoutEnds
  PROVE  TypeOK' /\ WorkInv'
<1>1. SetupType /\ FieldType /\ BusyType /\ LockType /\ CallType /\ OpsType /\ IoType BY TypeParts
<1>2. CASE TimerFires
  BY <1>1, <1>2, TypePartsNext DEF TimerFires, SetupType, FieldType, BusyType, LockType, CallType,
     OpsType, IoType, WorkInv, fields, caller
<1>3. CASE OnTimeout
  <2>1. SetupType' /\ CallType' /\ IoType' BY <1>1, <1>3 DEF OnTimeout, SetupType, CallType, IoType, caller
  <2>2. LockType' BY <1>1, <1>3 DEF OnTimeout, LockType
  <2>3. CASE m_canceled
    <3>1. UNCHANGED <<fields, ops, io, executes>> BY <1>3, <2>3 DEF OnTimeout, caller
    <3>2. FieldType' /\ BusyType' /\ OpsType' /\ WorkInv'
      BY <1>1, <3>1 DEF fields, FieldType, BusyType, OpsType, WorkInv
    <3>3. QED BY <2>1, <2>2, <3>2, TypePartsNext
  <2>4. CASE ~m_canceled
    <3>1. /\ m_canceled' = TRUE /\ pool_obj' = FALSE
          /\ busy' = (IF pool_obj THEN busy - 1 ELSE busy)
          /\ sock' = (sock /\ KeepsSocket) /\ ops' = CloseOps
          /\ UNCHANGED <<m_attempt, m_rerun, io, executes>>
      BY <1>3, <2>4 DEF OnTimeout, caller
    <3>2. FieldType' BY <1>1, <3>1, CloseType DEF FieldType
    <3>3. BusyType' /\ OpsType' BY <3>1, CloseType DEF BusyType, OpsType
    <3>4. WorkInv' BY <1>1, <3>1, CloseOpsType DEF WorkInv
    <3>5. QED BY <2>1, <2>2, <3>2, <3>3, <3>4, TypePartsNext
  <2>5. QED BY <2>3, <2>4
<1>4. CASE OnTimeoutEnds
  <2>1. UNCHANGED <<setup, m_attempt, m_canceled, pool_obj, busy, sock, ops, io, owed>>
    BY <1>4 DEF OnTimeoutEnds
  <2>2. LockType' BY <1>4 DEF OnTimeoutEnds, LockType
  <2>3. CallType' /\ m_rerun' \in BOOLEAN /\ executes' = executes
    <3>1. CASE m_attempt < AttemptsCount
      BY <1>1, <1>4, <3>1 DEF OnTimeoutEnds, CallType, caller
    <3>2. CASE ~(m_attempt < AttemptsCount)
      <4>1. Answer /\ UNCHANGED m_rerun BY <1>4, <3>2 DEF OnTimeoutEnds
      <4>2. QED BY <1>1, <2>1, <4>1, AnswerType DEF CallType, FieldType
    <3>3. QED BY <3>1, <3>2
  <2>4. SetupType' /\ FieldType' /\ BusyType' /\ OpsType' /\ IoType' /\ WorkInv'
    BY <1>1, <2>1, <2>3 DEF SetupType, FieldType, BusyType, OpsType, IoType, WorkInv
  <2>5. QED BY <2>2, <2>3, <2>4, TypePartsNext
<1>5. QED BY <1>2, <1>3, <1>4

LEMMA OpTypes ==
  ASSUME TypeOK, WorkInv, NEW o \in ops, Complete(o) \/ Handle(o)
  PROVE  TypeOK' /\ WorkInv'
<1>1. SetupType /\ FieldType /\ BusyType /\ LockType /\ CallType /\ OpsType /\ IoType BY TypeParts
<1>2. executes # 0 BY DEF WorkInv
<1>3. UNCHANGED <<setup, fields, m_locker, stopped, owed, timer, caller>> BY DEF Complete, Handle
<1>4. SetupType' /\ FieldType' /\ BusyType' /\ LockType'
  BY <1>1, <1>3 DEF SetupType, FieldType, BusyType, LockType, fields, timer
<1>5. CallType' BY <1>1, <1>3 DEF CallType, caller
<1>6. WorkInv' BY <1>2, <1>3 DEF WorkInv, fields, caller
<1>7. CASE Complete(o)
  <2>1. PICK r \in {"ok", "error"} : ops' = (ops \ {o}) \cup {[o EXCEPT !.res = r]} BY <1>7 DEF Complete
  <2>2. [o EXCEPT !.res = r] \in Op BY <1>1 DEF OpsType, Op, Results
  <2>3. OpsType' BY <1>1, <2>1, <2>2 DEF OpsType
  <2>4. IoType' BY <1>1, <1>7 DEF Complete, IoType
  <2>5. QED BY <1>4, <1>5, <1>6, <2>3, <2>4, TypePartsNext
<1>8. CASE Handle(o)
  <2>1. IoType' BY <1>1, <1>8, HandleShape
  <2>2. OpsType' BY <1>1, <1>8 DEF Handle, OpsType
  <2>3. QED BY <1>4, <1>5, <1>6, <2>1, <2>2, TypePartsNext
<1>9. QED BY <1>7, <1>8

LEMMA HandlerTypes ==
  ASSUME TypeOK, WorkInv, StopTimer \/ ErrorHandler \/ UnlockAgain \/ TimerStart
  PROVE  TypeOK' /\ WorkInv'
<1>1. SetupType /\ FieldType /\ BusyType /\ LockType /\ CallType /\ OpsType /\ IoType BY TypeParts
<1>2. UNCHANGED <<setup, m_attempt, pool_obj, busy, sock, ops, stopped, caller>>
  BY DEF StopTimer, ErrorHandler, UnlockAgain, TimerStart, fields, timer
<1>3. SetupType' /\ BusyType' /\ OpsType' BY <1>1, <1>2 DEF SetupType, BusyType, OpsType
<1>4. CASE StopTimer
  <2>1. PICK pc \in {"decide", "failed"} : io' = [io EXCEPT !.pc = pc] BY <1>4 DEF StopTimer
  <2>2. IoType' BY <1>1, <2>1, IoMovePc DEF IoPcs
  <2>3. UNCHANGED <<fields, m_locker, owed, t_lock>> /\ thread' = "none" BY <1>4 DEF StopTimer, TimerStop
  <2>4. FieldType' /\ LockType' BY <1>1, <2>3 DEF FieldType, LockType, fields
  <2>5. CallType' BY <1>1, <1>2, <2>3 DEF CallType, caller
  <2>6. executes # 0 BY <1>4 DEF StopTimer, WorkInv
  <2>7. WorkInv' BY <1>2, <2>6 DEF WorkInv, caller
  <2>8. QED BY <1>3, <2>2, <2>4, <2>5, <2>7, TypePartsNext
<1>5. CASE ErrorHandler
  <2>1. IoType'
    <3>1. CASE io' = Idle BY <3>1, IdleType DEF IoType
    <3>2. CASE io' = NextStage BY <1>1, <3>2, NextStageShape
    <3>3. CASE io' = [io EXCEPT !.pc = "stop_again"] BY <1>1, <3>3, IoMovePc DEF IoPcs
    <3>4. QED BY <1>5, <3>1, <3>2, <3>3 DEF ErrorHandler
  <2>2. UNCHANGED <<m_locker, owed, timer>> BY <1>5 DEF ErrorHandler
  <2>3. m_canceled' \in BOOLEAN /\ m_rerun' \in BOOLEAN
    BY <1>1, <1>5 DEF ErrorHandler, FieldType
  <2>4. FieldType' /\ LockType' BY <1>1, <1>2, <2>2, <2>3 DEF FieldType, LockType, timer
  <2>5. CallType' BY <1>1, <1>2, <2>2 DEF CallType, caller
  <2>6. executes # 0 BY <1>5 DEF ErrorHandler, WorkInv
  <2>7. WorkInv' BY <1>2, <2>6 DEF WorkInv, caller
  <2>8. QED BY <1>3, <2>1, <2>4, <2>5, <2>7, TypePartsNext
<1>6. CASE UnlockAgain
  <2>1. UNCHANGED <<fields, io, timer>> /\ m_locker' = "free" /\ owed' = owed - 1 /\ owed > 0
    BY <1>6 DEF UnlockAgain
  <2>2. FieldType' /\ LockType' /\ IoType' BY <1>1, <2>1 DEF FieldType, LockType, IoType, fields, timer
  <2>3. owed' \in Nat BY <1>1, <2>1 DEF CallType
  <2>4. CallType' BY <1>1, <1>2, <2>3 DEF CallType, caller
  <2>5. WorkInv' BY <1>2, <2>1 DEF WorkInv, caller
  <2>6. QED BY <1>3, <2>2, <2>4, <2>5, TypePartsNext
<1>7. CASE TimerStart
  <2>1. PICK pc \in {"start", "joining"} : io' = [io EXCEPT !.pc = pc] BY <1>7 DEF TimerStart
  <2>2. IoType' BY <1>1, <2>1, IoMovePc DEF IoPcs
  <2>3. UNCHANGED <<fields, m_locker, owed>> BY <1>7 DEF TimerStart
  <2>4. FieldType' BY <1>1, <2>3 DEF FieldType, fields
  <2>5. LockType' BY <1>1, <1>7, <2>3 DEF TimerStart, LockType
  <2>6. CallType' BY <1>1, <1>2, <2>3 DEF CallType, caller
  <2>7. executes # 0 BY <1>7 DEF TimerStart, WorkInv
  <2>8. WorkInv' BY <1>2, <2>7 DEF WorkInv, caller
  <2>9. QED BY <1>3, <2>2, <2>4, <2>5, <2>6, <2>8, TypePartsNext
<1>8. QED BY <1>4, <1>5, <1>6, <1>7

LEMMA EndTypes ==
  ASSUME TypeOK, WorkInv, Failed \/ StartOp \/ Finish
  PROVE  TypeOK' /\ WorkInv'
<1>1. SetupType /\ FieldType /\ BusyType /\ LockType /\ CallType /\ OpsType /\ IoType BY TypeParts
<1>2. UNCHANGED <<setup, m_rerun, m_locker, timer>> BY DEF Failed, StartOp, Finish
<1>3. SetupType' /\ LockType' BY <1>1, <1>2 DEF SetupType, LockType, timer
<1>4. executes # 0 /\ executes \in 1..MaxExecutes /\ m_attempt >= 1
  <2>1. io.pc # "idle" BY DEF Failed, StartOp, Finish
  <2>2. QED BY <1>1, <2>1 DEF WorkInv, CallType
<1>5. CASE Finish
  <2>1. /\ pool_obj' = FALSE /\ busy' = (IF pool_obj THEN busy - 1 ELSE busy)
        /\ sock' = (sock /\ KeepsSocket) /\ ops' = CloseOps /\ Answer /\ io' = Idle
        /\ UNCHANGED <<m_attempt, m_canceled, owed>>
    BY <1>5 DEF Finish
  <2>2. FieldType' BY <1>1, <1>2, <2>1, CloseType DEF FieldType
  <2>3. BusyType' /\ OpsType' /\ IoType' BY <2>1, CloseType, IdleType DEF BusyType, OpsType, IoType
  <2>4. CallType' BY <1>1, <2>1, AnswerType DEF CallType
  <2>5. WorkInv' BY <1>4, <2>1, AnswerType DEF WorkInv
  <2>6. QED BY <1>3, <2>2, <2>3, <2>4, <2>5, TypePartsNext
<1>6. CASE StartOp
  <2>1. OpsType' BY <1>6, StartOpShape DEF OpsType
  <2>2. UNCHANGED <<m_attempt, m_canceled, pool_obj, busy, stopped, caller>> /\ io' = Idle
    BY <1>6 DEF StartOp
  <2>3. sock' \in BOOLEAN BY <1>1, <1>6 DEF StartOp, FieldType
  <2>4. owed' \in Nat BY <1>1, <1>6 DEF StartOp, CallType
  <2>5. FieldType' BY <1>1, <1>2, <2>2, <2>3 DEF FieldType
  <2>6. CallType' BY <1>1, <2>2, <2>4 DEF CallType, caller
  <2>7. BusyType' /\ IoType' BY <1>1, <2>2, IdleType DEF BusyType, IoType
  <2>8. WorkInv' BY <1>4, <2>2 DEF WorkInv, caller
  <2>9. QED BY <1>3, <2>1, <2>5, <2>6, <2>7, <2>8, TypePartsNext
<1>7. CASE Failed
  <2> DEFINE held == IF pool_obj THEN busy - 1 ELSE busy
  <2>0. held \in Nat /\ (sock /\ KeepsSocket) \in BOOLEAN /\ CloseOps \subseteq Op BY CloseType
  <2>1. CASE m_attempt < AttemptsCount
    <3>1. Attempt(CloseOps, executes, m_attempt + 1, held, sock /\ KeepsSocket, TRUE)
          /\ UNCHANGED <<stopped, caller>>
      BY <1>7, <2>1 DEF Failed
    <3>2. m_attempt + 1 \in 1..AttemptsCount BY <1>1, <2>1, AttemptsAssumption DEF FieldType
    <3> HIDE DEF held
    <3>3. /\ m_attempt' = m_attempt + 1 /\ m_canceled' = FALSE
          /\ pool_obj' \in BOOLEAN /\ sock' \in BOOLEAN /\ owed' \in Nat
          /\ busy' = held + (IF pool_obj' THEN 1 ELSE 0)
          /\ ops' \subseteq Op /\ io' \in IoRec
      <4>1. owed \in Nat /\ TRUE \in BOOLEAN BY <1>1 DEF CallType
      <4>2. QED BY <1>1, <1>4, <2>0, <3>1, <3>2, <4>1, AttemptShape
    <3>4. m_attempt' \in 0..AttemptsCount BY <3>2, <3>3, AttemptsAssumption
    <3>5. FieldType' BY <1>1, <1>2, <3>3, <3>4 DEF FieldType
    <3>6. BusyType' BY <2>0, <3>3 DEF BusyType
    <3>7. OpsType' /\ IoType' BY <3>3 DEF OpsType, IoType
    <3>8. CallType' BY <1>1, <3>1, <3>3 DEF CallType, caller
    <3>9. WorkInv'
      <4>1. m_attempt' >= 1 /\ executes' = executes BY <3>1, <3>2, <3>3 DEF caller
      <4>2. pool_obj' => busy' >= 1 BY <2>0, <3>3
      <4>3. QED BY <1>4, <4>1, <4>2 DEF WorkInv
    <3>10. QED BY <1>3, <3>5, <3>6, <3>7, <3>8, <3>9, TypePartsNext
  <2>2. CASE ~(m_attempt < AttemptsCount)
    <3>1. /\ pool_obj' = FALSE /\ busy' = held /\ sock' = (sock /\ KeepsSocket) /\ ops' = CloseOps
          /\ Answer
          /\ io' = Idle /\ owed' = owed + 1
          /\ UNCHANGED <<m_attempt, m_canceled>>
      BY <1>7, <2>2 DEF Failed
    <3> HIDE DEF held
    <3>2. FieldType' BY <1>1, <1>2, <2>0, <3>1 DEF FieldType
    <3>3. BusyType' /\ OpsType' /\ IoType' BY <2>0, <3>1, IdleType DEF BusyType, OpsType, IoType
    <3>4. owed' \in Nat BY <1>1, <3>1 DEF CallType
    <3>5. CallType' BY <1>1, <3>1, <3>4, AnswerType DEF CallType
    <3>6. WorkInv' BY <1>4, <3>1, AnswerType DEF WorkInv
    <3>7. QED BY <1>3, <3>2, <3>3, <3>5, <3>6, TypePartsNext
  <2>3. QED BY <2>1, <2>2
<1>8. QED BY <1>5, <1>6, <1>7

LEMMA TypesStep ==
  ASSUME TypeOK, WorkInv, [Next]_vars
  PROVE  TypeOK' /\ WorkInv'
<1>1. CASE UNCHANGED vars
  <2>1. SetupType /\ FieldType /\ BusyType /\ LockType /\ CallType /\ OpsType /\ IoType BY TypeParts
  <2>2. SetupType' /\ FieldType' /\ BusyType' /\ LockType' /\ OpsType' /\ IoType'
    BY <1>1, <2>1 DEF vars, fields, timer, SetupType, FieldType, BusyType, LockType, OpsType, IoType
  <2>3. CallType' /\ WorkInv' BY <1>1, <2>1 DEF vars, fields, caller, CallType, WorkInv
  <2>4. QED BY <2>2, <2>3, TypePartsNext
<1>2. QED BY <1>1, CallTypes, TimerTypes, OpTypes, HandlerTypes, EndTypes DEF Next

(***************************************************************************)
(* The first use.                                                          *)
(***************************************************************************)

\* FirstUse depends on these only.
LEMMA FirstUseFrame ==
  ASSUME FirstUse, UNCHANGED <<ops, io, thread, t_lock, m_canceled, m_rerun, pool_obj, busy, answers>>
  PROVE  FirstUse'
BY DEF FirstUse, ChainInv, PlaceInv, Quiet, TimerInv, AnswerInv, BusyInv

LEMMA FirstParts == FirstUse <=> ChainInv /\ PlaceInv /\ TimerInv /\ AnswerInv /\ BusyInv
BY DEF FirstUse

LEMMA ExecuteFirst ==
  ASSUME TypeOK, WorkInv, BeforeInv, FirstUse, executes = 0, Execute
  PROVE  FirstUse'
<1>1. SetupType /\ FieldType /\ BusyType /\ CallType BY TypeParts
<1>2. /\ ops = {} /\ io.pc = "idle" /\ thread = "none" /\ answers = 0
      /\ ~m_canceled /\ ~m_rerun /\ ~pool_obj /\ busy = 0 /\ t_lock = "free"
  BY DEF BeforeInv, FirstUse, BusyInv, TimerInv
<1>3. /\ Attempt(ops, executes + 1, 1, busy, sock, FALSE)
      /\ answers' = 0 /\ UNCHANGED <<m_rerun, thread, t_lock>>
  BY DEF Execute, timer
<1>a. 1 \in 1..MaxExecutes /\ 1 \in 1..AttemptsCount BY AttemptsAssumption
<1>4. PICK use \in 1..MaxExecutes : Attempt(ops, use, 1, busy, sock, FALSE)
  <2>1. executes + 1 = 1 OBVIOUS
  <2>2. Attempt(ops, 1, 1, busy, sock, FALSE) BY <1>3, <2>1
  <2>3. QED BY <1>a, <2>2
<1>5. ops \subseteq Op /\ busy \in Nat /\ sock \in BOOLEAN /\ owed \in Nat /\ FALSE \in BOOLEAN
  BY <1>1, TypeParts DEF FieldType, BusyType, CallType, OpsType
<1>6. /\ m_canceled' = FALSE /\ busy' = busy + (IF pool_obj' THEN 1 ELSE 0)
      /\ \/ io'.pc = "idle" /\ ops' = ops \cup {NewOp("resolve", 1, use, "pending")}
         \/ io'.pc = "timer" /\ io'.kind = "write" /\ ops' = ops
  BY <1>1, <1>4, <1>a, <1>5, AttemptShape
<1>7. Quiet' BY <1>2, <1>3, <1>6 DEF Quiet
<1>8. ChainInv' BY <1>2, <1>6 DEF ChainInv
<1>9. PlaceInv' BY <1>6, <1>7 DEF PlaceInv
<1>10. TimerInv' BY <1>2, <1>3 DEF TimerInv
<1>11. AnswerInv' BY <1>3 DEF AnswerInv
<1>12. BusyInv' BY <1>2, <1>6 DEF BusyInv
<1>13. QED BY <1>8, <1>9, <1>10, <1>11, <1>12 DEF FirstUse

LEMMA CompleteFirst ==
  ASSUME TypeOK, FirstUse, NEW o \in ops, Complete(o)
  PROVE  FirstUse'
<1>1. OpsType BY TypeParts
<1>2. PICK r \in {"ok", "error"} : ops' = (ops \ {o}) \cup {[o EXCEPT !.res = r]} BY DEF Complete
<1>3. [o EXCEPT !.res = r].kind = o.kind BY <1>1 DEF OpsType, Op
<1>4. UNCHANGED <<io, thread, t_lock, m_canceled, m_rerun, pool_obj, busy, answers>>
  BY DEF Complete, fields, timer, caller
<1>5. ops = {o} /\ io.pc = "idle" BY DEF FirstUse, ChainInv
<1>6. ops' = {[o EXCEPT !.res = r]} BY <1>2, <1>5
<1>7. ChainInv' BY <1>4, <1>5, <1>6 DEF FirstUse, ChainInv
<1>8. PlaceInv' BY <1>3, <1>4, <1>5, <1>6 DEF FirstUse, PlaceInv, Quiet
<1>9. TimerInv' /\ BusyInv' BY <1>4 DEF FirstUse, TimerInv, BusyInv
<1>10. AnswerInv' BY <1>4, <1>5 DEF FirstUse, AnswerInv
<1>11. QED BY <1>7, <1>8, <1>9, <1>10 DEF FirstUse

LEMMA HandleFirst ==
  ASSUME TypeOK, FirstUse, NEW o \in ops, Handle(o)
  PROVE  FirstUse'
<1>1. OpsType BY TypeParts
<1>2. /\ io'.kind = o.kind
      /\ io'.pc = IF o.kind \in {"connect", "read"} THEN "stop" ELSE "decide"
  BY <1>1, HandleShape
<1>3. UNCHANGED <<thread, t_lock, m_canceled, m_rerun, pool_obj, busy, answers>>
  BY DEF Handle, fields, timer, caller
<1>4. ops = {o} BY DEF FirstUse, ChainInv
<1>5. ops' = {} BY <1>4 DEF Handle
<1>6. o.kind \in Kinds BY <1>1 DEF OpsType, Op
<1>7. ChainInv' BY <1>2, <1>5 DEF ChainInv
<1>8. PlaceInv'
  <2>1. o.kind = "resolve" => Quiet' BY <1>3, <1>4 DEF FirstUse, PlaceInv, Quiet
  <2>2. QED BY <1>2, <1>5, <2>1 DEF PlaceInv
<1>9. TimerInv' /\ BusyInv' BY <1>3 DEF FirstUse, TimerInv, BusyInv
<1>10. AnswerInv' BY <1>3, <1>4 DEF FirstUse, AnswerInv
<1>11. QED BY <1>7, <1>8, <1>9, <1>10 DEF FirstUse

LEMMA StopTimerFirst ==
  ASSUME TypeOK, FirstUse, StopTimer
  PROVE  FirstUse'
<1>1. IoType BY TypeParts
<1>2. PICK pc \in {"decide", "failed"} :
        /\ io' = [io EXCEPT !.pc = pc]
        /\ pc = IF io.pc = "stop" THEN "decide" ELSE "failed"
  BY DEF StopTimer
<1>3. io'.pc = pc /\ io'.kind = io.kind BY <1>1, <1>2, IoMovePc DEF IoPcs
<1>4. /\ UNCHANGED <<ops, t_lock, m_canceled, m_rerun, pool_obj, busy, answers>>
      /\ t_lock = "free" /\ thread' = "none" /\ io.pc \in {"stop", "stop_again"}
  BY DEF StopTimer, TimerStop, fields, caller
<1>5. ops = {} BY <1>4 DEF FirstUse, ChainInv
<1>6. ChainInv' BY <1>2, <1>3, <1>4, <1>5 DEF ChainInv
<1>7. PlaceInv'
  <2>1. CASE io.pc = "stop"
    <3>1. io.kind # "resolve" /\ io'.pc = "decide" BY <1>2, <1>3, <2>1 DEF FirstUse, ChainInv
    <3>2. QED BY <1>3, <1>4, <1>5, <3>1 DEF PlaceInv
  <2>2. CASE io.pc = "stop_again"
    <3>1. io'.pc = "failed" /\ m_canceled /\ ~m_rerun /\ answers = 0
      BY <1>2, <1>3, <2>2 DEF FirstUse, PlaceInv
    <3>2. QED BY <1>4, <1>5, <3>1 DEF PlaceInv
  <2>3. QED BY <1>4, <2>1, <2>2
<1>8. TimerInv' BY <1>4 DEF FirstUse, TimerInv
<1>9. BusyInv' BY <1>4 DEF FirstUse, BusyInv
<1>10. AnswerInv' BY <1>4 DEF FirstUse, AnswerInv
<1>11. QED BY <1>6, <1>7, <1>8, <1>9, <1>10 DEF FirstUse

LEMMA ErrorHandlerFirst ==
  ASSUME TypeOK, FirstUse, ErrorHandler
  PROVE  FirstUse'
<1>1. IoType BY TypeParts
<1>2. io.pc = "decide" /\ UNCHANGED <<pool_obj, busy, ops, thread, t_lock, answers>>
  BY DEF ErrorHandler, timer, caller
<1>3. ops = {} BY <1>2 DEF FirstUse, ChainInv
<1>4. BusyInv' BY <1>2 DEF FirstUse, BusyInv
<1>5. CASE ~m_rerun /\ m_canceled /\ io' = Idle /\ UNCHANGED <<m_canceled, m_rerun>>
  <2>1. io'.pc = "idle" BY <1>5, IdleType
  <2>2. ChainInv' /\ PlaceInv' BY <1>2, <1>3, <2>1 DEF ChainInv, PlaceInv
  <2>3. TimerInv' BY <1>2, <1>5 DEF FirstUse, TimerInv
  <2>4. AnswerInv' BY <1>2, <1>5 DEF FirstUse, AnswerInv
  <2>5. QED BY <1>4, <2>2, <2>3, <2>4 DEF FirstUse
<1>6. CASE ~m_rerun /\ ~m_canceled /\ io' = NextStage /\ UNCHANGED <<m_canceled, m_rerun>>
  <2>1. \/ io.kind \in {"resolve", "connect"} /\ io'.pc = "timer" /\ io'.kind # "resolve"
        \/ io.kind \in {"handshake", "write"} /\ io'.pc = "start" /\ io'.kind # "resolve"
        \/ io.kind = "read" /\ io'.pc = "finish"
    BY <1>1, <1>6, NextStageShape
  <2>2. answers = 0 BY <1>2, <1>6 DEF FirstUse, AnswerInv
  <2>3. io.kind \in {"resolve", "connect", "read"} => thread = "none"
    BY <1>2 DEF FirstUse, PlaceInv, Quiet
  <2>4. ChainInv' BY <1>2, <1>3, <2>1 DEF ChainInv
  <2>5. PlaceInv' BY <1>2, <1>3, <1>6, <2>1, <2>2, <2>3 DEF PlaceInv, Quiet
  <2>6. TimerInv' BY <1>2, <1>6 DEF FirstUse, TimerInv
  <2>7. AnswerInv' BY <1>2, <2>2 DEF FirstUse, AnswerInv
  <2>8. QED BY <1>4, <2>4, <2>5, <2>6, <2>7 DEF FirstUse
<1>7. CASE /\ m_rerun \/ ~m_canceled
           /\ m_rerun' = FALSE /\ m_canceled' = TRUE
           /\ io' = [io EXCEPT !.pc = "stop_again"]
  <2>1. io'.pc = "stop_again" BY <1>1, <1>7, IoMovePc DEF IoPcs
  <2>2. answers = 0 BY <1>2, <1>7 DEF FirstUse, AnswerInv, TimerInv
  <2>3. thread # "fired" BY <1>7 DEF FirstUse, TimerInv
  <2>4. ChainInv' BY <1>2, <1>3, <2>1 DEF ChainInv
  <2>5. PlaceInv' BY <1>2, <1>3, <1>7, <2>1, <2>2, <2>3 DEF PlaceInv
  <2>6. TimerInv' BY <1>2, <1>7, <2>3 DEF FirstUse, TimerInv
  <2>7. AnswerInv' BY <1>2, <2>2 DEF FirstUse, AnswerInv
  <2>8. QED BY <1>4, <2>4, <2>5, <2>6, <2>7 DEF FirstUse
<1>8. QED BY <1>5, <1>6, <1>7 DEF ErrorHandler

LEMMA TimerStartFirst ==
  ASSUME TypeOK, FirstUse, TimerStart
  PROVE  FirstUse'
<1>1. IoType BY TypeParts
<1>2. io.pc = "timer" /\ UNCHANGED <<ops, m_canceled, m_rerun, pool_obj, busy, answers>>
  BY DEF TimerStart, fields, caller
<1>3. Quiet /\ ops = {} /\ io.kind # "resolve" BY <1>2 DEF FirstUse, PlaceInv, ChainInv
<1>4. thread' = "waiting" /\ t_lock' = t_lock /\ io' = [io EXCEPT !.pc = "start"]
  BY <1>3 DEF TimerStart, Quiet
<1>5. io'.pc = "start" /\ io'.kind = io.kind BY <1>1, <1>4, IoMovePc DEF IoPcs
<1>6. ChainInv' BY <1>2, <1>3, <1>5 DEF ChainInv
<1>7. PlaceInv' BY <1>2, <1>3, <1>5 DEF PlaceInv
<1>8. TimerInv' BY <1>2, <1>3, <1>4 DEF FirstUse, TimerInv, Quiet
<1>9. AnswerInv' /\ BusyInv' BY <1>2, <1>3 DEF FirstUse, AnswerInv, BusyInv, Quiet
<1>10. QED BY <1>6, <1>7, <1>8, <1>9 DEF FirstUse

LEMMA FailedFirst ==
  ASSUME TypeOK, WorkInv, FirstUse, Failed
  PROVE  FirstUse'
<1> DEFINE held == IF pool_obj THEN busy - 1 ELSE busy
<1>1. SetupType /\ FieldType /\ BusyType /\ CallType /\ OpsType BY TypeParts
<1>2. io.pc = "failed" /\ UNCHANGED <<m_rerun, thread, t_lock>> BY DEF Failed, timer
<1>3. /\ thread = "none" /\ m_canceled /\ ~m_rerun /\ answers = 0 /\ ops = {} /\ t_lock = "free"
      /\ CloseOps = {}
  BY <1>1, <1>2, CloseOpsType DEF FirstUse, PlaceInv, ChainInv, TimerInv
<1>4. held = 0 BY DEF FirstUse, BusyInv
<1>5. CASE m_attempt < AttemptsCount
  <2>1. Attempt(CloseOps, executes, m_attempt + 1, held, sock /\ KeepsSocket, TRUE) /\ answers' = answers
    BY <1>5 DEF Failed, caller
  <2>2. executes \in 1..MaxExecutes /\ m_attempt + 1 \in 1..AttemptsCount
    <3>1. executes \in 0..MaxExecutes /\ executes # 0 /\ m_attempt \in 0..AttemptsCount
      BY <1>1, <1>2 DEF WorkInv, CallType, FieldType
    <3>2. QED BY <1>5, <3>1, AttemptsAssumption
  <2>3. CloseOps \subseteq Op /\ held \in Nat /\ (sock /\ KeepsSocket) \in BOOLEAN
        /\ owed \in Nat /\ TRUE \in BOOLEAN
    BY <1>1, CloseType DEF CallType
  <2> HIDE DEF held
  <2>4. /\ m_canceled' = FALSE /\ busy' = held + (IF pool_obj' THEN 1 ELSE 0)
        /\ \/ io'.pc = "idle" /\ ops' = CloseOps \cup {NewOp("resolve", m_attempt + 1, executes, "pending")}
           \/ io'.pc = "timer" /\ io'.kind = "write" /\ ops' = CloseOps
    BY <1>1, <2>1, <2>2, <2>3, AttemptShape
  <2>5. Quiet' BY <1>2, <1>3, <2>1, <2>4 DEF Quiet
  <2>6. ChainInv' BY <1>3, <2>4 DEF ChainInv
  <2>7. PlaceInv' BY <2>4, <2>5 DEF PlaceInv
  <2>8. TimerInv' BY <1>2, <1>3 DEF TimerInv
  <2>9. AnswerInv' BY <1>3, <2>1 DEF AnswerInv
  <2>10. BusyInv' BY <1>4, <2>4 DEF BusyInv
  <2>11. QED BY <2>6, <2>7, <2>8, <2>9, <2>10 DEF FirstUse
<1>6. CASE ~(m_attempt < AttemptsCount)
  <2>1. /\ pool_obj' = FALSE /\ busy' = held /\ ops' = CloseOps /\ Answer /\ io' = Idle
    BY <1>6 DEF Failed
  <2>2. answers' = 1 /\ io'.pc = "idle" BY <1>3, <2>1, IdleType DEF Answer
  <2>3. ChainInv' /\ PlaceInv' BY <1>3, <2>1, <2>2 DEF ChainInv, PlaceInv
  <2>4. TimerInv' BY <1>2, <1>3 DEF TimerInv
  <2>5. AnswerInv' BY <1>3, <2>1, <2>2 DEF AnswerInv
  <2>6. BusyInv' BY <1>4, <2>1 DEF BusyInv
  <2>7. QED BY <2>3, <2>4, <2>5, <2>6 DEF FirstUse
<1>7. QED BY <1>5, <1>6

LEMMA StartOpFirst ==
  ASSUME TypeOK, WorkInv, FirstUse, StartOp
  PROVE  FirstUse'
<1>1. io.pc = "start" /\ UNCHANGED <<m_canceled, m_rerun, pool_obj, busy, thread, t_lock, answers>>
  BY DEF StartOp, timer, caller
<1>2. ops = {} /\ io.kind # "resolve" BY <1>1 DEF FirstUse, ChainInv
<1>3. PICK o \in Op : o.kind = io.kind /\ ops' = {o} BY <1>2, StartOpShape
<1>4. io'.pc = "idle" BY IdleType DEF StartOp
<1>5. ChainInv' BY <1>3, <1>4 DEF ChainInv
<1>6. PlaceInv' BY <1>2, <1>3, <1>4 DEF PlaceInv
<1>7. TimerInv' BY <1>1 DEF FirstUse, TimerInv
<1>8. AnswerInv' BY <1>1 DEF FirstUse, AnswerInv
<1>9. BusyInv' BY <1>1 DEF FirstUse, BusyInv
<1>10. QED BY <1>5, <1>6, <1>7, <1>8, <1>9 DEF FirstUse

LEMMA FinishFirst ==
  ASSUME TypeOK, FirstUse, Finish
  PROVE  FirstUse'
<1>1. OpsType BY TypeParts
<1>2. io.pc = "finish" /\ UNCHANGED <<m_canceled, m_rerun, thread, t_lock>> BY DEF Finish, timer
<1>3. Quiet /\ ops = {} /\ CloseOps = {} BY <1>1, <1>2, CloseOpsType DEF FirstUse, PlaceInv, ChainInv
<1>4. /\ pool_obj' = FALSE /\ busy' = (IF pool_obj THEN busy - 1 ELSE busy)
      /\ ops' = CloseOps /\ Answer /\ io' = Idle
  BY DEF Finish
<1>5. answers' = 1 /\ io'.pc = "idle" BY <1>3, <1>4, IdleType DEF Answer, Quiet
<1>6. ChainInv' /\ PlaceInv' BY <1>3, <1>4, <1>5 DEF ChainInv, PlaceInv
<1>7. TimerInv' BY <1>2, <1>3 DEF FirstUse, TimerInv, Quiet
<1>8. AnswerInv' BY <1>3, <1>4, <1>5 DEF AnswerInv
<1>9. BusyInv' BY <1>4 DEF FirstUse, BusyInv
<1>10. QED BY <1>6, <1>7, <1>8, <1>9 DEF FirstUse

LEMMA TimerFiresFirst ==
  ASSUME FirstUse, TimerFires
  PROVE  FirstUse'
<1>1. /\ thread = "waiting" /\ thread' = "firing" /\ t_lock' = "timer"
      /\ UNCHANGED <<ops, io, m_canceled, m_rerun, pool_obj, busy, answers>>
  BY DEF TimerFires, fields, caller
<1>2. ChainInv' /\ BusyInv' BY <1>1 DEF FirstUse, ChainInv, BusyInv
<1>3. PlaceInv' BY <1>1 DEF FirstUse, PlaceInv, Quiet
<1>4. TimerInv' BY <1>1 DEF FirstUse, TimerInv
<1>5. AnswerInv' BY <1>1 DEF FirstUse, AnswerInv
<1>6. QED BY <1>2, <1>3, <1>4, <1>5 DEF FirstUse

LEMMA OnTimeoutFirst ==
  ASSUME TypeOK, FirstUse, OnTimeout
  PROVE  FirstUse'
<1>1. OpsType BY TypeParts
<1>2. thread = "firing" /\ UNCHANGED <<io, answers>> BY DEF OnTimeout, caller
<1>3. answers = 0 /\ ~m_rerun BY <1>2 DEF FirstUse, TimerInv
<1>4. CASE m_canceled
  <2>1. thread' = "none" /\ t_lock' = "free" /\ UNCHANGED <<ops, m_canceled, m_rerun, pool_obj, busy>>
    BY <1>4 DEF OnTimeout, fields
  <2>2. ChainInv' /\ BusyInv' BY <1>2, <2>1 DEF FirstUse, ChainInv, BusyInv
  <2>3. PlaceInv' BY <1>2, <1>3, <2>1 DEF FirstUse, PlaceInv, Quiet
  <2>4. TimerInv' BY <1>3, <2>1 DEF TimerInv
  <2>5. AnswerInv' BY <1>2, <1>3 DEF AnswerInv
  <2>6. QED BY <2>2, <2>3, <2>4, <2>5 DEF FirstUse
<1>5. CASE ~m_canceled
  <2>1. /\ m_canceled' = TRUE /\ pool_obj' = FALSE
        /\ busy' = (IF pool_obj THEN busy - 1 ELSE busy)
        /\ ops' = CloseOps /\ thread' = "fired" /\ UNCHANGED <<m_rerun, t_lock>>
    BY <1>5 DEF OnTimeout
  <2>2. ~ \E o \in ops : o.kind = "resolve" BY <1>2 DEF FirstUse, PlaceInv, Quiet
  <2>3. /\ \A o, p \in CloseOps : o = p
        /\ ops = {} => CloseOps = {}
        /\ ~ \E o \in CloseOps : o.kind = "resolve"
    BY <1>1, <2>2, CloseOpsType DEF FirstUse, ChainInv
  <2>4. ChainInv' BY <1>2, <2>1, <2>3 DEF FirstUse, ChainInv
  <2>5. PlaceInv' BY <1>2, <1>5, <2>1, <2>3 DEF FirstUse, PlaceInv, Quiet
  <2>6. TimerInv' BY <1>2, <1>3, <2>1 DEF FirstUse, TimerInv
  <2>7. AnswerInv' BY <1>2, <1>3 DEF AnswerInv
  <2>8. BusyInv' BY <2>1 DEF FirstUse, BusyInv
  <2>9. QED BY <2>4, <2>5, <2>6, <2>7, <2>8 DEF FirstUse
<1>6. QED BY <1>4, <1>5

LEMMA OnTimeoutEndsFirst ==
  ASSUME FirstUse, OnTimeoutEnds
  PROVE  FirstUse'
<1>1. /\ thread = "fired" /\ thread' = "none" /\ t_lock' = "free"
      /\ UNCHANGED <<ops, io, m_canceled, pool_obj, busy>>
  BY DEF OnTimeoutEnds
<1>2. m_canceled /\ ~m_rerun /\ ~pool_obj /\ answers = 0 BY <1>1 DEF FirstUse, TimerInv
<1>3. ChainInv' /\ BusyInv' BY <1>1 DEF FirstUse, ChainInv, BusyInv
<1>4. /\ io.pc \notin {"timer", "finish", "stop_again", "failed"}
      /\ ~(io.pc = "decide" /\ io.kind \in {"resolve", "connect", "read"})
      /\ ~ \E o \in ops : o.kind = "resolve"
  BY <1>1 DEF FirstUse, PlaceInv, Quiet
<1>5. PlaceInv' BY <1>1, <1>4 DEF PlaceInv
<1>6. \/ m_rerun' = TRUE /\ answers' = 0
      \/ m_rerun' = m_rerun /\ answers' = 1
  BY <1>2 DEF OnTimeoutEnds, Answer, caller
<1>7. TimerInv' BY <1>1, <1>2, <1>6 DEF TimerInv
<1>8. AnswerInv' BY <1>1, <1>2, <1>6 DEF AnswerInv
<1>9. QED BY <1>3, <1>5, <1>7, <1>8 DEF FirstUse

(***************************************************************************)
(* The invariant and its consequences.                                     *)
(***************************************************************************)

LEMMA InitIInv == Init => IInv
<1> SUFFICES ASSUME Init PROVE IInv OBVIOUS
<1>1. io \in IoRec /\ io.pc = "idle" BY IdleType DEF Init
<1>2. TypeOK
  <2>1. SetupType /\ LockType BY SetupsAssumption DEF Init, SetupType, LockType
  <2>a. m_attempt \in 0..AttemptsCount /\ executes \in 0..MaxExecutes BY AttemptsAssumption DEF Init
  <2>2. FieldType BY <2>a DEF Init, FieldType
  <2>3. BusyType BY DEF Init, BusyType
  <2>4. CallType BY <2>a DEF Init, CallType
  <2>5. OpsType /\ IoType BY <1>1 DEF Init, OpsType, IoType
  <2>6. QED BY <2>1, <2>2, <2>3, <2>4, <2>5, TypeParts
<1>3. WorkInv BY <1>1 DEF Init, WorkInv
<1>4. BeforeInv BY <1>1 DEF Init, BeforeInv
<1>5. FirstUse
  BY <1>1 DEF Init, FirstUse, ChainInv, PlaceInv, Quiet, TimerInv, AnswerInv, BusyInv
<1>6. QED BY <1>2, <1>3, <1>4, <1>5 DEF IInv

\* The count of uses only grows, with Execute.
LEMMA ExecutesGrows ==
  ASSUME TypeOK, [Next]_vars
  PROVE  \/ Execute /\ executes' = executes + 1
         \/ executes' = executes
<1>1. CASE Execute BY <1>1 DEF Execute
<1>2. CASE UNCHANGED vars \/ Return \/ (\E o \in ops : Complete(o) \/ Handle(o)) \/ StopTimer
           \/ ErrorHandler \/ UnlockAgain \/ TimerStart \/ StartOp \/ TimerFires \/ OnTimeout
  BY <1>2 DEF vars, Return, Complete, Handle, StopTimer, ErrorHandler, UnlockAgain, TimerStart,
              StartOp, TimerFires, OnTimeout, caller
<1>3. CASE Failed \/ Finish \/ OnTimeoutEnds
  BY <1>3, AnswerType DEF Failed, Finish, OnTimeoutEnds, caller
<1>4. QED BY <1>1, <1>2, <1>3 DEF Next

LEMMA BeforeStep ==
  ASSUME TypeOK, WorkInv, BeforeInv, FirstUse, [Next]_vars, executes' = 0
  PROVE  BeforeInv'
<1>1. executes = 0 /\ ~Execute
  <2>1. executes \in Nat BY TypeParts, AttemptsAssumption DEF CallType
  <2>2. Execute => executes' = executes + 1 BY DEF Execute
  <2>3. QED BY <2>1, <2>2, ExecutesGrows
<1>2. ops = {} /\ io.pc = "idle" /\ thread = "none" BY <1>1 DEF BeforeInv
<1>3. CASE UNCHANGED vars \/ Return \/ UnlockAgain
  BY <1>1, <1>3 DEF vars, Return, UnlockAgain, BeforeInv, fields, timer, caller
<1>4. CASE \E o \in ops : Complete(o) \/ Handle(o) BY <1>2, <1>4
<1>5. CASE StopTimer \/ ErrorHandler \/ Failed \/ TimerStart \/ StartOp \/ Finish
  BY <1>2, <1>5 DEF StopTimer, ErrorHandler, Failed, TimerStart, StartOp, Finish
<1>6. CASE TimerFires \/ OnTimeout \/ OnTimeoutEnds
  BY <1>2, <1>6 DEF TimerFires, OnTimeout, OnTimeoutEnds
<1>7. QED BY <1>1, <1>3, <1>4, <1>5, <1>6 DEF Next

LEMMA FirstStep ==
  ASSUME TypeOK, WorkInv, BeforeInv, FirstUse, [Next]_vars, executes' <= 1
  PROVE  FirstUse'
<1>1. CASE UNCHANGED vars BY <1>1, FirstUseFrame DEF vars, fields, timer, caller
<1>2. CASE Return BY <1>2, FirstUseFrame DEF Return, fields, timer
<1>3. CASE UnlockAgain BY <1>3, FirstUseFrame DEF UnlockAgain, fields, timer, caller
<1>4. CASE Execute
  <2>1. executes' = executes + 1 /\ executes \in Nat
    BY <1>4, TypeParts, AttemptsAssumption DEF Execute, CallType
  <2>2. executes = 0 BY <2>1
  <2>3. QED BY <1>4, <2>2, ExecuteFirst
<1>5. QED
  BY <1>1, <1>2, <1>3, <1>4, CompleteFirst, HandleFirst, StopTimerFirst, ErrorHandlerFirst,
     FailedFirst, TimerStartFirst, StartOpFirst, FinishFirst, TimerFiresFirst, OnTimeoutFirst,
     OnTimeoutEndsFirst DEF Next

LEMMA StepIInv == IInv /\ [Next]_vars => IInv'
<1> SUFFICES ASSUME IInv, [Next]_vars PROVE IInv' OBVIOUS
<1>1. TypeOK /\ WorkInv /\ BeforeInv /\ (executes <= 1 => FirstUse) BY DEF IInv
<1>2. TypeOK' /\ WorkInv' BY <1>1, TypesStep
<1>3. executes \in Nat /\ executes' \in Nat /\ executes' >= executes
  <2>1. executes \in Nat BY <1>1, AttemptsAssumption DEF TypeOK
  <2>2. QED BY <1>1, <2>1, ExecutesGrows
<1>4. BeforeInv'
  <2>1. CASE executes' = 0
    <3>1. executes <= 1 BY <1>3, <2>1
    <3>2. QED BY <1>1, <2>1, <3>1, BeforeStep
  <2>2. CASE executes' # 0 BY <2>2 DEF BeforeInv
  <2>3. QED BY <2>1, <2>2
<1>5. ASSUME executes' <= 1 PROVE FirstUse'
  <2>1. executes <= 1 BY <1>3, <1>5
  <2>2. QED BY <1>1, <1>5, <2>1, FirstStep
<1>6. QED BY <1>2, <1>4, <1>5 DEF IInv

LEMMA Invariance == Spec => []IInv
<1>1. QED BY InitIInv, StepIInv, PTL DEF Spec

\* An object on the io_context of the server is used once.
Once == ~setup.own => executes <= 1

LEMMA OnceStep == IInv /\ Once /\ [Next]_vars => Once'
<1> SUFFICES ASSUME IInv, Once, [Next]_vars, ~setup'.own PROVE executes' <= 1 BY DEF Once
<1>1. TypeOK /\ executes \in Nat BY AttemptsAssumption DEF IInv, TypeOK
<1>2. setup' = setup
  BY DEF Next, vars, Execute, Return, Complete, Handle, StopTimer, ErrorHandler, Failed, UnlockAgain,
         TimerStart, StartOp, Finish, TimerFires, OnTimeout, OnTimeoutEnds
<1>3. CASE executes' = executes BY <1>2, <1>3 DEF Once
<1>4. CASE Execute /\ executes' = executes + 1
  <2>1. executes < 1 BY <1>2, <1>4 DEF Execute
  <2>2. QED BY <1>1, <1>4, <2>1
<1>5. QED BY <1>1, <1>3, <1>4, ExecutesGrows

LEMMA OnceHolds == Spec => []Once
<1>1. Init => Once BY DEF Init, Once
<1>2. QED BY <1>1, OnceStep, Invariance, PTL DEF Spec

\* The types, in every use, and with them that an entry held by the object is
\* always counted as busy: close never gives back an entry twice.
THEOREM TypesHold == Spec => [](TypeOK /\ (pool_obj => busy >= 1))
<1>1. IInv => TypeOK /\ (pool_obj => busy >= 1) BY DEF IInv, WorkInv
<1>2. QED BY <1>1, Invariance, PTL

\* A request on the io_context of the server, and the first use of any other
\* object: whatever the number of attempts, the callback is called at most once,
\* although on_timeout, error_handler and on_read may each end the request and
\* m_locker is unlocked once too often.
THEOREM AnsweredOnceFirstUse == Spec => [](~setup.own \/ executes <= 1 => AnsweredOnce)
<1>1. IInv /\ Once => (~setup.own \/ executes <= 1 => AnsweredOnce)
  BY DEF IInv, Once, FirstUse, AnswerInv, AnsweredOnce
<1>2. QED BY <1>1, Invariance, OnceHolds, PTL

\* Of such a request: it holds at most one entry of the connection pool, and none
\* when it has answered.
THEOREM PoolEntryReturnedFirstUse == Spec => [](~setup.own \/ executes <= 1 => PoolEntryReturned)
<1>1. IInv /\ Once => (~setup.own \/ executes <= 1 => PoolEntryReturned)
  <2>1. ASSUME IInv, Once, ~setup.own \/ executes <= 1 PROVE FirstUse BY <2>1 DEF IInv, Once
  <2>2. FirstUse => PoolEntryReturned BY DEF FirstUse, AnswerInv, BusyInv, PoolEntryReturned
  <2>3. QED BY <2>1, <2>2
<1>2. QED BY <1>1, Invariance, OnceHolds, PTL

\* A late completion does not bring an answered request back to life: no step of
\* an object that is used once starts an attempt or takes an entry after the
\* answer.
THEOREM AnswerIsFinalOnce == MaxExecutes = 1 => (Spec => AnswerIsFinal)
<1> SUFFICES ASSUME MaxExecutes = 1 PROVE Spec => AnswerIsFinal OBVIOUS
<1>1. ASSUME IInv, [Next]_vars
      PROVE  [answers > 0 /\ answers' > 0 => m_attempt' = m_attempt /\ busy' <= busy]_vars
  <2>1. SUFFICES ASSUME Next, answers > 0, answers' > 0 PROVE m_attempt' = m_attempt /\ busy' <= busy
    BY <1>1
  <2>2. TypeOK /\ FirstUse /\ busy \in Nat BY <1>1 DEF IInv, TypeOK
  <2>3. io.pc # "failed" /\ ~Execute
    <3>1. io.pc = "failed" => answers = 0 BY <2>2 DEF FirstUse, PlaceInv
    <3>2. Execute => answers' = 0 BY DEF Execute
    <3>3. QED BY <2>1, <3>1, <3>2
  <2>4. (IF pool_obj THEN busy - 1 ELSE busy) <= busy BY <2>2
  <2>5. CASE Return \/ (\E o \in ops : Complete(o) \/ Handle(o)) \/ StopTimer \/ ErrorHandler
             \/ UnlockAgain \/ TimerStart \/ StartOp \/ TimerFires \/ OnTimeoutEnds
    BY <2>2, <2>5 DEF Return, Complete, Handle, StopTimer, ErrorHandler, UnlockAgain, TimerStart,
                      StartOp, TimerFires, OnTimeoutEnds, fields
  <2>6. CASE OnTimeout BY <2>2, <2>4, <2>6 DEF OnTimeout, fields
  <2>7. CASE Finish BY <2>4, <2>7 DEF Finish
  <2>8. CASE Failed BY <2>3, <2>8 DEF Failed
  <2>9. QED BY <2>1, <2>3, <2>5, <2>6, <2>7, <2>8 DEF Next
<1>2. QED BY <1>1, Invariance, PTL DEF Spec, AnswerIsFinal


=============================================================================
