------------------------------ MODULE BmMessage ------------------------------
(***************************************************************************)
(* The shared-memory messages of the real-time cores:                      *)
(* src/real_time/baremetal/message/message.c with the part of the          *)
(* interrupt layer (hwi_init.c, hwi_proc.c) a notified send goes through.  *)
(*                                                                         *)
(* Every core runs a main context and an interrupt context; the interrupt  *)
(* context preempts the main one between any two memory accesses and runs  *)
(* to completion.  A message slot is a status word (FREE/USING) taken with *)
(* a compare-and-swap and a body copied word by word.  Each core has one   *)
(* trigger word that tells its IPI handler which message to look at.       *)
(***************************************************************************)
EXTENDS Naturals

CONSTANTS NumCores,   \* cores of the real-time side (BM_MAX_CORE_NUM)
          NumMsgs,    \* message slots (MSG_ID_BOTTOM)
          BodyLen,    \* words of a message body (msg_len)
          Words,      \* values a sender puts into a message; 0 is boot memory
          Calls,      \* the calls main contexts make
          MaxCalls    \* bound: calls each main context makes

(* The arguments of a call: an id or a core may be out of range by one and *)
(* a length too long by one word.  A length of 0 is as good as any other:  *)
(* the code checks no lower bound and memcpy_s copies nothing.             *)
Requests == [op : {"none", "send", "sendIpi", "recv"}, id : 0..NumMsgs,
             word : Words \cup {0}, len : 0..(BodyLen + 1), cpu : 0..NumCores]

ASSUME ConstantsAssumption ==
    /\ NumCores \in Nat \ {0}
    /\ NumMsgs \in Nat \ {0}
    /\ BodyLen \in Nat \ {0}
    /\ Calls \subseteq Requests /\ \A r \in Calls : r.op # "none"
    /\ MaxCalls \in Nat

Cores  == 0..(NumCores - 1)
MsgIds == 0..(NumMsgs - 1)
Ctx    == Cores \X {"main", "irq"}
Bodies == [1..BodyLen -> Words \cup {0}]

VARIABLES status,      \* status[m]: the slot's status word
          body,        \* body[m]: the slot's words
          trigger,     \* trigger[c]: the IPI argument word of core c
          ipiEnabled,  \* ipiEnabled[c]: the IPI is enabled in c's redistributor
          ipiPending,  \* ipiPending[c]: the IPI is pending at c
          pc,          \* pc[x]: where context x is in the call it makes
          call,        \* call[x]: the arguments of that call
          pos,         \* pos[x]: words its copy has moved so far
          buf,         \* buf[x]: the caller's receive buffer
          ret,         \* ret[x]: what the last call returned
          stored,      \* history: stored[m], the body as the last send left it
          posted,      \* history: <<m, c>>, a send of m to notify c is stored
          calls        \* calls[c]: API calls the main context of c has made

memVars == <<status, body, trigger, stored, posted>>
irqVars == <<ipiEnabled, ipiPending>>
vars    == <<memVars, irqVars, pc, call, pos, buf, ret, calls>>

Zero == [i \in 1..BodyLen |-> 0]
Core(x) == x[1]

(* An interrupt handler runs with interrupts masked, ahead of main. *)
Runs(x) == x[2] = "irq" \/ pc[<<Core(x), "irq">>] = "idle"

NoCall == [op |-> "none", id |-> 0, word |-> 0, len |-> 0, cpu |-> 0]
Request(op, id, word, len, cpu) ==
    [op |-> op, id |-> id, word |-> word, len |-> len, cpu |-> cpu]

IsSend(x) == call[x].op \in {"send", "sendIpi"}

At(x, l) == pc[x] = l /\ Runs(x)
Goto(x, l) == pc' = [pc EXCEPT ![x] = l]

Return(x, r) == /\ Goto(x, "idle")
                /\ ret' = [ret EXCEPT ![x] = r]

-----------------------------------------------------------------------------
(* The state bm_msg_init leaves: free slots, zeroed trigger words.  The    *)
(* bodies still hold boot memory; bm_loader has enabled each core's IPI.   *)
Init == /\ status = [m \in MsgIds |-> "FREE"]
        /\ body = [m \in MsgIds |-> Zero]
        /\ trigger = [c \in Cores |-> 0]
        /\ ipiEnabled = [c \in Cores |-> TRUE]
        /\ ipiPending = [c \in Cores |-> FALSE]
        /\ pc = [x \in Ctx |-> "idle"]
        /\ call = [x \in Ctx |-> NoCall]
        /\ pos = [x \in Ctx |-> 0]
        /\ buf = [x \in Ctx |-> Zero]
        /\ ret = [x \in Ctx |-> "BM_OK"]
        /\ stored = [m \in MsgIds |-> Zero]
        /\ posted = {}
        /\ calls = [c \in Cores |-> 0]

(* The main context of c calls into the interface with a fresh buffer.     *)
Enter(c, r) ==
    LET x == <<c, "main">> IN
    /\ At(x, "idle")
    /\ calls[c] < MaxCalls
    /\ calls' = [calls EXCEPT ![c] = @ + 1]
    /\ call' = [call EXCEPT ![x] = r]
    /\ pos' = [pos EXCEPT ![x] = 0]
    /\ buf' = [buf EXCEPT ![x] = Zero]
    /\ Goto(x, "cas")
    /\ UNCHANGED <<memVars, irqVars, ret>>

BmSendMsg(c) == \E r \in Calls : r.op = "send" /\ Enter(c, r)

(* recv_cpu is only checked after the message has been copied. *)
BmSendMsgWithIpi(c) == \E r \in Calls : r.op = "sendIpi" /\ Enter(c, r)

BmRecvMsg(c) == \E r \in Calls : r.op = "recv" /\ Enter(c, r)

(* Mutant: a receive does not take the slot lock. *)
MayTakeUnlocked(x) == /\ call[x].id \in MsgIds
                      /\ IsSend(x) => status[call[x].id] = "FREE"

(* The argument check and the test of the compare-and-swap. *)
MayTake(x) == call[x].id \in MsgIds /\ status[call[x].id] = "FREE"

(* Mutant: bm_send_msg_with_ipi ignores the failure of bm_send_msg. *)
RefuseNotifies(x) == IF call[x].op = "sendIpi"
                     THEN Goto(x, "notify") /\ UNCHANGED ret
                     ELSE Return(x, "BM_FAIL")

(* Mutant: a blocking lock, the caller spins until the slot is free. *)
RefuseSpins(x) == UNCHANGED <<pc, ret>>

(* The call is refused: the slot is in use or the id is out of range. *)
Refuse(x) == Return(x, "BM_FAIL")

(* bm_cmp_xchg32bits(addr, USING, FREE), one atomic ldxr/stxr pair, then    *)
(* the length check of bm_send_msg, which is made with the slot held.       *)
CmpXchg(x) ==
    /\ At(x, "cas")
    /\ \/ /\ MayTake(x)
          /\ status' = [status EXCEPT ![call[x].id] = "USING"]
          /\ Goto(x, IF IsSend(x) /\ call[x].len > BodyLen THEN "abort" ELSE "copy")
          /\ UNCHANGED ret
       \/ ~MayTake(x) /\ Refuse(x) /\ UNCHANGED status
    /\ UNCHANGED <<body, trigger, stored, posted, irqVars, call, pos, buf, calls>>

(* Mutant: the receive length is not clamped. *)
CopyLenUnclamped(x) == call[x].len

(* Words the call moves: a receive is clamped to the slot's length. *)
CopyLen(x) == IF call[x].len > BodyLen THEN BodyLen ELSE call[x].len

(* memcpy_s, one word. *)
CopyWord(x) ==
    LET m == call[x].id
        i == pos[x] + 1
    IN
    /\ At(x, "copy")
    /\ i <= CopyLen(x)
    /\ pos' = [pos EXCEPT ![x] = i]
    /\ IF IsSend(x)
         THEN /\ body' = [body EXCEPT ![m] = [body[m] EXCEPT ![i] = call[x].word]]
              /\ UNCHANGED buf
         ELSE /\ buf' = [buf EXCEPT ![x] = [buf[x] EXCEPT ![i] = body[m][i]]]
              /\ UNCHANGED body
    /\ UNCHANGED <<status, trigger, stored, posted, irqVars, pc, call, ret, calls>>

(* Mutant: off by one, the last word is not copied. *)
CopyDoneEarly(x) == pos[x] + 1 = CopyLen(x)

CopyDone(x) == pos[x] = CopyLen(x)

(* bm_atomic_set(addr, FREE) after the copy; dsb() makes it visible.  A     *)
(* notified send goes on to check recv_cpu, every other call returns.       *)
Release(x) ==
    LET m == call[x].id IN
    /\ At(x, "copy")
    /\ CopyDone(x)
    /\ status' = [status EXCEPT ![m] = "FREE"]
    /\ stored' = [stored EXCEPT ![m] = IF IsSend(x) THEN body[m] ELSE @]
    /\ IF call[x].op = "sendIpi"
         THEN /\ posted' = posted \cup {<<m, call[x].cpu>>}
              /\ Goto(x, "notify") /\ UNCHANGED ret
         ELSE Return(x, "BM_OK") /\ UNCHANGED posted
    /\ UNCHANGED <<body, trigger, irqVars, call, pos, buf, calls>>

(* Mutant: the early return of the length check keeps the slot. *)
AbortLeaks(x) ==
    /\ At(x, "abort")
    /\ Return(x, "BM_FAIL")
    /\ UNCHANGED <<memVars, irqVars, call, pos, buf, calls>>

(* buf_len > dest_max: the slot is given back untouched. *)
Abort(x) ==
    /\ At(x, "abort")
    /\ status' = [status EXCEPT ![call[x].id] = "FREE"]
    /\ Return(x, "BM_FAIL")
    /\ UNCHANGED <<body, trigger, stored, posted, irqVars, call, pos, buf, calls>>

(* if (recv_cpu >= BM_MAX_CORE_NUM) return BM_FAIL; set_trigger() *)
SetTrigger(x) ==
    LET t == call[x].cpu IN
    /\ At(x, "notify")
    /\ IF t \in Cores
         THEN /\ trigger' = [trigger EXCEPT ![t] = call[x].id]
              /\ Goto(x, "sgi")
              /\ UNCHANGED ret
         ELSE Return(x, "BM_FAIL") /\ UNCHANGED trigger
    /\ UNCHANGED <<status, body, stored, posted, irqVars, call, pos, buf, calls>>

(* bm_hwi_trigger: refused when the caller's own IPI is disabled; its       *)
(* result is ignored and the send returns BM_OK either way.                 *)
BmHwiTrigger(x) ==
    LET t == call[x].cpu IN
    /\ At(x, "sgi")
    /\ ipiPending' = [ipiPending EXCEPT ![t] = @ \/ ipiEnabled[Core(x)]]
    /\ Return(x, "BM_OK")
    /\ UNCHANGED <<memVars, ipiEnabled, call, pos, buf, calls>>

(* Mutant: the interrupt is not acknowledged. *)
AcknowledgeNot(c) == UNCHANGED ipiPending

(* ICC_IAR1_EL1 is read: the IPI is no longer pending. *)
Acknowledge(c) == ipiPending' = [ipiPending EXCEPT ![c] = FALSE]

(* do_irq: an enabled IPI is acknowledged and its handler entered. *)
DoIrq(c) ==
    LET x == <<c, "irq">> IN
    /\ pc[x] = "idle"
    /\ ipiPending[c]
    /\ ipiEnabled[c]
    /\ Acknowledge(c)
    /\ Goto(x, "readTrigger")
    /\ UNCHANGED <<memVars, ipiEnabled, call, pos, buf, ret, calls>>

(* bm_recv_msg_with_ipi, called by the handler: *msg_id is the trigger word *)
(* of the own core, and bm_recv_msg copies that message.                    *)
BmRecvMsgWithIpi(x) ==
    /\ At(x, "readTrigger")
    /\ call' = [call EXCEPT ![x] = Request("recv", trigger[Core(x)], 0, BodyLen, 0)]
    /\ pos' = [pos EXCEPT ![x] = 0]
    /\ buf' = [buf EXCEPT ![x] = Zero]
    /\ Goto(x, "cas")
    /\ UNCHANGED <<memVars, irqVars, ret, calls>>

(* bm_enable_irq / bm_disable_irq (IPI_INT_NO), called by main code. *)
BmSetIrq(c) ==
    /\ At(<<c, "main">>, "idle")
    /\ calls[c] < MaxCalls
    /\ calls' = [calls EXCEPT ![c] = @ + 1]
    /\ ipiEnabled' = [ipiEnabled EXCEPT ![c] = ~@]
    /\ UNCHANGED <<memVars, ipiPending, pc, call, pos, buf, ret>>

Begin(c) == BmSendMsg(c) \/ BmSendMsgWithIpi(c) \/ BmRecvMsg(c) \/ BmSetIrq(c)

Step(x) == \/ CmpXchg(x) \/ CopyWord(x) \/ Release(x) \/ Abort(x)
           \/ SetTrigger(x) \/ BmHwiTrigger(x) \/ BmRecvMsgWithIpi(x)

(* Every core has made its calls and served its interrupts. *)
Done == /\ \A x \in Ctx : pc[x] = "idle"
        /\ \A c \in Cores : calls[c] = MaxCalls
        /\ UNCHANGED vars

Next == \/ \E c \in Cores : Begin(c) \/ DoIrq(c)
        \/ \E x \in Ctx : Step(x)
        \/ Done

(* A core executes: a context that may run takes its next step, and an     *)
(* enabled pending interrupt is taken.                                     *)
Fairness == /\ \A x \in Ctx : WF_vars(Step(x))
            /\ \A c \in Cores : WF_vars(DoIrq(c))

Spec == Init /\ [][Next]_vars
FairSpec == Spec /\ Fairness

-----------------------------------------------------------------------------
Locations == {"idle", "cas", "copy", "abort", "notify", "sgi", "readTrigger"}

(* Every variable has the type the code gives it. *)
TypeOK == /\ status \in [MsgIds -> {"FREE", "USING"}]
          /\ body \in [MsgIds -> Bodies]
          /\ trigger \in [Cores -> MsgIds]
          /\ ipiEnabled \in [Cores -> BOOLEAN]
          /\ ipiPending \in [Cores -> BOOLEAN]
          /\ pc \in [Ctx -> Locations]
          /\ call \in [Ctx -> Requests]
          /\ pos \in [Ctx -> 0..BodyLen]
          /\ buf \in [Ctx -> Bodies]
          /\ ret \in [Ctx -> {"BM_OK", "BM_FAIL"}]
          /\ stored \in [MsgIds -> Bodies]
          /\ posted \subseteq MsgIds \X (0..NumCores)
          /\ calls \in [Cores -> 0..MaxCalls]

(* Context x is between its compare-and-swap and its store of FREE. *)
Holds(x, m) == pc[x] \in {"copy", "abort"} /\ call[x].id = m

(* The status word is a lock: two contexts, of one core or of two, never    *)
(* work on a slot at the same time, and a slot is USING exactly while one   *)
(* does - no path of the code leaves a slot taken or frees another's.       *)
SlotLock == \A m \in MsgIds :
               /\ status[m] = "USING" <=> \E x \in Ctx : Holds(x, m)
               /\ \A x, y \in Ctx : Holds(x, m) /\ Holds(y, m) => x = y

(* What a receive has copied so far is what one send, and nothing newer,    *)
(* left in the slot: no receive mixes the words of two sends, although      *)
(* bodies are copied word by word and receivers run inside interrupts.      *)
NoTornReceive ==
    \A x \in Ctx : pc[x] = "copy" /\ ~IsSend(x) =>
        \A i \in 1..BodyLen : buf[x][i] = IF i <= pos[x] THEN stored[call[x].id][i] ELSE 0

(* When an IPI is pending at a core, the trigger word names a message that  *)
(* a notified send to this very core has stored completely: no handler is   *)
(* sent to a message that is not written yet, that was refused or that is   *)
(* meant for another core, although senders overwrite each other's words.   *)
IpiAnnouncesStored == \A c \in Cores : ipiPending[c] => <<trigger[c], c>> \in posted

(* Every call returns and every enabled interrupt is served once calls stop *)
(* coming: the try-lock never blocks, so no wait cycle between cores, or    *)
(* between a handler and the main code it interrupted, is possible.         *)
CallsReturn == \A x \in Ctx : pc[x] # "idle" ~> pc[x] = "idle"

IpiServed == \A c \in Cores : ipiPending[c] /\ ipiEnabled[c] ~>
                                 (~ipiPending[c] \/ ~ipiEnabled[c])

InCall(x) == pc[x] \notin {"idle", "readTrigger"}

(* The refinement mapping: where the call of x is in the register's life    *)
(* (a notified send has stored its message before it notifies), and what    *)
(* the caller sees of it; a failed receive gives no data.                   *)
BoxStage == [x \in Ctx |-> IF ~InCall(x) THEN "idle"
                           ELSE IF pc[x] \in {"notify", "sgi"} THEN "stored" ELSE "called"]

BoxResult == [x \in Ctx |->
                IF InCall(x) THEN [code |-> "busy", data |-> Zero]
                ELSE [code |-> ret[x],
                      data |-> IF call[x].op = "recv" /\ ret[x] = "BM_OK"
                               THEN buf[x] ELSE Zero]]

Box == INSTANCE MsgBox WITH
    Callers <- Ctx, Words <- Words \cup {0}, box <- stored, req <- call,
    stage <- BoxStage, result <- BoxResult

(* The promise of bm_message.h: every message id behaves as an atomic       *)
(* register that calls read and write in one step.                          *)
AtomicRegisters == Box!Spec
=============================================================================
