------------------------------ MODULE MsgScm3 ------------------------------
(***************************************************************************)
(* The driver through which Linux processes talk to the secure M3:         *)
(* src/non_real_time/drivers/msg_scm3/msg_scm3.c.                          *)
(*                                                                         *)
(* A request takes a data buffer, is put into the M3's ring and waits on   *)
(* the completion of its buffer index.  The M3 puts replies into the A55's *)
(* ring and raises a level interrupt; the handler queues a work item and   *)
(* clears the interrupt, and the work item wakes the waiters.              *)
(***************************************************************************)
EXTENDS Naturals, Sequences, FiniteSets

CONSTANTS Procs,      \* processes calling the ioctl
          Depth,      \* MSG_Q_DEPTH: slots of each ring, and data buffers
          MaxRetry,   \* MSG_SEND_RETRY_TIMES
          MaxCalls,   \* bound: ioctl calls in all
          RxTimeouts, \* whether the 60 s wait for a reply may expire
          Crcs        \* checksums replies arrive with: TRUE is a good one

ASSUME ParamAssumption ==
    /\ Depth \in Nat /\ Depth > 1
    /\ MaxRetry \in Nat \ {0}
    /\ MaxCalls \in Nat
    /\ RxTimeouts \in BOOLEAN
    /\ Crcs \subseteq BOOLEAN

Slots == 0..(Depth - 1)
Tags  == 0..MaxCalls       \* identities of calls; 0 is none

VARIABLES bufStatus,   \* msg_buf_status[i]
          completion,  \* msg_completion[i].done
          userAddr,    \* msg_user_addr[i]: the ring slot of the last reply to i
          data,        \* data[i]: whose bytes the buffer holds, and whether a response
          m3Ring, m3Pi, m3Ci,     \* MSG_Q_TYPE_SECURE_M3
          m3Init,      \* its init_flag holds MSG_Q_INIT_MAGIC
          a55Ring, a55Pi, a55Ci,  \* MSG_Q_TYPE_A55
          softInt,     \* SC_ASSERT_SOFT_INT: the M3's interrupt is asserted
          irqPc,       \* the interrupt handler: "idle" or "clear"
          workPending, \* the work item is queued
          workPc,      \* the work item: "idle", "check" or "advance"
          m3Busy,      \* requests the M3 has taken and not answered
          pc,          \* pc[p]: where process p is in its ioctl
          idx,         \* idx[p]: its buffer index
          tag,         \* tag[p]: the identity of its call
          tries,       \* tries[p]: sends that were refused
          msg,         \* msg[p]: the call whose reply message it has copied
          sent,        \* history: requests in the M3's ring, in order
          replied,     \* history: replies in the A55's ring, in order
          expired,     \* history: some wait for a reply has expired
          calls        \* calls made so far

bufVars  == <<bufStatus, data>>
wakeVars == <<completion, userAddr>>
m3Vars   == <<m3Ring, m3Pi, m3Ci, m3Init, sent>>
a55Vars  == <<a55Ring, a55Pi, a55Ci, replied>>
intVars  == <<softInt, irqPc, workPending, workPc>>
locals   == <<idx, tag, tries, msg>>
procVars == <<pc, locals>>
vars == <<bufVars, wakeVars, m3Vars, a55Vars, intVars, m3Busy, procVars, expired, calls>>

NoEntry == [index |-> 0, tag |-> 0, crc |-> TRUE]
Entry(i, t, c) == [index |-> i, tag |-> t, crc |-> c]

Init == /\ bufStatus = [i \in Slots |-> 0]
        /\ completion = [i \in Slots |-> 0]
        /\ userAddr = [i \in Slots |-> 0]
        /\ data = [i \in Slots |-> [tag |-> 0, resp |-> FALSE]]
        /\ m3Ring = [s \in Slots |-> NoEntry] /\ m3Pi = 0 /\ m3Ci = 0 /\ m3Init = FALSE
        /\ sent = <<>>
        /\ a55Ring = [s \in Slots |-> NoEntry] /\ a55Pi = 0 /\ a55Ci = 0 /\ replied = <<>>
        /\ softInt = FALSE /\ irqPc = "idle" /\ workPending = FALSE /\ workPc = "idle"
        /\ m3Busy = {}
        /\ pc = [p \in Procs |-> "idle"]
        /\ idx = [p \in Procs |-> 0]
        /\ tag = [p \in Procs |-> 0]
        /\ tries = [p \in Procs |-> 0]
        /\ msg = [p \in Procs |-> 0]
        /\ expired = FALSE
        /\ calls = 0

(* Mutant: an index that runs off the end of its ring. *)
SuccNoWrap(i) == i + 1

Succ(i) == (i + 1) % Depth

(* Mutant: the ring's last slot is used too. *)
FullNever(pi, ci) == FALSE

(* One slot stays empty to tell a full ring from an empty one. *)
Full(pi, ci) == Succ(pi) = ci

Free(i) == bufStatus[i] = 0

Goto(p, l) == pc' = [pc EXCEPT ![p] = l]

(* The ioctl returns; its locals are gone. *)
Return(p) == /\ Goto(p, "idle")
             /\ idx' = [idx EXCEPT ![p] = 0]
             /\ tag' = [tag EXCEPT ![p] = 0]
             /\ tries' = [tries EXCEPT ![p] = 0]
             /\ msg' = [msg EXCEPT ![p] = 0]

(* Mutant: an error path forgets the buffer. *)
ReleaseNot(p) == Return(p) /\ UNCHANGED bufStatus

(* msg_release_data_buffer, and the ioctl returns. *)
Release(p) == Return(p) /\ bufStatus' = [bufStatus EXCEPT ![idx[p]] = 0]

-----------------------------------------------------------------------------
(* msg_get_data_buffer, under its spin lock: the lowest free index, or an   *)
(* error when all are taken.                                                *)
GetBuffer(p) ==
    /\ pc[p] = "idle"
    /\ calls < MaxCalls
    /\ calls' = calls + 1
    /\ \/ /\ \A i \in Slots : ~Free(i)
          /\ UNCHANGED <<bufStatus, procVars>>
       \/ \E i \in Slots :
             /\ Free(i)
             /\ \A j \in Slots : j < i => ~Free(j)
             /\ bufStatus' = [bufStatus EXCEPT ![i] = 1]
             /\ idx' = [idx EXCEPT ![p] = i]
             /\ tag' = [tag EXCEPT ![p] = calls']
             /\ Goto(p, "copyIn")
             /\ UNCHANGED <<tries, msg>>
    /\ UNCHANGED <<data, wakeVars, m3Vars, a55Vars, intVars, m3Busy, expired>>

(* copy_from_user into the data buffer; a fault gives the buffer back. *)
CopyIn(p) ==
    /\ pc[p] = "copyIn"
    /\ \/ /\ data' = [data EXCEPT ![idx[p]] = [tag |-> tag[p], resp |-> FALSE]]
          /\ Goto(p, "send")
          /\ UNCHANGED <<bufStatus, locals>>
       \/ Release(p) /\ UNCHANGED data
    /\ UNCHANGED <<wakeVars, m3Vars, a55Vars, intVars, m3Busy, expired, calls>>

(* msg_cmd_send refuses while the M3 has not set up its ring, and when the  *)
(* ring is full.                                                            *)
Refused == ~m3Init \/ Full(m3Pi, m3Ci)

(* msg_cmd_send under the ring's spin lock. *)
Send(p) ==
    /\ pc[p] = "send"
    /\ ~Refused
    /\ m3Ring' = [m3Ring EXCEPT ![m3Pi] = Entry(idx[p], tag[p], TRUE)]
    /\ m3Pi' = Succ(m3Pi)
    /\ sent' = Append(sent, tag[p])
    /\ Goto(p, "wait")
    /\ UNCHANGED <<m3Ci, m3Init, locals, bufVars, wakeVars, a55Vars, intVars, m3Busy, expired, calls>>

(* Mutant: a failed attempt is not counted. *)
CountNot(p) == UNCHANGED tries

CountTry(p) == tries' = [tries EXCEPT ![p] = @ + 1]

(* Sleep and try again, a bounded number of times. *)
SendRefused(p) ==
    /\ pc[p] = "send"
    /\ Refused
    /\ IF tries[p] + 1 < MaxRetry
         THEN CountTry(p) /\ UNCHANGED <<pc, idx, tag, msg, bufStatus>>
         ELSE Release(p)
    /\ UNCHANGED <<data, wakeVars, m3Vars, a55Vars, intVars, m3Busy, expired, calls>>

(* wait_for_completion_timeout: woken. *)
Woken(p) ==
    /\ pc[p] = "wait"
    /\ completion[idx[p]] > 0
    /\ completion' = [completion EXCEPT ![idx[p]] = @ - 1]
    /\ Goto(p, "copyMsg")
    /\ UNCHANGED <<userAddr, locals, bufVars, m3Vars, a55Vars, intVars, m3Busy, expired, calls>>

(* wait_for_completion_timeout: 60 s are over. *)
RxTimeout(p) ==
    /\ RxTimeouts
    /\ pc[p] = "wait"
    /\ completion[idx[p]] = 0
    /\ Release(p)
    /\ expired' = TRUE
    /\ UNCHANGED <<data, wakeVars, m3Vars, a55Vars, intVars, m3Busy, calls>>

(* msg_check_interal_error *)
IsResponse(p) == data[idx[p]].resp

(* msg_sec_module_cmd_tx_rx copies the reply message out of the ring slot   *)
(* it was seen in, and refuses a buffer that holds no response.             *)
CopyMsg(p) ==
    /\ pc[p] = "copyMsg"
    /\ IF IsResponse(p)
         THEN /\ msg' = [msg EXCEPT ![p] = a55Ring[userAddr[idx[p]]].tag]
              /\ Goto(p, "copyOut")
              /\ UNCHANGED <<idx, tag, tries, bufStatus>>
         ELSE Release(p)
    /\ UNCHANGED <<data, wakeVars, m3Vars, a55Vars, intVars, m3Busy, expired, calls>>

(* The length check, msg_sec_module_cmd_cpy_to_user and the release; they   *)
(* release the buffer whether they succeed or not.                          *)
CopyOut(p) ==
    /\ pc[p] = "copyOut"
    /\ Release(p)
    /\ UNCHANGED <<data, wakeVars, m3Vars, a55Vars, intVars, m3Busy, expired, calls>>

-----------------------------------------------------------------------------
(* The secure M3 sets up its ring: the driver initialises only its own. *)
M3Boot == /\ ~m3Init
          /\ m3Init' = TRUE
          /\ UNCHANGED <<m3Ring, m3Pi, m3Ci, sent, bufVars, wakeVars, a55Vars, intVars, m3Busy,
                         procVars, expired, calls>>

(* The secure M3 takes a request out of its ring (nobody reads it again). *)
M3Take ==
    /\ m3Pi # m3Ci
    /\ m3Busy' = m3Busy \cup {m3Ring[m3Ci]}
    /\ m3Ring' = [m3Ring EXCEPT ![m3Ci] = NoEntry]
    /\ m3Ci' = Succ(m3Ci)
    /\ sent' = Tail(sent)
    /\ UNCHANGED <<m3Pi, m3Init, bufVars, wakeVars, a55Vars, intVars, procVars, expired, calls>>

(* The secure M3 answers one of the requests it has taken: it writes the    *)
(* response into the data buffer, the message into the A55's ring, and      *)
(* asserts the interrupt.                                                   *)
M3Reply ==
    \E r \in m3Busy, c \in Crcs :
        /\ ~Full(a55Pi, a55Ci)
        /\ m3Busy' = m3Busy \ {r}
        /\ data' = [data EXCEPT ![r.index] = [tag |-> r.tag, resp |-> TRUE]]
        /\ a55Ring' = [a55Ring EXCEPT ![a55Pi] = Entry(r.index, r.tag, c)]
        /\ a55Pi' = Succ(a55Pi)
        /\ replied' = Append(replied, r.tag)
        /\ softInt' = TRUE
        /\ UNCHANGED <<bufStatus, a55Ci, wakeVars, m3Vars, irqPc, workPending, workPc, procVars, expired, calls>>

(* msg_interrupt_handle: queue the work item ... *)
IrqQueue == /\ irqPc = "idle" /\ softInt
            /\ workPending' = TRUE
            /\ irqPc' = "clear"
            /\ UNCHANGED <<softInt, workPc, bufVars, wakeVars, m3Vars, a55Vars, m3Busy, procVars, expired, calls>>

(* ... then clear the interrupt. *)
IrqClear == /\ irqPc = "clear"
            /\ softInt' = FALSE
            /\ irqPc' = "idle"
            /\ UNCHANGED <<workPending, workPc, bufVars, wakeVars, m3Vars, a55Vars, m3Busy, procVars, expired, calls>>

WorkStart == /\ workPending /\ workPc = "idle"
             /\ workPending' = FALSE
             /\ workPc' = "check"
             /\ UNCHANGED <<softInt, irqPc, bufVars, wakeVars, m3Vars, a55Vars, m3Busy, procVars, expired, calls>>

(* Mutant: complete_all, after which the completion stays done. *)
CompleteAll(i) == completion' = [completion EXCEPT ![i] = MaxCalls]

Complete(i) == completion' = [completion EXCEPT ![i] = @ + 1]

(* msg_delaywork_handle, head of the loop: leave when the ring is empty or  *)
(* the checksum is wrong; otherwise note the slot and wake the waiter.      *)
WorkCheck ==
    LET e == a55Ring[a55Ci] IN
    /\ workPc = "check"
    /\ IF a55Pi # a55Ci /\ e.crc
         THEN /\ userAddr' = [userAddr EXCEPT ![e.index] = a55Ci]
              /\ Complete(e.index)
              /\ workPc' = "advance"
         ELSE workPc' = "idle" /\ UNCHANGED wakeVars
    /\ UNCHANGED <<softInt, irqPc, workPending, bufVars, m3Vars, a55Vars, m3Busy, procVars, expired, calls>>

(* Update ci. *)
WorkAdvance == /\ workPc = "advance"
               /\ a55Ci' = Succ(a55Ci)
               /\ replied' = Tail(replied)
               /\ workPc' = "check"
               /\ UNCHANGED <<a55Ring, a55Pi, softInt, irqPc, workPending, bufVars, wakeVars,
                              m3Vars, m3Busy, procVars, expired, calls>>

ProcStep(p) == \/ CopyIn(p) \/ Send(p) \/ SendRefused(p) \/ Woken(p) \/ RxTimeout(p)
               \/ CopyMsg(p) \/ CopyOut(p)

Next == \/ \E p \in Procs : GetBuffer(p) \/ ProcStep(p)
        \/ M3Boot \/ M3Take \/ M3Reply
        \/ IrqQueue \/ IrqClear \/ WorkStart \/ WorkCheck \/ WorkAdvance

Spec == Init /\ [][Next]_vars

(* Processes are scheduled and timers expire; nothing is assumed of the M3. *)
FairSpec == Spec /\ \A p \in Procs : WF_vars(ProcStep(p))

-----------------------------------------------------------------------------
Entries == [index : Slots, tag : Tags, crc : BOOLEAN]

(* Every variable has the type the code gives it. *)
TypeOK == /\ bufStatus \in [Slots -> 0..1]
          /\ completion \in [Slots -> 0..MaxCalls]
          /\ userAddr \in [Slots -> Slots]
          /\ data \in [Slots -> [tag : Tags, resp : BOOLEAN]]
          /\ m3Ring \in [Slots -> Entries] /\ m3Pi \in Slots /\ m3Ci \in Slots
          /\ m3Init \in BOOLEAN
          /\ a55Ring \in [Slots -> Entries] /\ a55Pi \in Slots /\ a55Ci \in Slots
          /\ softInt \in BOOLEAN /\ irqPc \in {"idle", "clear"}
          /\ workPending \in BOOLEAN /\ workPc \in {"idle", "check", "advance"}
          /\ m3Busy \subseteq Entries
          /\ pc \in [Procs -> {"idle", "copyIn", "send", "wait", "copyMsg", "copyOut"}]
          /\ idx \in [Procs -> Slots] /\ tag \in [Procs -> Tags] /\ msg \in [Procs -> Tags]
          /\ tries \in [Procs -> 0..(MaxRetry - 1)]
          /\ sent \in Seq(Tags) /\ replied \in Seq(Tags)
          /\ expired \in BOOLEAN
          /\ calls \in Tags

(* A data buffer is marked taken exactly while one process works with it:   *)
(* no error path leaks a buffer or frees one twice.                         *)
BufferOwned ==
    \A i \in Slots :
        LET owners == {p \in Procs : pc[p] # "idle" /\ idx[p] = i}
        IN  Cardinality(owners) = bufStatus[i]

Pending(ring, pi, ci) == [k \in 1..((pi + Depth - ci) % Depth) |-> ring[(ci + k - 1) % Depth].tag]

(* What lies between ci and pi of a ring is what was put there and not yet  *)
(* taken, oldest first: nothing is overwritten, skipped or seen twice.      *)
RingsFifo == /\ Pending(m3Ring, m3Pi, m3Ci) = sent
             /\ Pending(a55Ring, a55Pi, a55Ci) = replied

(* As long as no wait has expired, a process that is about to hand a        *)
(* response to its caller has the response to its own request in its        *)
(* buffer, although indices are reused by other processes at once.          *)
DataIsMine == ~expired => \A p \in Procs : pc[p] = "copyOut" => data[idx[p]].tag = tag[p]

(* The comment at the copy: the reply, message and data, goes to the        *)
(* process it belongs to, whatever happened before.                         *)
ReplyIsMine == \A p \in Procs : pc[p] = "copyOut" => /\ msg[p] = tag[p]
                                                    /\ data[idx[p]].tag = tag[p]

(* The comment at complete(): a reply in the ring wakes its waiter; so      *)
(* something that will look at the ring must be under way.                  *)
ReplyAnnounced == a55Pi # a55Ci => softInt \/ workPending \/ workPc # "idle"

(* Every call returns, even if the M3 never answers or never reads its      *)
(* ring: retries are counted and the wait is bounded.                       *)
CallReturns == \A p \in Procs : pc[p] # "idle" ~> pc[p] = "idle"
=============================================================================
