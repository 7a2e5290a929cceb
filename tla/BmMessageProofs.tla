--------------------------- MODULE BmMessageProofs ---------------------------
(***************************************************************************)
(* Proofs about BmMessage for any number of cores, slots, words and calls. *)
(***************************************************************************)
EXTENDS BmMessage, TLAPS

USE ConstantsAssumption

(* What a context's location says about the call it makes. *)
CallInv ==
    \A x \in Ctx :
        /\ pc[x] \in {"copy", "abort", "notify", "sgi"} => call[x].id \in MsgIds
        /\ pc[x] = "copy" => pos[x] <= CopyLen(x)
        /\ pc[x] = "cas" => pos[x] = 0 /\ buf[x] = Zero

(* Context x is writing the body of slot m. *)
Writes(x, m) == pc[x] = "copy" /\ call[x].id = m /\ IsSend(x)

(* A slot nobody writes holds what the last send stored. *)
StoredInv == \A m \in MsgIds : (\A x \in Ctx : ~Writes(x, m)) => stored[m] = body[m]

(* The inductive invariant. *)
IInv == TypeOK /\ CallInv /\ SlotLock /\ StoredInv /\ NoTornReceive

LEMMA InitIInv == Init => IInv
<1> SUFFICES ASSUME Init PROVE IInv
  OBVIOUS
<1> USE DEF Init
<1>0. 0 \in MsgIds /\ Zero \in Bodies
  BY DEF MsgIds, Zero, Bodies
<1>1. NoCall \in Requests
  BY DEF NoCall, Requests
<1>2. TypeOK
  BY <1>0, <1>1 DEF TypeOK, Locations
<1>3. CallInv
  BY DEF CallInv
<1>4. SlotLock
  BY DEF SlotLock, Holds
<1>5. StoredInv
  BY DEF StoredInv
<1>6. NoTornReceive
  BY DEF NoTornReceive
<1> QED
  BY <1>2, <1>3, <1>4, <1>5, <1>6 DEF IInv

-----------------------------------------------------------------------------
(* A step is a call that begins, a change of the IPI enable, an interrupt   *)
(* taken, one step of one context's call, or a stutter.                     *)
LEMMA StepCases ==
    ASSUME [Next]_vars
    PROVE  \/ \E c \in Cores, r \in Calls : Enter(c, r)
           \/ \E c \in Cores : BmSetIrq(c) \/ DoIrq(c)
           \/ \E x \in Ctx : Step(x)
           \/ UNCHANGED vars
BY DEF Next, Begin, BmSendMsg, BmSendMsgWithIpi, BmRecvMsg, Done

LEMMA Constants ==
    /\ 0 \in MsgIds
    /\ Zero \in Bodies
    /\ Calls \subseteq Requests
    /\ \A m \in MsgIds : Request("recv", m, 0, BodyLen, 0) \in Requests
    /\ \A c \in Cores : <<c, "main">> \in Ctx /\ <<c, "irq">> \in Ctx
    /\ \A x \in Ctx : Core(x) \in Cores
BY DEF MsgIds, Zero, Bodies, Requests, Request, Ctx, Core

LEMMA TypeStep == TypeOK /\ CallInv /\ [Next]_vars => TypeOK'
<1> SUFFICES ASSUME TypeOK, CallInv, [Next]_vars PROVE TypeOK'
  OBVIOUS
<1> USE Constants
<1> USE DEF TypeOK, Locations, memVars, irqVars
<1>1. ASSUME NEW c \in Cores, NEW r \in Calls, Enter(c, r) PROVE TypeOK'
  <2> DEFINE x == <<c, "main">>
  <2>1. x \in Ctx /\ r \in Requests /\ Zero \in Bodies
    OBVIOUS
  <2>2. calls' \in [Cores -> 0..MaxCalls]
    BY <1>1 DEF Enter
  <2>3. call' \in [Ctx -> Requests] /\ buf' \in [Ctx -> Bodies]
    BY <1>1, <2>1 DEF Enter
  <2>4. pos' \in [Ctx -> 0..BodyLen] /\ pc' \in [Ctx -> Locations]
    BY <1>1, <2>1 DEF Enter, Goto
  <2> QED
    BY <1>1, <2>2, <2>3, <2>4 DEF Enter
<1>2. ASSUME NEW c \in Cores, BmSetIrq(c) PROVE TypeOK'
  BY <1>2 DEF BmSetIrq
<1>3. ASSUME NEW c \in Cores, DoIrq(c) PROVE TypeOK'
  BY <1>3 DEF DoIrq, Acknowledge, Goto
<1>4. ASSUME NEW x \in Ctx, CmpXchg(x) PROVE TypeOK'
  BY <1>4 DEF CmpXchg, MayTake, Refuse, Goto, Return
<1>5. ASSUME NEW x \in Ctx, CopyWord(x) PROVE TypeOK'
  <2> DEFINE m == call[x].id
             i == pos[x] + 1
  <2>1. m \in MsgIds /\ call[x].word \in Words \cup {0}
    BY <1>5 DEF CopyWord, At, CallInv, Requests
  <2>2. i \in 1..BodyLen
    BY <1>5 DEF CopyWord, CopyLen, Requests
  <2>a. [body[m] EXCEPT ![i] = call[x].word] \in Bodies
    BY <2>1, <2>2 DEF Bodies
  <2>b. [buf[x] EXCEPT ![i] = body[m][i]] \in Bodies
    BY <2>1, <2>2 DEF Bodies
  <2>3. body' \in [MsgIds -> Bodies]
    BY <1>5, <2>1, <2>a DEF CopyWord
  <2>4. buf' \in [Ctx -> Bodies]
    BY <1>5, <2>1, <2>b DEF CopyWord
  <2>5. pos' \in [Ctx -> 0..BodyLen]
    BY <1>5, <2>2 DEF CopyWord
  <2> QED
    BY <1>5, <2>3, <2>4, <2>5 DEF CopyWord
<1>6. ASSUME NEW x \in Ctx, Release(x) PROVE TypeOK'
  <2>1. call[x].id \in MsgIds /\ call[x].cpu \in 0..NumCores
    BY <1>6 DEF Release, At, CallInv, Requests
  <2>2. posted' \subseteq MsgIds \X (0..NumCores)
    BY <1>6, <2>1 DEF Release
  <2> QED
    BY <1>6, <2>1, <2>2 DEF Release, Goto, Return
<1>7. ASSUME NEW x \in Ctx, Abort(x) PROVE TypeOK'
  BY <1>7 DEF Abort, Goto, Return
<1>8. ASSUME NEW x \in Ctx, SetTrigger(x) PROVE TypeOK'
  BY <1>8 DEF SetTrigger, At, CallInv, Goto, Return
<1>9. ASSUME NEW x \in Ctx, BmHwiTrigger(x) PROVE TypeOK'
  BY <1>9 DEF BmHwiTrigger, Goto, Return
<1>10. ASSUME NEW x \in Ctx, BmRecvMsgWithIpi(x) PROVE TypeOK'
  <2> DEFINE r == Request("recv", trigger[Core(x)], 0, BodyLen, 0)
  <2>1. r \in Requests /\ Zero \in Bodies
    OBVIOUS
  <2>2. call' = [call EXCEPT ![x] = r]
    BY <1>10 DEF BmRecvMsgWithIpi
  <2> HIDE DEF r
  <2>3. call' \in [Ctx -> Requests]
    BY <2>1, <2>2
  <2>4. buf' \in [Ctx -> Bodies] /\ pos' \in [Ctx -> 0..BodyLen] /\ pc' \in [Ctx -> Locations]
    BY <1>10, <2>1 DEF BmRecvMsgWithIpi, Goto
  <2> QED
    BY <1>10, <2>3, <2>4 DEF BmRecvMsgWithIpi
<1>11. ASSUME UNCHANGED vars PROVE TypeOK'
  BY <1>11 DEF vars
<1> QED
  BY StepCases, <1>1, <1>2, <1>3, <1>4, <1>5, <1>6, <1>7, <1>8, <1>9, <1>10, <1>11 DEF Step

LEMMA CallStep == TypeOK /\ CallInv /\ [Next]_vars => CallInv'
<1> SUFFICES ASSUME TypeOK, CallInv, [Next]_vars PROVE CallInv'
  OBVIOUS
<1> USE Constants
<1> USE DEF TypeOK, Locations, memVars, irqVars, CallInv
<1>1. ASSUME NEW c \in Cores, NEW r \in Calls, Enter(c, r) PROVE CallInv'
  BY <1>1 DEF Enter, Goto, At, CopyLen
<1>2. ASSUME NEW c \in Cores, BmSetIrq(c) PROVE CallInv'
  BY <1>2 DEF BmSetIrq, CopyLen
<1>3. ASSUME NEW c \in Cores, DoIrq(c) PROVE CallInv'
  BY <1>3 DEF DoIrq, Acknowledge, Goto, CopyLen
<1>4. ASSUME NEW x \in Ctx, CmpXchg(x) PROVE CallInv'
  <2>1. CopyLen(x) \in Nat /\ CopyLen(x)' = CopyLen(x)
    BY <1>4 DEF CmpXchg, MayTake, Refuse, CopyLen, Requests
  <2> QED
    BY <1>4, <2>1 DEF CmpXchg, MayTake, Refuse, Goto, Return, At, CopyLen
<1>5. ASSUME NEW x \in Ctx, CopyWord(x) PROVE CallInv'
  BY <1>5 DEF CopyWord, At, CopyLen
<1>6. ASSUME NEW x \in Ctx, Release(x) PROVE CallInv'
  BY <1>6 DEF Release, At, Goto, Return, CopyLen
<1>7. ASSUME NEW x \in Ctx, Abort(x) PROVE CallInv'
  BY <1>7 DEF Abort, At, Goto, Return, CopyLen
<1>8. ASSUME NEW x \in Ctx, SetTrigger(x) PROVE CallInv'
  BY <1>8 DEF SetTrigger, At, Goto, Return, CopyLen
<1>9. ASSUME NEW x \in Ctx, BmHwiTrigger(x) PROVE CallInv'
  BY <1>9 DEF BmHwiTrigger, At, Goto, Return, CopyLen
<1>10. ASSUME NEW x \in Ctx, BmRecvMsgWithIpi(x) PROVE CallInv'
  BY <1>10 DEF BmRecvMsgWithIpi, At, Goto, CopyLen
<1>11. ASSUME UNCHANGED vars PROVE CallInv'
  BY <1>11 DEF vars, CopyLen
<1> QED
  BY StepCases, <1>1, <1>2, <1>3, <1>4, <1>5, <1>6, <1>7, <1>8, <1>9, <1>10, <1>11 DEF Step

(* The slot lock survives a step that changes neither the status words nor  *)
(* who holds a slot.                                                        *)
LEMMA LockFrame ==
    ASSUME SlotLock, status' = status,
           \A y \in Ctx, m \in MsgIds : Holds(y, m)' <=> Holds(y, m)
    PROVE  SlotLock'
BY DEF SlotLock

LEMMA LockStep == TypeOK /\ CallInv /\ SlotLock /\ [Next]_vars => SlotLock'
<1> SUFFICES ASSUME TypeOK, CallInv, SlotLock, [Next]_vars PROVE SlotLock'
  OBVIOUS
<1> USE Constants
<1> USE DEF TypeOK, memVars, irqVars
<1>1. ASSUME NEW c \in Cores, NEW r \in Calls, Enter(c, r) PROVE SlotLock'
  BY <1>1, LockFrame DEF Enter, Goto, At, Holds
<1>2. ASSUME NEW c \in Cores, BmSetIrq(c) PROVE SlotLock'
  BY <1>2, LockFrame DEF BmSetIrq, Holds
<1>3. ASSUME NEW c \in Cores, DoIrq(c) PROVE SlotLock'
  BY <1>3, LockFrame DEF DoIrq, Acknowledge, Goto, Holds
<1>4. ASSUME NEW x \in Ctx, CmpXchg(x) PROVE SlotLock'
  <2> DEFINE k == call[x].id
  <2>1. CASE k \in MsgIds /\ status[k] = "FREE"
    <3>1. \A y \in Ctx : ~Holds(y, k)
      BY <2>1 DEF SlotLock
    <3>2. \A y \in Ctx, m \in MsgIds :
             Holds(y, m)' <=> (Holds(y, m) \/ (y = x /\ m = k))
      BY <1>4, <2>1 DEF CmpXchg, MayTake, Refuse, At, Goto, Holds
    <3>3. status' = [status EXCEPT ![k] = "USING"]
      BY <1>4, <2>1 DEF CmpXchg, MayTake, Refuse
    <3> QED
      BY <2>1, <3>1, <3>2, <3>3 DEF SlotLock
  <2>2. CASE ~(k \in MsgIds /\ status[k] = "FREE")
    BY <1>4, <2>2, LockFrame DEF CmpXchg, MayTake, Refuse, At, Goto, Return, Holds
  <2> QED
    BY <2>1, <2>2
<1>5. ASSUME NEW x \in Ctx, CopyWord(x) PROVE SlotLock'
  BY <1>5, LockFrame DEF CopyWord, Holds
<1>6. ASSUME NEW x \in Ctx, Release(x) \/ Abort(x) PROVE SlotLock'
  <2> DEFINE k == call[x].id
  <2>1. k \in MsgIds /\ Holds(x, k)
    BY <1>6 DEF Release, Abort, At, CallInv, Holds
  <2>2. \A y \in Ctx, m \in MsgIds : Holds(y, m)' <=> (Holds(y, m) /\ y # x)
    BY <1>6 DEF Release, Abort, At, Goto, Return, Holds
  <2>3. status' = [status EXCEPT ![k] = "FREE"]
    BY <1>6 DEF Release, Abort
  <2>4. \A m \in MsgIds : m # k => ~Holds(x, m)
    BY DEF Holds
  <2> QED
    BY <2>1, <2>2, <2>3, <2>4 DEF SlotLock
<1>7. ASSUME NEW x \in Ctx, SetTrigger(x) PROVE SlotLock'
  BY <1>7, LockFrame DEF SetTrigger, At, Goto, Return, Holds
<1>8. ASSUME NEW x \in Ctx, BmHwiTrigger(x) PROVE SlotLock'
  BY <1>8, LockFrame DEF BmHwiTrigger, At, Goto, Return, Holds
<1>9. ASSUME NEW x \in Ctx, BmRecvMsgWithIpi(x) PROVE SlotLock'
  BY <1>9, LockFrame DEF BmRecvMsgWithIpi, At, Goto, Holds
<1>10. ASSUME UNCHANGED vars PROVE SlotLock'
  BY <1>10, LockFrame DEF vars, Holds
<1> QED
  BY StepCases, <1>1, <1>2, <1>3, <1>4, <1>5, <1>6, <1>7, <1>8, <1>9, <1>10 DEF Step

(* Only Release by a sender changes stored, only CopyWord by a sender       *)
(* changes body, and both work on a slot the sender holds.                  *)
LEMMA StoredStep ==
    TypeOK /\ CallInv /\ SlotLock /\ StoredInv /\ [Next]_vars => StoredInv'
<1> SUFFICES ASSUME TypeOK, CallInv, SlotLock, StoredInv, [Next]_vars PROVE StoredInv'
  OBVIOUS
<1> USE Constants
<1> USE DEF TypeOK, memVars, irqVars, StoredInv
<1>1. ASSUME NEW c \in Cores, NEW r \in Calls, Enter(c, r) PROVE StoredInv'
  BY <1>1 DEF Enter, Goto, At, Writes, IsSend
<1>2. ASSUME NEW c \in Cores, BmSetIrq(c) PROVE StoredInv'
  BY <1>2 DEF BmSetIrq, Writes, IsSend
<1>3. ASSUME NEW c \in Cores, DoIrq(c) PROVE StoredInv'
  BY <1>3 DEF DoIrq, Acknowledge, Goto, Writes, IsSend
<1>4. ASSUME NEW x \in Ctx, CmpXchg(x) PROVE StoredInv'
  BY <1>4 DEF CmpXchg, MayTake, Refuse, At, Goto, Return, Writes, IsSend
<1>5. ASSUME NEW x \in Ctx, CopyWord(x) PROVE StoredInv'
  BY <1>5 DEF CopyWord, At, Writes, IsSend
<1>6. ASSUME NEW x \in Ctx, Release(x) PROVE StoredInv'
  <2> DEFINE k == call[x].id
  <2>1. \A y \in Ctx, m \in MsgIds : Writes(y, m)' <=> (Writes(y, m) /\ y # x)
    BY <1>6 DEF Release, At, Goto, Return, Writes, IsSend
  <2>2. ASSUME NEW m \in MsgIds, \A y \in Ctx : ~Writes(y, m)'
        PROVE  stored'[m] = body'[m]
    <3>1. CASE Writes(x, m)
      BY <1>6, <3>1 DEF Release, Writes
    <3>2. CASE ~Writes(x, m)
      <4>1. \A y \in Ctx : ~Writes(y, m)
        BY <2>1, <2>2, <3>2
      <4>2. m # k \/ ~IsSend(x)
        BY <1>6, <3>2 DEF Release, At, Writes
      <4> QED
        BY <1>6, <4>1, <4>2 DEF Release
    <3> QED
      BY <3>1, <3>2
  <2> QED
    BY <2>2
<1>7. ASSUME NEW x \in Ctx, Abort(x) PROVE StoredInv'
  BY <1>7 DEF Abort, At, Goto, Return, Writes, IsSend
<1>8. ASSUME NEW x \in Ctx, SetTrigger(x) PROVE StoredInv'
  BY <1>8 DEF SetTrigger, At, Goto, Return, Writes, IsSend
<1>9. ASSUME NEW x \in Ctx, BmHwiTrigger(x) PROVE StoredInv'
  BY <1>9 DEF BmHwiTrigger, At, Goto, Return, Writes, IsSend
<1>10. ASSUME NEW x \in Ctx, BmRecvMsgWithIpi(x) PROVE StoredInv'
  BY <1>10 DEF BmRecvMsgWithIpi, At, Goto, Writes, IsSend
<1>11. ASSUME UNCHANGED vars PROVE StoredInv'
  BY <1>11 DEF vars, Writes, IsSend
<1> QED
  BY StepCases, <1>1, <1>2, <1>3, <1>4, <1>5, <1>6, <1>7, <1>8, <1>9, <1>10, <1>11 DEF Step

(* Context y is copying out of a slot. *)
Reads(y) == pc[y] = "copy" /\ ~IsSend(y)

(* A receive in progress is undisturbed by a step that moves neither it nor *)
(* what its slot stores.                                                    *)
LEMMA ReceiveFrame ==
    ASSUME NoTornReceive,
           \A y \in Ctx : Reads(y)' => /\ Reads(y) /\ buf'[y] = buf[y] /\ pos'[y] = pos[y]
                                       /\ stored'[call'[y].id] = stored[call[y].id]
    PROVE  NoTornReceive'
BY DEF NoTornReceive, Reads

LEMMA TornStep == IInv /\ [Next]_vars => NoTornReceive'
<1> SUFFICES ASSUME IInv, [Next]_vars PROVE NoTornReceive'
  OBVIOUS
<1> USE Constants
<1> USE DEF IInv, TypeOK, memVars, irqVars
<1>1. ASSUME NEW c \in Cores, NEW r \in Calls, Enter(c, r) PROVE NoTornReceive'
  BY <1>1, ReceiveFrame DEF Enter, Goto, At, Reads, IsSend
<1>2. ASSUME NEW c \in Cores, BmSetIrq(c) PROVE NoTornReceive'
  BY <1>2, ReceiveFrame DEF BmSetIrq, Reads, IsSend
<1>3. ASSUME NEW c \in Cores, DoIrq(c) PROVE NoTornReceive'
  BY <1>3, ReceiveFrame DEF DoIrq, Acknowledge, Goto, Reads, IsSend
<1>4. ASSUME NEW x \in Ctx, CmpXchg(x) PROVE NoTornReceive'
  <2>1. pos[x] = 0 /\ buf[x] = Zero
    BY <1>4 DEF CmpXchg, MayTake, Refuse, At, CallInv
  <2>2. \A y \in Ctx : y # x /\ Reads(y)' => Reads(y)
    BY <1>4 DEF CmpXchg, MayTake, Refuse, Goto, Return, Reads, IsSend
  <2>3. UNCHANGED <<buf, pos, stored, call>>
    BY <1>4 DEF CmpXchg, MayTake, Refuse
  <2>4. \A j \in 1..BodyLen : buf[x][j] = 0 /\ ~(j <= pos[x])
    BY <2>1 DEF Zero
  <2>5. ASSUME NEW y \in Ctx, Reads(y)', NEW j \in 1..BodyLen
        PROVE  buf'[y][j] = IF j <= pos'[y] THEN stored'[call'[y].id][j] ELSE 0
    BY <2>2, <2>3, <2>4, <2>5 DEF NoTornReceive, Reads
  <2> QED
    BY <2>5 DEF NoTornReceive, Reads, IsSend
<1>5. ASSUME NEW x \in Ctx, CopyWord(x) PROVE NoTornReceive'
  <2> DEFINE k == call[x].id
             i == pos[x] + 1
  <2>1. CASE IsSend(x)
    BY <1>5, <2>1, ReceiveFrame DEF CopyWord, Reads, IsSend
  <2>2. CASE ~IsSend(x)
    <3>1. k \in MsgIds /\ Holds(x, k)
      BY <1>5 DEF CopyWord, At, CallInv, Holds
    <3>2. \A y \in Ctx : ~Writes(y, k)
      BY <2>2, <3>1 DEF SlotLock, Holds, Writes
    <3>3. stored[k] = body[k]
      BY <3>1, <3>2 DEF StoredInv
    <3>4. i \in 1..BodyLen
      BY <1>5 DEF CopyWord, CopyLen, Requests
    <3>5. /\ pos' = [pos EXCEPT ![x] = i]
          /\ buf' = [buf EXCEPT ![x] = [buf[x] EXCEPT ![i] = stored[k][i]]]
          /\ UNCHANGED <<pc, call, stored>>
      BY <1>5, <2>2, <3>3 DEF CopyWord
    <3>6. ASSUME NEW y \in Ctx, Reads(y)'
          PROVE  \A j \in 1..BodyLen :
                    buf'[y][j] = IF j <= pos'[y] THEN stored'[call'[y].id][j] ELSE 0
      <4>1. Reads(y)
        BY <3>5, <3>6 DEF Reads, IsSend
      <4>2. CASE y # x
        BY <3>5, <4>1, <4>2 DEF NoTornReceive, Reads
      <4>3. CASE y = x
        <5>1. \A j \in 1..BodyLen : buf[x][j] = IF j <= pos[x] THEN stored[k][j] ELSE 0
          BY <4>1, <4>3 DEF NoTornReceive, Reads
        <5>2. buf'[x] = [buf[x] EXCEPT ![i] = stored[k][i]] /\ pos'[x] = i
          BY <3>5
        <5>3. \A j \in 1..BodyLen : buf'[x][j] = IF j = i THEN stored[k][i] ELSE buf[x][j]
          BY <3>4, <5>2 DEF Bodies
        <5>4. \A j \in 1..BodyLen : j <= i <=> (j <= pos[x] \/ j = i)
          OBVIOUS
        <5> QED
          BY <3>5, <4>3, <5>1, <5>2, <5>3, <5>4
      <4> QED
        BY <4>2, <4>3
    <3> QED
      BY <3>6 DEF NoTornReceive, Reads, IsSend
  <2> QED
    BY <2>1, <2>2
<1>6. ASSUME NEW x \in Ctx, Release(x) PROVE NoTornReceive'
  <2> DEFINE k == call[x].id
  <2>1. k \in MsgIds /\ Holds(x, k)
    BY <1>6 DEF Release, At, CallInv, Holds
  <2>2. ASSUME NEW y \in Ctx, Reads(y)'
        PROVE  /\ Reads(y) /\ buf'[y] = buf[y] /\ pos'[y] = pos[y]
               /\ stored'[call'[y].id] = stored[call[y].id]
    <3>1. y # x /\ Reads(y)
      BY <1>6, <2>2 DEF Release, At, Goto, Return, Reads, IsSend
    <3>2. call[y].id # k
      BY <2>1, <3>1 DEF SlotLock, Holds, Reads
    <3> QED
      BY <1>6, <3>1, <3>2 DEF Release
  <2> QED
    BY <2>2, ReceiveFrame
<1>7. ASSUME NEW x \in Ctx, Abort(x) PROVE NoTornReceive'
  BY <1>7, ReceiveFrame DEF Abort, At, Goto, Return, Reads, IsSend
<1>8. ASSUME NEW x \in Ctx, SetTrigger(x) PROVE NoTornReceive'
  BY <1>8, ReceiveFrame DEF SetTrigger, At, Goto, Return, Reads, IsSend
<1>9. ASSUME NEW x \in Ctx, BmHwiTrigger(x) PROVE NoTornReceive'
  BY <1>9, ReceiveFrame DEF BmHwiTrigger, At, Goto, Return, Reads, IsSend
<1>10. ASSUME NEW x \in Ctx, BmRecvMsgWithIpi(x) PROVE NoTornReceive'
  BY <1>10, ReceiveFrame DEF BmRecvMsgWithIpi, At, Goto, Reads, IsSend
<1>11. ASSUME UNCHANGED vars PROVE NoTornReceive'
  BY <1>11, ReceiveFrame DEF vars, Reads, IsSend
<1> QED
  BY StepCases, <1>1, <1>2, <1>3, <1>4, <1>5, <1>6, <1>7, <1>8, <1>9, <1>10, <1>11 DEF Step

-----------------------------------------------------------------------------
(* The inductive invariant holds in every reachable state. *)
THEOREM Invariance == Spec => []IInv
<1>1. Init => IInv
  BY InitIInv
<1>2. IInv /\ [Next]_vars => IInv'
  BY TypeStep, CallStep, LockStep, StoredStep, TornStep DEF IInv
<1> QED
  BY <1>1, <1>2, PTL DEF Spec

(* Every variable of the message layer keeps its type. *)
THEOREM TypeCorrect == Spec => []TypeOK
<1>1. IInv => TypeOK
  BY DEF IInv
<1> QED
  BY Invariance, <1>1, PTL

(* The status word taken with a compare-and-swap is a mutual-exclusion      *)
(* lock: at most one context works on a slot and a slot is USING exactly    *)
(* while one does, for any number of cores and slots.                       *)
THEOREM SlotMutex == Spec => []SlotLock
<1>1. IInv => SlotLock
  BY DEF IInv
<1> QED
  BY Invariance, <1>1, PTL

(* bm_recv_msg never returns words of two different sends, for messages of  *)
(* any length and any interleaving of cores and interrupt handlers.         *)
THEOREM ReceivesWhole == Spec => []NoTornReceive
<1>1. IInv => NoTornReceive
  BY DEF IInv
<1> QED
  BY Invariance, <1>1, PTL

-----------------------------------------------------------------------------
(* The rest of what a call's location says about its arguments: lengths are *)
(* checked before a send copies, a notified send has a known receiver when  *)
(* it raises the interrupt.                                                 *)
ArgInv ==
    \A x \in Ctx :
        /\ InCall(x) => call[x].op # "none"
        /\ pc[x] = "copy" /\ IsSend(x) => call[x].len <= BodyLen
        /\ pc[x] = "abort" => IsSend(x)
        /\ pc[x] \in {"notify", "sgi"} => call[x].op = "sendIpi"
        /\ pc[x] = "sgi" => call[x].cpu \in Cores

(* The body a send is copying into: its word so far, the previous message   *)
(* beyond.                                                                  *)
WriteInv ==
    \A x \in Ctx : pc[x] = "copy" /\ IsSend(x) =>
        \A i \in 1..BodyLen :
            body[call[x].id][i] = IF i <= pos[x] THEN call[x].word ELSE stored[call[x].id][i]

(* A notification, from the check of recv_cpu to the pending interrupt, is  *)
(* about a message that was stored to be announced to that core.            *)
NotifyInv ==
    /\ \A x \in Ctx : pc[x] \in {"notify", "sgi"} => <<call[x].id, call[x].cpu>> \in posted
    /\ \A x \in Ctx : pc[x] = "sgi" => <<trigger[call[x].cpu], call[x].cpu>> \in posted
    /\ \A c \in Cores : ipiPending[c] => <<trigger[c], c>> \in posted

SendInv == ArgInv /\ WriteInv /\ NotifyInv

LEMMA InitSendInv == Init => SendInv
BY Constants DEF Init, SendInv, ArgInv, WriteInv, NotifyInv, InCall

LEMMA ArgStep == TypeOK /\ ArgInv /\ [Next]_vars => ArgInv'
<1> SUFFICES ASSUME TypeOK, ArgInv, [Next]_vars PROVE ArgInv'
  OBVIOUS
<1> USE Constants
<1> USE DEF TypeOK, Locations, memVars, irqVars, ArgInv, InCall, IsSend
<1>1. ASSUME NEW c \in Cores, NEW r \in Calls, Enter(c, r) PROVE ArgInv'
  BY <1>1 DEF Enter, Goto, At
<1>2. ASSUME NEW c \in Cores, BmSetIrq(c) PROVE ArgInv'
  BY <1>2 DEF BmSetIrq
<1>3. ASSUME NEW c \in Cores, DoIrq(c) PROVE ArgInv'
  BY <1>3 DEF DoIrq, Acknowledge, Goto
<1>4. ASSUME NEW x \in Ctx, CmpXchg(x) PROVE ArgInv'
  <2>1. call[x].len \in Nat
    BY DEF Requests
  <2> QED
    BY <1>4, <2>1 DEF CmpXchg, MayTake, Refuse, Goto, Return, At
<1>5. ASSUME NEW x \in Ctx, CopyWord(x) PROVE ArgInv'
  BY <1>5 DEF CopyWord, At
<1>6. ASSUME NEW x \in Ctx, Release(x) PROVE ArgInv'
  BY <1>6 DEF Release, At, Goto, Return
<1>7. ASSUME NEW x \in Ctx, Abort(x) PROVE ArgInv'
  BY <1>7 DEF Abort, At, Goto, Return
<1>8. ASSUME NEW x \in Ctx, SetTrigger(x) PROVE ArgInv'
  BY <1>8 DEF SetTrigger, At, Goto, Return
<1>9. ASSUME NEW x \in Ctx, BmHwiTrigger(x) PROVE ArgInv'
  BY <1>9 DEF BmHwiTrigger, At, Goto, Return
<1>10. ASSUME NEW x \in Ctx, BmRecvMsgWithIpi(x) PROVE ArgInv'
  <2>1. call'[x].op = "recv" /\ pc'[x] = "cas"
    BY <1>10 DEF BmRecvMsgWithIpi, Goto, Request
  <2>2. \A y \in Ctx : y # x => call'[y] = call[y] /\ pc'[y] = pc[y]
    BY <1>10 DEF BmRecvMsgWithIpi, Goto
  <2> QED
    BY <2>1, <2>2
<1>11. ASSUME UNCHANGED vars PROVE ArgInv'
  BY <1>11 DEF vars
<1> QED
  BY StepCases, <1>1, <1>2, <1>3, <1>4, <1>5, <1>6, <1>7, <1>8, <1>9, <1>10, <1>11 DEF Step

(* A send in progress is undisturbed by a step that moves neither it nor    *)
(* its slot.                                                                *)
LEMMA WriteFrame ==
    ASSUME WriteInv,
           \A y \in Ctx : (pc[y] = "copy" /\ IsSend(y))' =>
               /\ pc[y] = "copy" /\ IsSend(y) /\ call'[y] = call[y] /\ pos'[y] = pos[y]
               /\ stored'[call[y].id] = stored[call[y].id]
               /\ body'[call[y].id] = body[call[y].id]
    PROVE  WriteInv'
BY DEF WriteInv

LEMMA WriteStep == IInv /\ WriteInv /\ [Next]_vars => WriteInv'
<1> SUFFICES ASSUME IInv, WriteInv, [Next]_vars PROVE WriteInv'
  OBVIOUS
<1> USE Constants
<1> USE DEF IInv, TypeOK, memVars, irqVars
<1>1. ASSUME NEW c \in Cores, NEW r \in Calls, Enter(c, r) PROVE WriteInv'
  BY <1>1, WriteFrame DEF Enter, Goto, At, IsSend
<1>2. ASSUME NEW c \in Cores, BmSetIrq(c) PROVE WriteInv'
  BY <1>2, WriteFrame DEF BmSetIrq, IsSend
<1>3. ASSUME NEW c \in Cores, DoIrq(c) PROVE WriteInv'
  BY <1>3, WriteFrame DEF DoIrq, Acknowledge, Goto, IsSend
<1>4. ASSUME NEW x \in Ctx, CmpXchg(x) PROVE WriteInv'
  <2> DEFINE k == call[x].id
  <2>1. UNCHANGED <<body, stored, call, pos>> /\ pos[x] = 0
    BY <1>4 DEF CmpXchg, At, CallInv
  <2>2. \A y \in Ctx : y # x => pc'[y] = pc[y]
    BY <1>4 DEF CmpXchg, Refuse, Return, Goto
  <2>3. ASSUME pc'[x] = "copy" PROVE k \in MsgIds /\ status[k] = "FREE"
    BY <1>4, <2>3 DEF CmpXchg, MayTake, Refuse, Return, Goto
  <2>4. ASSUME pc'[x] = "copy" PROVE stored[k] = body[k]
    <3>1. k \in MsgIds /\ \A y \in Ctx : ~Holds(y, k)
      BY <2>3, <2>4 DEF SlotLock
    <3>2. \A y \in Ctx : ~Writes(y, k)
      BY <3>1 DEF Holds, Writes
    <3> QED
      BY <3>1, <3>2 DEF StoredInv
  <2>5. \A i \in 1..BodyLen : ~(i <= pos[x])
    BY <2>1
  <2>6. ASSUME NEW y \in Ctx, (pc[y] = "copy" /\ IsSend(y))', NEW i \in 1..BodyLen
        PROVE  body'[call'[y].id][i] =
                 IF i <= pos'[y] THEN call'[y].word ELSE stored'[call'[y].id][i]
    BY <2>1, <2>2, <2>4, <2>5, <2>6 DEF WriteInv, IsSend
  <2> QED
    BY <2>6 DEF WriteInv
<1>5. ASSUME NEW x \in Ctx, CopyWord(x) PROVE WriteInv'
  <2> DEFINE k == call[x].id
             i == pos[x] + 1
  <2>1. k \in MsgIds /\ Holds(x, k) /\ pc[x] = "copy"
    BY <1>5 DEF CopyWord, At, CallInv, Holds
  <2>2. i \in 1..BodyLen
    BY <1>5 DEF CopyWord, CopyLen, Requests
  <2>3. UNCHANGED <<pc, call, stored>> /\ pos' = [pos EXCEPT ![x] = i]
    BY <1>5 DEF CopyWord
  <2>4. \A y \in Ctx : y # x /\ pc[y] = "copy" => call[y].id # k
    BY <2>1 DEF SlotLock, Holds
  <2>5. CASE ~IsSend(x)
    <3>1. body' = body
      BY <1>5, <2>5 DEF CopyWord
    <3> QED
      BY <2>3, <2>5, <3>1, WriteFrame DEF IsSend
  <2>6. CASE IsSend(x)
    <3>1. body' = [body EXCEPT ![k] = [body[k] EXCEPT ![i] = call[x].word]]
      BY <1>5, <2>6 DEF CopyWord
    <3>2. ASSUME NEW y \in Ctx, (pc[y] = "copy" /\ IsSend(y))'
          PROVE  \A j \in 1..BodyLen : body'[call'[y].id][j] =
                   IF j <= pos'[y] THEN call'[y].word ELSE stored'[call'[y].id][j]
      <4>1. pc[y] = "copy" /\ IsSend(y)
        BY <2>3, <3>2 DEF IsSend
      <4>2. CASE y # x
        <5>1. body'[call[y].id] = body[call[y].id] /\ pos'[y] = pos[y]
          BY <2>3, <2>4, <3>1, <4>1, <4>2 DEF CallInv
        <5> QED
          BY <2>3, <4>1, <5>1 DEF WriteInv
      <4>3. CASE y = x
        <5>1. \A j \in 1..BodyLen :
                 body[k][j] = IF j <= pos[x] THEN call[x].word ELSE stored[k][j]
          BY <2>1, <2>6 DEF WriteInv
        <5>2. body'[k] = [body[k] EXCEPT ![i] = call[x].word] /\ pos'[x] = i
          BY <2>1, <2>3, <3>1
        <5>3. \A j \in 1..BodyLen :
                 body'[k][j] = IF j = i THEN call[x].word ELSE body[k][j]
          BY <2>1, <2>2, <5>2 DEF Bodies
        <5>4. \A j \in 1..BodyLen : j <= i <=> (j <= pos[x] \/ j = i)
          OBVIOUS
        <5> QED
          BY <2>3, <4>3, <5>1, <5>2, <5>3, <5>4
      <4> QED
        BY <4>2, <4>3
    <3> QED
      BY <3>2 DEF WriteInv
  <2> QED
    BY <2>5, <2>6
<1>6. ASSUME NEW x \in Ctx, Release(x) PROVE WriteInv'
  <2> DEFINE k == call[x].id
  <2>1. k \in MsgIds /\ Holds(x, k)
    BY <1>6 DEF Release, At, CallInv, Holds
  <2>2. ASSUME NEW y \in Ctx, (pc[y] = "copy" /\ IsSend(y))'
        PROVE  /\ pc[y] = "copy" /\ IsSend(y) /\ call'[y] = call[y] /\ pos'[y] = pos[y]
               /\ stored'[call[y].id] = stored[call[y].id]
               /\ body'[call[y].id] = body[call[y].id]
    <3>1. y # x /\ pc[y] = "copy" /\ IsSend(y) /\ UNCHANGED <<call, pos, body>>
      BY <1>6, <2>2 DEF Release, At, Goto, Return, IsSend
    <3>2. call[y].id # k
      BY <2>1, <3>1 DEF SlotLock, Holds
    <3> QED
      BY <1>6, <3>1, <3>2 DEF Release
  <2> QED
    BY <2>2, WriteFrame
<1>7. ASSUME NEW x \in Ctx, Abort(x) PROVE WriteInv'
  BY <1>7, WriteFrame DEF Abort, At, Goto, Return, IsSend
<1>8. ASSUME NEW x \in Ctx, SetTrigger(x) PROVE WriteInv'
  BY <1>8, WriteFrame DEF SetTrigger, At, Goto, Return, IsSend
<1>9. ASSUME NEW x \in Ctx, BmHwiTrigger(x) PROVE WriteInv'
  BY <1>9, WriteFrame DEF BmHwiTrigger, At, Goto, Return, IsSend
<1>10. ASSUME NEW x \in Ctx, BmRecvMsgWithIpi(x) PROVE WriteInv'
  BY <1>10, WriteFrame DEF BmRecvMsgWithIpi, At, Goto, IsSend
<1>11. ASSUME UNCHANGED vars PROVE WriteInv'
  BY <1>11, WriteFrame DEF vars, IsSend
<1> QED
  BY StepCases, <1>1, <1>2, <1>3, <1>4, <1>5, <1>6, <1>7, <1>8, <1>9, <1>10, <1>11 DEF Step

(* What a send stores: the first len words are its word, the others stay.   *)
LEMMA Stores ==
    ASSUME IInv, ArgInv, WriteInv, NEW x \in Ctx, Release(x), IsSend(x)
    PROVE  /\ call[x].id \in MsgIds /\ call[x].len \in 0..BodyLen
           /\ stored' = [stored EXCEPT ![call[x].id] =
                [i \in 1..BodyLen |-> IF i <= call[x].len THEN call[x].word
                                      ELSE stored[call[x].id][i]]]
<1> DEFINE k == call[x].id
           b == [i \in 1..BodyLen |-> IF i <= call[x].len THEN call[x].word ELSE stored[k][i]]
<1>1. pc[x] = "copy" /\ pos[x] = CopyLen(x)
  BY DEF Release, At, CopyDone
<1>2. k \in MsgIds
  BY <1>1 DEF IInv, CallInv
<1>3. call[x].len \in 0..BodyLen
  BY <1>1 DEF IInv, TypeOK, Requests, ArgInv, InCall
<1>4. pos[x] = call[x].len
  BY <1>1, <1>3 DEF CopyLen
<1>5. \A i \in 1..BodyLen : body[k][i] = IF i <= call[x].len THEN call[x].word ELSE stored[k][i]
  BY <1>1, <1>4 DEF WriteInv
<1>6. body[k] \in [1..BodyLen -> Words \cup {0}]
  BY <1>2 DEF IInv, TypeOK, Bodies
<1>7. body[k] = b
  BY <1>5, <1>6
<1>8. stored' = [stored EXCEPT ![k] = body[k]]
  BY DEF Release
<1> QED
  BY <1>2, <1>3, <1>7, <1>8

LEMMA NotifyStep == IInv /\ SendInv /\ [Next]_vars => NotifyInv'
<1> SUFFICES ASSUME IInv, SendInv, [Next]_vars PROVE NotifyInv'
  OBVIOUS
<1> USE Constants
<1> USE DEF IInv, TypeOK, Locations, memVars, irqVars, SendInv, NotifyInv
<1>1. ASSUME NEW c \in Cores, NEW r \in Calls, Enter(c, r) PROVE NotifyInv'
  BY <1>1 DEF Enter, Goto, At
<1>2. ASSUME NEW c \in Cores, BmSetIrq(c) PROVE NotifyInv'
  BY <1>2 DEF BmSetIrq
<1>3. ASSUME NEW c \in Cores, DoIrq(c) PROVE NotifyInv'
  BY <1>3 DEF DoIrq, Acknowledge, Goto
<1>4. ASSUME NEW x \in Ctx, CmpXchg(x) PROVE NotifyInv'
  BY <1>4 DEF CmpXchg, MayTake, Refuse, Goto, Return, At
<1>5. ASSUME NEW x \in Ctx, CopyWord(x) PROVE NotifyInv'
  BY <1>5 DEF CopyWord, At
<1>6. ASSUME NEW x \in Ctx, Release(x) PROVE NotifyInv'
  <2>1. posted \subseteq posted' /\ UNCHANGED <<trigger, ipiPending, call>>
    BY <1>6 DEF Release
  <2>2. \A y \in Ctx : y # x => pc'[y] = pc[y]
    BY <1>6 DEF Release, Goto, Return
  <2>3. pc'[x] # "sgi" /\ (pc'[x] = "notify" => <<call[x].id, call[x].cpu>> \in posted')
    BY <1>6 DEF Release, Goto, Return
  <2> QED
    BY <2>1, <2>2, <2>3
<1>7. ASSUME NEW x \in Ctx, Abort(x) PROVE NotifyInv'
  BY <1>7 DEF Abort, At, Goto, Return
<1>8. ASSUME NEW x \in Ctx, SetTrigger(x) PROVE NotifyInv'
  BY <1>8 DEF SetTrigger, At, Goto, Return, ArgInv
<1>9. ASSUME NEW x \in Ctx, BmHwiTrigger(x) PROVE NotifyInv'
  BY <1>9 DEF BmHwiTrigger, At, Goto, Return, ArgInv
<1>10. ASSUME NEW x \in Ctx, BmRecvMsgWithIpi(x) PROVE NotifyInv'
  BY <1>10 DEF BmRecvMsgWithIpi, At, Goto
<1>11. ASSUME UNCHANGED vars PROVE NotifyInv'
  BY <1>11 DEF vars
<1> QED
  BY StepCases, <1>1, <1>2, <1>3, <1>4, <1>5, <1>6, <1>7, <1>8, <1>9, <1>10, <1>11 DEF Step

(* What sends and notifications have stored holds in every reachable state. *)
THEOREM SendInvariance == Spec => []SendInv
<1>1. Init => SendInv
  BY InitSendInv
<1>2. IInv /\ SendInv /\ [Next]_vars => SendInv'
  BY ArgStep, WriteStep, NotifyStep DEF IInv, SendInv
<1> QED
  BY <1>1, <1>2, Invariance, PTL DEF Spec

(* A pending IPI always names a message that was completely stored by a     *)
(* notified send to this core: the trigger word is written after the        *)
(* message, for any number of senders that overwrite each other's trigger   *)
(* words.                                                                   *)
THEOREM IpiAfterMessage == Spec => []IpiAnnouncesStored
<1>1. SendInv => IpiAnnouncesStored
  BY DEF SendInv, NotifyInv, IpiAnnouncesStored
<1> QED
  BY SendInvariance, <1>1, PTL

-----------------------------------------------------------------------------
(* BmMessage implements MsgBox.  A step moves the mapped state of the one   *)
(* context that takes it.                                                   *)
LEMMA MapsOne ==
    ASSUME NEW x \in Ctx,
           \A y \in Ctx : y # x => /\ pc'[y] = pc[y] /\ call'[y] = call[y]
                                   /\ buf'[y] = buf[y] /\ ret'[y] = ret[y]
    PROVE  /\ BoxStage' = [BoxStage EXCEPT ![x] = BoxStage'[x]]
           /\ BoxResult' = [BoxResult EXCEPT ![x] = BoxResult'[x]]
<1>1. \A y \in Ctx : y # x => BoxStage'[y] = BoxStage[y]
  BY DEF BoxStage, InCall
<1>2. \A y \in Ctx : y # x => BoxResult'[y] = BoxResult[y]
  BY DEF BoxResult, InCall
<1>3. BoxStage' = [y \in Ctx |-> BoxStage'[y]] /\ BoxStage = [y \in Ctx |-> BoxStage[y]]
  BY DEF BoxStage
<1>4. BoxResult' = [y \in Ctx |-> BoxResult'[y]] /\ BoxResult = [y \in Ctx |-> BoxResult[y]]
  BY DEF BoxResult
<1>5. BoxStage' = [BoxStage EXCEPT ![x] = BoxStage'[x]]
  BY <1>1, <1>3
<1>6. BoxResult' = [BoxResult EXCEPT ![x] = BoxResult'[x]]
  BY <1>2, <1>4
<1> QED
  BY <1>5, <1>6

(* The mapped state of a context by its location. *)
MapAt(x) ==
    /\ pc[x] \in {"idle", "readTrigger"} =>
         /\ BoxStage[x] = "idle"
         /\ BoxResult[x] = [code |-> ret[x],
                            data |-> IF call[x].op = "recv" /\ ret[x] = "BM_OK"
                                     THEN buf[x] ELSE Zero]
    /\ pc[x] \in {"notify", "sgi"} => BoxStage[x] = "stored"
    /\ pc[x] \in {"cas", "copy", "abort"} => BoxStage[x] = "called"
    /\ pc[x] \in {"cas", "copy", "abort", "notify", "sgi"} =>
         BoxResult[x] = [code |-> "busy", data |-> Zero]

LEMMA MapValue == \A x \in Ctx : MapAt(x) /\ MapAt(x)'
<1>1. \A x \in Ctx : MapAt(x)
  BY DEF MapAt, BoxStage, BoxResult, InCall
<1>2. \A x \in Ctx : MapAt(x)'
  BY DEF MapAt, BoxStage, BoxResult, InCall
<1> QED
  BY <1>1, <1>2

(* A step that only moves x between locations of one stage is a stutter of  *)
(* the register.                                                            *)
LEMMA MapStutter ==
    ASSUME NEW x \in Ctx, BoxStage'[x] = BoxStage[x], BoxResult'[x] = BoxResult[x],
           \A y \in Ctx : y # x => /\ pc'[y] = pc[y] /\ call'[y] = call[y]
                                   /\ buf'[y] = buf[y] /\ ret'[y] = ret[y],
           UNCHANGED <<stored, call>>
    PROVE  UNCHANGED Box!vars
<1>1. /\ BoxStage' = [BoxStage EXCEPT ![x] = BoxStage[x]]
      /\ BoxResult' = [BoxResult EXCEPT ![x] = BoxResult[x]]
  BY MapsOne
<1>2. BoxStage = [y \in Ctx |-> BoxStage[y]] /\ BoxResult = [y \in Ctx |-> BoxResult[y]]
  BY DEF BoxStage, BoxResult
<1>3. BoxStage' = BoxStage /\ BoxResult' = BoxResult
  BY <1>1, <1>2
<1> QED
  BY <1>3 DEF Box!vars

(* The buffer of a receive that has copied all its words. *)
LEMMA ReceivesPrefix ==
    ASSUME IInv, NEW x \in Ctx, Release(x), ~IsSend(x)
    PROVE  /\ call[x].id \in MsgIds
           /\ buf[x] = Box!Prefix(stored[call[x].id], call[x].len)
<1> DEFINE k == call[x].id
<1>1. pc[x] = "copy" /\ pos[x] = CopyLen(x)
  BY DEF Release, At, CopyDone
<1>2. k \in MsgIds
  BY <1>1 DEF IInv, CallInv
<1>3. \A i \in 1..BodyLen : buf[x][i] = IF i <= pos[x] THEN stored[k][i] ELSE 0
  BY <1>1 DEF IInv, NoTornReceive
<1>4. call[x].len \in Nat
  BY DEF IInv, TypeOK, Requests
<1>5. \A i \in 1..BodyLen : i <= pos[x] <=> i <= call[x].len
  BY <1>1, <1>4 DEF CopyLen
<1>6. buf[x] \in [1..BodyLen -> Words \cup {0}]
  BY DEF IInv, TypeOK, Bodies
<1>7. buf[x] = [i \in 1..BodyLen |-> IF i <= call[x].len THEN stored[k][i] ELSE 0]
  BY <1>3, <1>5, <1>6
<1> QED
  BY <1>2, <1>7 DEF Box!Prefix

LEMMA InitBox == Init => Box!Init
<1> SUFFICES ASSUME Init PROVE Box!Init
  OBVIOUS
<1> USE DEF Init
<1>1. stored \in [MsgIds -> Box!Bodies]
  BY Constants DEF Box!Bodies, Bodies
<1>2. BoxStage = [x \in Ctx |-> "idle"]
  BY DEF BoxStage, InCall
<1>3. NoCall \in Requests
  BY DEF NoCall, Requests
<1>4. call \in [Ctx -> Requests]
  BY <1>3
<1>5. BoxResult = [x \in Ctx |-> Box!Ret("BM_OK", Box!NoData)]
  BY DEF BoxResult, InCall, NoCall, Box!Ret, Box!NoData, Zero
<1> QED
  BY <1>1, <1>2, <1>4, <1>5 DEF Box!Init

(* Every step of the implementation is a step of the register, or none. *)
LEMMA BoxStep == IInv /\ SendInv /\ [Next]_vars => [Box!Next]_(Box!vars)
<1> SUFFICES ASSUME IInv, SendInv, [Next]_vars PROVE Box!Next \/ UNCHANGED Box!vars
  OBVIOUS
<1> USE Constants
<1> USE DEF IInv, TypeOK, memVars, irqVars, SendInv
<1>z. Box!NoData = Zero
  BY DEF Box!NoData, Zero
<1>1. ASSUME NEW c \in Cores, NEW r \in Calls, Enter(c, r) PROVE Box!Next
  <2> DEFINE x == <<c, "main">>
  <2>0. x \in Ctx /\ r \in Requests
    OBVIOUS
  <2>1. /\ pc[x] = "idle" /\ pc'[x] = "cas"
        /\ call' = [call EXCEPT ![x] = r] /\ stored' = stored
    BY <1>1, <2>0 DEF Enter, At, Goto
  <2>2. \A y \in Ctx : y # x => /\ pc'[y] = pc[y] /\ call'[y] = call[y]
                                /\ buf'[y] = buf[y] /\ ret'[y] = ret[y]
    BY <1>1, <2>0 DEF Enter, Goto
  <2>3. BoxStage[x] = "idle" /\ BoxStage'[x] = "called"
        /\ BoxResult'[x] = Box!Ret("busy", Box!NoData)
    BY <1>z, <2>0, <2>1, MapValue DEF MapAt, Box!Ret
  <2> HIDE DEF x
  <2>4. /\ BoxStage' = [BoxStage EXCEPT ![x] = "called"]
        /\ BoxResult' = [BoxResult EXCEPT ![x] = Box!Ret("busy", Box!NoData)]
    BY <2>0, <2>2, <2>3, MapsOne
  <2>5. Box!Call(x)
    BY <2>0, <2>1, <2>3, <2>4 DEF Box!Call
  <2> QED
    BY <2>0, <2>5 DEF Box!Next
<1>2. ASSUME NEW c \in Cores, BmSetIrq(c) PROVE UNCHANGED Box!vars
  BY <1>2 DEF BmSetIrq, Box!vars, BoxStage, BoxResult, InCall
<1>3. ASSUME NEW c \in Cores, DoIrq(c) PROVE UNCHANGED Box!vars
  <2> DEFINE x == <<c, "irq">>
  <2>0. x \in Ctx
    OBVIOUS
  <2>1. pc[x] = "idle" /\ pc'[x] = "readTrigger" /\ UNCHANGED <<stored, call, buf, ret>>
    BY <1>3, <2>0 DEF DoIrq, Goto
  <2>2. \A y \in Ctx : y # x => pc'[y] = pc[y]
    BY <1>3 DEF DoIrq, Goto
  <2>3. BoxStage'[x] = BoxStage[x] /\ BoxResult'[x] = BoxResult[x]
    BY <2>0, <2>1, MapValue DEF MapAt
  <2> HIDE DEF x
  <2> QED
    BY <2>0, <2>1, <2>2, <2>3, MapStutter
<1>4. ASSUME NEW x \in Ctx, CmpXchg(x) PROVE Box!Next \/ UNCHANGED Box!vars
  <2>1. pc[x] = "cas" /\ UNCHANGED <<stored, call, buf>>
    BY <1>4 DEF CmpXchg, At
  <2>2. \A y \in Ctx : y # x => pc'[y] = pc[y] /\ ret'[y] = ret[y]
    BY <1>4 DEF CmpXchg, Refuse, Return, Goto
  <2>3. CASE MayTake(x)
    <3>1. pc'[x] \in {"copy", "abort"}
      BY <1>4, <2>3 DEF CmpXchg, Goto
    <3>2. BoxStage'[x] = BoxStage[x] /\ BoxResult'[x] = BoxResult[x]
      BY <2>1, <3>1, MapValue DEF MapAt
    <3> QED
      BY <2>1, <2>2, <3>2, MapStutter
  <2>4. CASE ~MayTake(x)
    <3>1. pc'[x] = "idle" /\ ret'[x] = "BM_FAIL"
      BY <1>4, <2>4 DEF CmpXchg, Refuse, Return, Goto
    <3>2. BoxStage[x] = "called" /\ BoxStage'[x] = "idle"
          /\ BoxResult'[x] = Box!Ret("BM_FAIL", Box!NoData)
      BY <1>z, <2>1, <3>1, MapValue DEF MapAt, Box!Ret
    <3>3. /\ BoxStage' = [BoxStage EXCEPT ![x] = "idle"]
          /\ BoxResult' = [BoxResult EXCEPT ![x] = Box!Ret("BM_FAIL", Box!NoData)]
      BY <2>1, <2>2, <3>2, MapsOne
    <3>4. Box!Fail(x)
      BY <2>1, <3>2, <3>3 DEF Box!Fail, Box!End
    <3> QED
      BY <3>4 DEF Box!Next
  <2> QED
    BY <2>3, <2>4
<1>5. ASSUME NEW x \in Ctx, CopyWord(x) PROVE UNCHANGED Box!vars
  <2>1. pc[x] = "copy" /\ UNCHANGED <<stored, call, pc, ret>>
    BY <1>5 DEF CopyWord, At
  <2>2. \A y \in Ctx : y # x => buf'[y] = buf[y]
    BY <1>5 DEF CopyWord
  <2>3. BoxStage'[x] = BoxStage[x] /\ BoxResult'[x] = BoxResult[x]
    BY <2>1, MapValue DEF MapAt
  <2> QED
    BY <2>1, <2>2, <2>3, MapStutter
<1>6. ASSUME NEW x \in Ctx, Release(x) PROVE Box!Next
  <2> DEFINE k == call[x].id
  <2>1. pc[x] = "copy" /\ UNCHANGED <<call, buf>> /\ call[x].op # "none"
    BY <1>6 DEF Release, At, ArgInv, InCall
  <2>2. \A y \in Ctx : y # x => pc'[y] = pc[y] /\ ret'[y] = ret[y]
    BY <1>6 DEF Release, Return, Goto
  <2>3. BoxStage[x] = "called" /\ BoxResult[x] = [code |-> "busy", data |-> Zero]
    BY <2>1, MapValue DEF MapAt
  <2>4. /\ BoxStage' = [BoxStage EXCEPT ![x] = BoxStage'[x]]
        /\ BoxResult' = [BoxResult EXCEPT ![x] = BoxResult'[x]]
    BY <2>1, <2>2, MapsOne
  <2>5. CASE call[x].op = "sendIpi"
    <3>0. IsSend(x)
      BY <2>5 DEF IsSend
    <3>1. pc'[x] = "notify" /\ ret' = ret
      BY <1>6, <2>5 DEF Release, Goto
    <3>2. BoxStage'[x] = "stored" /\ BoxResult'[x] = BoxResult[x]
      BY <2>3, <3>1, MapValue DEF MapAt
    <3>3. BoxResult' = BoxResult
      <4>1. BoxResult' = [BoxResult EXCEPT ![x] = BoxResult[x]]
        BY <2>4, <3>2
      <4>2. BoxResult = [y \in Ctx |-> BoxResult[y]]
        BY DEF BoxResult
      <4> QED
        BY <4>1, <4>2
    <3>4. /\ k \in MsgIds /\ call[x].len <= BodyLen
          /\ stored' = [stored EXCEPT ![k] = Box!Overlay(stored[k], call[x].word, call[x].len)]
      BY <1>6, <3>0, Stores DEF Box!Overlay
    <3>5. Box!Store(x)
      BY <2>1, <2>3, <2>4, <2>5, <3>2, <3>3, <3>4 DEF Box!Store
    <3> QED
      BY <3>5 DEF Box!Next
  <2>6. CASE call[x].op = "send"
    <3>0. IsSend(x)
      BY <2>6 DEF IsSend
    <3>1. pc'[x] = "idle" /\ ret'[x] = "BM_OK"
      BY <1>6, <2>6 DEF Release, Return, Goto
    <3>2. BoxStage'[x] = "idle" /\ BoxResult'[x] = Box!Ret("BM_OK", Box!NoData)
      BY <1>z, <2>1, <2>6, <3>1, MapValue DEF MapAt, Box!Ret
    <3>4. /\ k \in MsgIds /\ call[x].len <= BodyLen
          /\ stored' = [stored EXCEPT ![k] = Box!Overlay(stored[k], call[x].word, call[x].len)]
      BY <1>6, <3>0, Stores DEF Box!Overlay
    <3>5. Box!Store(x)
      BY <2>1, <2>3, <2>4, <2>6, <3>2, <3>4 DEF Box!Store, Box!End
    <3> QED
      BY <3>5 DEF Box!Next
  <2>7. CASE call[x].op = "recv"
    <3>0. ~IsSend(x)
      BY <2>7 DEF IsSend
    <3>1. pc'[x] = "idle" /\ ret'[x] = "BM_OK" /\ stored' = stored
      BY <1>6, <2>7, <3>0 DEF Release, Return, Goto
    <3>2. BoxStage'[x] = "idle" /\ BoxResult'[x] = Box!Ret("BM_OK", buf[x])
      BY <2>1, <2>7, <3>1, MapValue DEF MapAt, Box!Ret
    <3>3. k \in MsgIds /\ buf[x] = Box!Prefix(stored[k], call[x].len)
      BY <1>6, <3>0, ReceivesPrefix
    <3>4. Box!Fetch(x)
      BY <2>1, <2>3, <2>4, <2>7, <3>1, <3>2, <3>3 DEF Box!Fetch, Box!End
    <3> QED
      BY <3>4 DEF Box!Next
  <2> QED
    BY <2>1, <2>5, <2>6, <2>7 DEF Requests
<1>7. ASSUME NEW x \in Ctx, Abort(x) PROVE Box!Next
  <2>1. pc[x] = "abort" /\ UNCHANGED <<stored, call, buf>>
        /\ pc'[x] = "idle" /\ ret'[x] = "BM_FAIL"
    BY <1>7 DEF Abort, At, Return, Goto
  <2>2. \A y \in Ctx : y # x => pc'[y] = pc[y] /\ ret'[y] = ret[y]
    BY <1>7 DEF Abort, Return, Goto
  <2>3. BoxStage[x] = "called" /\ BoxStage'[x] = "idle"
        /\ BoxResult'[x] = Box!Ret("BM_FAIL", Box!NoData)
    BY <1>z, <2>1, MapValue DEF MapAt, Box!Ret
  <2>4. /\ BoxStage' = [BoxStage EXCEPT ![x] = "idle"]
        /\ BoxResult' = [BoxResult EXCEPT ![x] = Box!Ret("BM_FAIL", Box!NoData)]
    BY <2>1, <2>2, <2>3, MapsOne
  <2>5. Box!Fail(x)
    BY <2>1, <2>3, <2>4 DEF Box!Fail, Box!End
  <2> QED
    BY <2>5 DEF Box!Next
<1>8. ASSUME NEW x \in Ctx, SetTrigger(x) PROVE Box!Next \/ UNCHANGED Box!vars
  <2>1. pc[x] = "notify" /\ UNCHANGED <<stored, call, buf>> /\ call[x].op = "sendIpi"
    BY <1>8 DEF SetTrigger, At, ArgInv
  <2>2. \A y \in Ctx : y # x => pc'[y] = pc[y] /\ ret'[y] = ret[y]
    BY <1>8 DEF SetTrigger, Return, Goto
  <2>3. CASE call[x].cpu \in Cores
    <3>1. pc'[x] = "sgi"
      BY <1>8, <2>3 DEF SetTrigger, Goto
    <3>2. BoxStage'[x] = BoxStage[x] /\ BoxResult'[x] = BoxResult[x]
      BY <2>1, <3>1, MapValue DEF MapAt
    <3> QED
      BY <2>1, <2>2, <3>2, MapStutter
  <2>4. CASE call[x].cpu \notin Cores
    <3>1. pc'[x] = "idle" /\ ret'[x] = "BM_FAIL"
      BY <1>8, <2>4 DEF SetTrigger, Return, Goto
    <3>2. BoxStage[x] = "stored" /\ BoxStage'[x] = "idle"
          /\ BoxResult'[x] = Box!Ret("BM_FAIL", Box!NoData)
      BY <1>z, <2>1, <3>1, MapValue DEF MapAt, Box!Ret
    <3>3. /\ BoxStage' = [BoxStage EXCEPT ![x] = "idle"]
          /\ BoxResult' = [BoxResult EXCEPT ![x] = Box!Ret("BM_FAIL", Box!NoData)]
      BY <2>1, <2>2, <3>2, MapsOne
    <3>4. Box!Return(x)
      BY <2>1, <3>2, <3>3 DEF Box!Return, Box!End
    <3> QED
      BY <3>4 DEF Box!Next
  <2> QED
    BY <2>3, <2>4
<1>9. ASSUME NEW x \in Ctx, BmHwiTrigger(x) PROVE Box!Next
  <2>1. pc[x] = "sgi" /\ UNCHANGED <<stored, call, buf>> /\ call[x].op = "sendIpi"
        /\ pc'[x] = "idle" /\ ret'[x] = "BM_OK"
    BY <1>9 DEF BmHwiTrigger, At, ArgInv, Return, Goto
  <2>2. \A y \in Ctx : y # x => pc'[y] = pc[y] /\ ret'[y] = ret[y]
    BY <1>9 DEF BmHwiTrigger, Return, Goto
  <2>3. BoxStage[x] = "stored" /\ BoxStage'[x] = "idle"
        /\ BoxResult'[x] = Box!Ret("BM_OK", Box!NoData)
    BY <1>z, <2>1, MapValue DEF MapAt, Box!Ret
  <2>4. /\ BoxStage' = [BoxStage EXCEPT ![x] = "idle"]
        /\ BoxResult' = [BoxResult EXCEPT ![x] = Box!Ret("BM_OK", Box!NoData)]
    BY <2>1, <2>2, <2>3, MapsOne
  <2>5. Box!Return(x)
    BY <2>1, <2>3, <2>4 DEF Box!Return, Box!End
  <2> QED
    BY <2>5 DEF Box!Next
<1>10. ASSUME NEW x \in Ctx, BmRecvMsgWithIpi(x) PROVE Box!Next
  <2> DEFINE r == Request("recv", trigger[Core(x)], 0, BodyLen, 0)
  <2>0. r \in Requests
    OBVIOUS
  <2>1. /\ pc[x] = "readTrigger" /\ pc'[x] = "cas"
        /\ call' = [call EXCEPT ![x] = r] /\ stored' = stored
    BY <1>10 DEF BmRecvMsgWithIpi, At, Goto
  <2> HIDE DEF r
  <2>2. \A y \in Ctx : y # x => /\ pc'[y] = pc[y] /\ call'[y] = call[y]
                                /\ buf'[y] = buf[y] /\ ret'[y] = ret[y]
    BY <1>10 DEF BmRecvMsgWithIpi, Goto
  <2>3. BoxStage[x] = "idle" /\ BoxStage'[x] = "called"
        /\ BoxResult'[x] = Box!Ret("busy", Box!NoData)
    BY <1>z, <2>1, MapValue DEF MapAt, Box!Ret
  <2>4. /\ BoxStage' = [BoxStage EXCEPT ![x] = "called"]
        /\ BoxResult' = [BoxResult EXCEPT ![x] = Box!Ret("busy", Box!NoData)]
    BY <2>2, <2>3, MapsOne
  <2>5. Box!Call(x)
    BY <2>0, <2>1, <2>3, <2>4 DEF Box!Call
  <2> QED
    BY <2>5 DEF Box!Next
<1>11. ASSUME UNCHANGED vars PROVE UNCHANGED Box!vars
  BY <1>11 DEF vars, Box!vars, BoxStage, BoxResult, InCall
<1> QED
  BY StepCases, <1>1, <1>2, <1>3, <1>4, <1>5, <1>6, <1>7, <1>8, <1>9, <1>10, <1>11 DEF Step

(* The word-by-word copies behind the try-lock of message.c implement the   *)
(* atomic registers bm_message.h promises: every send takes effect, and     *)
(* every receive reads, at the one instant the slot is released, whatever   *)
(* cores and interrupt handlers interleave with it.                         *)
THEOREM ImplementsRegisters == Spec => AtomicRegisters
<1>1. Init => Box!Init
  BY InitBox
<1>2. IInv /\ SendInv /\ [Next]_vars => [Box!Next]_(Box!vars)
  BY BoxStep
<1> QED
  BY <1>1, <1>2, Invariance, SendInvariance, PTL DEF Spec, AtomicRegisters, Box!Spec
=============================================================================
