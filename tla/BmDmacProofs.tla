---------------------------- MODULE BmDmacProofs ----------------------------
(***************************************************************************)
(* Proofs about BmDmac for any callers, any number of channels, and        *)
(* whether or not the interrupt stops the callers.                         *)
(***************************************************************************)
EXTENDS BmDmac, WellFoundedInduction, TLAPS

USE BmDmacAssumption

(* The locals at each place: a call has a number, and from the end of the  *)
(* search on a channel.  A handler under way has a channel to serve.       *)
LocalInv ==
    /\ \A c \in Callers :
         /\ pc[c] # "idle" => num[c] \in Transfers
         /\ pc[c] \in {"clean", "mask_r", "mask_w", "reg", "go", "wait", "late",
                       "stat", "rel"} => chan[c] \in Channels
    /\ hpc # "idle" => \E i \in Channels : hs[i] # None

(* The inductive invariant. *)
IInv == TypeOK /\ LocalInv /\ SemHeld /\ ChannelHeldOnce

LEMMA StepCases ==
    ASSUME [Next]_vars
    PROVE  \/ \E c \in Callers : Call(c) \/ Caller(c)
           \/ \E i \in Channels : Finish(i)
           \/ Irq
           \/ UNCHANGED vars
BY DEF Next

(* The least element of a set of natural numbers. *)
LEMMA MinInSet ==
    ASSUME NEW S \in SUBSET Nat, S # {}
    PROVE  Min(S) \in S
<1>1. PICK x \in S : \A y \in S : ~(<<y, x>> \in OpToRel(<, Nat))
  BY NatLessThanWellFounded, WFMin
<1>2. \A y \in S : ~(y < x)
  BY <1>1 DEF OpToRel
<1>3. \A y \in S : x <= y
  BY <1>2
<1> QED
  BY <1>3 DEF Min

LEMMA ServingChannel ==
    ASSUME LocalInv, hpc # "idle"
    PROVE  Serving \in Channels /\ hs[Serving] # None
<1> DEFINE S == {i \in Channels : hs[i] # None}
<1>1. S # {} /\ S \subseteq Channels
  BY DEF LocalInv
<1>2. S \in SUBSET Nat
  BY <1>1 DEF Channels
<1>3. Min(S) \in S
  BY <1>1, <1>2, MinInSet
<1> QED
  BY <1>1, <1>3 DEF Serving

LEMMA TypeStep == IInv /\ [Next]_vars => TypeOK'
<1> SUFFICES ASSUME IInv, [Next]_vars PROVE TypeOK'
  OBVIOUS
<1> USE DEF IInv, TypeOK, At, Goto, Return, hwVars, irqVars, callVars, ghosts
<1>1. ASSUME NEW c \in Callers, Call(c) PROVE TypeOK'
  BY <1>1 DEF Call
<1>2. ASSUME NEW c \in Callers, Caller(c) PROVE TypeOK'
  <2>1. CASE SemDown(c)
    BY <2>1 DEF SemDown
  <2>2. CASE SemTimeout(c)
    BY <2>2 DEF SemTimeout
  <2>3. CASE ReadStatus(c)
    BY <2>3 DEF ReadStatus
  <2>4. CASE ScanTake(c)
    BY <2>4 DEF ScanTake, Looking, Takeable
  <2>17. CASE ScanSkip(c)
    BY <2>17 DEF ScanSkip, Looking
  <2>5. CASE ScanNone(c)
    BY <2>5 DEF ScanNone
  <2>6. CASE Clean(c)
    BY <2>6 DEF Clean
  <2>7. CASE MaskRead(c)
    BY <2>7 DEF MaskRead
  <2>8. CASE MaskWrite(c)
    BY <2>8 DEF MaskWrite, LocalInv
  <2>9. CASE Refuse(c)
    BY <2>9 DEF Refuse
  <2>10. CASE Register(c)
    BY <2>10 DEF Register
  <2>11. CASE Go(c)
    BY <2>11 DEF Go, LocalInv
  <2>12. CASE WaitDone(c)
    BY <2>12 DEF WaitDone
  <2>13. CASE WaitLastLook(c)
    BY <2>13 DEF WaitLastLook
  <2>14. CASE WaitExpire(c)
    BY <2>14 DEF WaitExpire, LocalInv
  <2>15. CASE WaitStatus(c)
    BY <2>15 DEF WaitStatus
  <2>16. CASE Release(c)
    BY <2>16 DEF Release, LocalInv
  <2> QED
    BY <1>2, <2>1, <2>2, <2>3, <2>4, <2>5, <2>6, <2>7, <2>8, <2>9, <2>10, <2>11, <2>12, <2>13,
       <2>14, <2>15, <2>16, <2>17 DEF Caller
<1>3. ASSUME NEW i \in Channels, Finish(i) PROVE TypeOK'
  BY <1>3 DEF Finish
<1>4. CASE Irq
  <2>1. CASE IrqEnter
    BY <2>1 DEF IrqEnter
  <2>2. CASE IrqClear
    BY <2>2, ServingChannel DEF IrqClear
  <2>3. CASE IrqNoCallback
    BY <2>3 DEF IrqNoCallback, IrqNext
  <2>4. CASE IrqSync
    BY <2>4 DEF IrqSync
  <2>5. CASE IrqSyncStatus
    BY <2>5, ServingChannel DEF IrqSyncStatus
  <2>6. CASE IrqAsync
    BY <2>6 DEF IrqAsync
  <2>7. CASE IrqNull
    BY <2>7 DEF IrqNull, IrqNext
  <2> QED
    BY <1>4, <2>1, <2>2, <2>3, <2>4, <2>5, <2>6, <2>7 DEF Irq
<1>5. CASE UNCHANGED vars
  BY <1>5 DEF vars
<1> QED
  BY <1>1, <1>2, <1>3, <1>4, <1>5, StepCases

LEMMA LocalStep == IInv /\ [Next]_vars => LocalInv'
<1> SUFFICES ASSUME IInv, [Next]_vars PROVE LocalInv'
  OBVIOUS
<1> USE DEF IInv, TypeOK, LocalInv, At, Goto, Return, hwVars, irqVars, callVars, ghosts
<1>1. ASSUME NEW c \in Callers, Call(c) PROVE LocalInv'
  BY <1>1 DEF Call, Transfers
<1>2. ASSUME NEW c \in Callers, Caller(c) PROVE LocalInv'
  <2>1. CASE SemDown(c)
    BY <2>1 DEF SemDown
  <2>2. CASE SemTimeout(c)
    BY <2>2 DEF SemTimeout
  <2>3. CASE ReadStatus(c)
    BY <2>3 DEF ReadStatus
  <2>4. CASE ScanTake(c)
    BY <2>4 DEF ScanTake, Looking, Takeable
  <2>17. CASE ScanSkip(c)
    BY <2>17 DEF ScanSkip, Looking
  <2>5. CASE ScanNone(c)
    BY <2>5 DEF ScanNone
  <2>6. CASE Clean(c)
    BY <2>6 DEF Clean
  <2>7. CASE MaskRead(c)
    BY <2>7 DEF MaskRead
  <2>8. CASE MaskWrite(c)
    BY <2>8 DEF MaskWrite
  <2>9. CASE Refuse(c)
    BY <2>9 DEF Refuse
  <2>10. CASE Register(c)
    BY <2>10 DEF Register
  <2>11. CASE Go(c)
    BY <2>11 DEF Go
  <2>12. CASE WaitDone(c)
    BY <2>12 DEF WaitDone
  <2>13. CASE WaitLastLook(c)
    BY <2>13 DEF WaitLastLook
  <2>14. CASE WaitExpire(c)
    BY <2>14 DEF WaitExpire
  <2>15. CASE WaitStatus(c)
    BY <2>15 DEF WaitStatus
  <2>16. CASE Release(c)
    BY <2>16 DEF Release
  <2> QED
    BY <1>2, <2>1, <2>2, <2>3, <2>4, <2>5, <2>6, <2>7, <2>8, <2>9, <2>10, <2>11, <2>12, <2>13,
       <2>14, <2>15, <2>16, <2>17 DEF Caller
<1>3. ASSUME NEW i \in Channels, Finish(i) PROVE LocalInv'
  BY <1>3 DEF Finish
<1>4. CASE Irq
  <2>1. CASE IrqEnter
    BY <2>1 DEF IrqEnter, Raised
  <2>2. CASE IrqClear
    BY <2>2 DEF IrqClear
  <2>3. CASE IrqNoCallback
    BY <2>3 DEF IrqNoCallback, IrqNext
  <2>4. CASE IrqSync
    BY <2>4 DEF IrqSync
  <2>5. CASE IrqSyncStatus
    BY <2>5 DEF IrqSyncStatus
  <2>6. CASE IrqAsync
    BY <2>6 DEF IrqAsync
  <2>7. CASE IrqNull
    BY <2>7 DEF IrqNull, IrqNext
  <2> QED
    BY <1>4, <2>1, <2>2, <2>3, <2>4, <2>5, <2>6, <2>7 DEF Irq
<1>5. CASE UNCHANGED vars
  BY <1>5 DEF vars
<1> QED
  BY <1>1, <1>2, <1>3, <1>4, <1>5, StepCases

LEMMA SemStep == IInv /\ [Next]_vars => SemHeld'
<1> SUFFICES ASSUME IInv, [Next]_vars PROVE SemHeld'
  OBVIOUS
<1> USE DEF IInv, TypeOK, SemHeld, Searching, At, Goto, Return, hwVars, irqVars, callVars,
        ghosts
<1>1. ASSUME NEW c \in Callers, Call(c) PROVE SemHeld'
  BY <1>1 DEF Call
<1>2. ASSUME NEW c \in Callers, Caller(c) PROVE SemHeld'
  <2>1. CASE SemDown(c)
    <3>1. sem /\ sem' = FALSE /\ pc' = [pc EXCEPT ![c] = "read"]
      BY <2>1 DEF SemDown
    <3>2. Searching = {}
      <4> HIDE DEF Searching
      <4> QED
        BY <3>1, Zenon
    <3>3. Searching' = {c}
      BY <3>1, <3>2
    <3>4. sem' = (Searching' = {})
      BY <3>1, <3>3
    <3> QED
      BY <3>3, <3>4
  <2>2. CASE SemTimeout(c)
    BY <2>2 DEF SemTimeout
  <2>3. CASE ReadStatus(c)
    BY <2>3 DEF ReadStatus
  <2>4. CASE ScanTake(c)
    <3>1. c \in Searching
      BY <2>4 DEF ScanTake, Looking
    <3>2. Searching = {c}
      BY <3>1
    <3>3. Searching' = {} /\ sem'
      BY <2>4, <3>2 DEF ScanTake, Looking
    <3> QED
      BY <3>3
  <2>17. CASE ScanSkip(c)
    BY <2>17 DEF ScanSkip, Looking
  <2>5. CASE ScanNone(c)
    <3>1. c \in Searching
      BY <2>5 DEF ScanNone
    <3>2. Searching = {c}
      BY <3>1
    <3>3. Searching' = {} /\ sem'
      BY <2>5, <3>2 DEF ScanNone
    <3> QED
      BY <3>3
  <2>6. CASE Clean(c)
    BY <2>6 DEF Clean
  <2>7. CASE MaskRead(c)
    BY <2>7 DEF MaskRead
  <2>8. CASE MaskWrite(c)
    BY <2>8 DEF MaskWrite
  <2>9. CASE Refuse(c)
    BY <2>9 DEF Refuse
  <2>10. CASE Register(c)
    BY <2>10 DEF Register
  <2>11. CASE Go(c)
    BY <2>11 DEF Go
  <2>12. CASE WaitDone(c)
    BY <2>12 DEF WaitDone
  <2>13. CASE WaitLastLook(c)
    BY <2>13 DEF WaitLastLook
  <2>14. CASE WaitExpire(c)
    BY <2>14 DEF WaitExpire
  <2>15. CASE WaitStatus(c)
    BY <2>15 DEF WaitStatus
  <2>16. CASE Release(c)
    BY <2>16 DEF Release
  <2> QED
    BY <1>2, <2>1, <2>2, <2>3, <2>4, <2>5, <2>6, <2>7, <2>8, <2>9, <2>10, <2>11, <2>12, <2>13,
       <2>14, <2>15, <2>16, <2>17 DEF Caller
<1>3. ASSUME NEW i \in Channels, Finish(i) PROVE SemHeld'
  BY <1>3 DEF Finish
<1>4. CASE Irq
  <2>1. CASE IrqEnter
    BY <2>1 DEF IrqEnter
  <2>2. CASE IrqClear
    BY <2>2 DEF IrqClear
  <2>3. CASE IrqNoCallback
    BY <2>3 DEF IrqNoCallback, IrqNext
  <2>4. CASE IrqSync
    BY <2>4 DEF IrqSync
  <2>5. CASE IrqSyncStatus
    BY <2>5 DEF IrqSyncStatus
  <2>6. CASE IrqAsync
    BY <2>6 DEF IrqAsync
  <2>7. CASE IrqNull
    BY <2>7 DEF IrqNull, IrqNext
  <2> QED
    BY <1>4, <2>1, <2>2, <2>3, <2>4, <2>5, <2>6, <2>7 DEF Irq
<1>5. CASE UNCHANGED vars
  BY <1>5 DEF vars
<1> QED
  BY <1>1, <1>2, <1>3, <1>4, <1>5, StepCases

LEMMA HeldStep == IInv /\ [Next]_vars => ChannelHeldOnce'
<1> SUFFICES ASSUME IInv, [Next]_vars PROVE ChannelHeldOnce'
  OBVIOUS
<1> USE DEF IInv, TypeOK, ChannelHeldOnce, At, Goto, Return, hwVars, irqVars, callVars, ghosts
<1>1. ASSUME NEW c \in Callers, Call(c) PROVE ChannelHeldOnce'
  BY <1>1 DEF Call
<1>2. ASSUME NEW c \in Callers, Caller(c) PROVE ChannelHeldOnce'
  <2>1. CASE SemDown(c)
    BY <2>1 DEF SemDown
  <2>2. CASE SemTimeout(c)
    BY <2>2 DEF SemTimeout
  <2>3. CASE ReadStatus(c)
    BY <2>3 DEF ReadStatus
  <2>4. CASE ScanTake(c)
    BY <2>4 DEF ScanTake, Looking, Takeable
  <2>17. CASE ScanSkip(c)
    BY <2>17 DEF ScanSkip, Looking
  <2>5. CASE ScanNone(c)
    BY <2>5 DEF ScanNone
  <2>6. CASE Clean(c)
    BY <2>6 DEF Clean
  <2>7. CASE MaskRead(c)
    BY <2>7 DEF MaskRead
  <2>8. CASE MaskWrite(c)
    BY <2>8 DEF MaskWrite
  <2>9. CASE Refuse(c)
    BY <2>9 DEF Refuse
  <2>10. CASE Register(c)
    BY <2>10 DEF Register
  <2>11. CASE Go(c)
    BY <2>11 DEF Go
  <2>12. CASE WaitDone(c)
    BY <2>12 DEF WaitDone
  <2>13. CASE WaitLastLook(c)
    BY <2>13 DEF WaitLastLook
  <2>14. CASE WaitExpire(c)
    BY <2>14 DEF WaitExpire
  <2>15. CASE WaitStatus(c)
    BY <2>15 DEF WaitStatus
  <2>16. CASE Release(c)
    BY <2>16 DEF Release
  <2> QED
    BY <1>2, <2>1, <2>2, <2>3, <2>4, <2>5, <2>6, <2>7, <2>8, <2>9, <2>10, <2>11, <2>12, <2>13,
       <2>14, <2>15, <2>16, <2>17 DEF Caller
<1>3. ASSUME NEW i \in Channels, Finish(i) PROVE ChannelHeldOnce'
  BY <1>3 DEF Finish
<1>4. CASE Irq
  <2>1. CASE IrqEnter
    BY <2>1 DEF IrqEnter
  <2>2. CASE IrqClear
    BY <2>2 DEF IrqClear
  <2>3. CASE IrqNoCallback
    BY <2>3 DEF IrqNoCallback, IrqNext
  <2>4. CASE IrqSync
    BY <2>4 DEF IrqSync
  <2>5. CASE IrqSyncStatus
    BY <2>5 DEF IrqSyncStatus
  <2>6. CASE IrqAsync
    BY <2>6 DEF IrqAsync
  <2>7. CASE IrqNull
    BY <2>7 DEF IrqNull, IrqNext
  <2> QED
    BY <1>4, <2>1, <2>2, <2>3, <2>4, <2>5, <2>6, <2>7 DEF Irq
<1>5. CASE UNCHANGED vars
  BY <1>5 DEF vars
<1> QED
  BY <1>1, <1>2, <1>3, <1>4, <1>5, StepCases

LEMMA InitInv == Init => IInv
<1> SUFFICES ASSUME Init PROVE IInv
  OBVIOUS
<1> USE DEF Init
<1>1. TypeOK
  BY DEF TypeOK
<1>2. LocalInv
  BY DEF LocalInv
<1>3. SemHeld
  BY DEF SemHeld, Searching
<1>4. ChannelHeldOnce
  BY DEF ChannelHeldOnce
<1> QED
  BY <1>1, <1>2, <1>3, <1>4 DEF IInv

LEMMA Inductive == Spec => []IInv
<1>1. IInv /\ [Next]_vars => IInv'
  BY TypeStep, LocalStep, SemStep, HeldStep DEF IInv
<1> QED
  BY InitInv, <1>1, PTL DEF Spec

(* dmac.c keeps the types of its tables, of the registers and of every      *)
(* local, in particular that no caller uses an index past the channels.     *)
THEOREM TypeCorrect == Spec => []TypeOK
<1>1. IInv => TypeOK
  BY DEF IInv
<1> QED
  BY Inductive, <1>1, PTL

(* find_idle_channel holds g_sem exactly while it searches, and gives it    *)
(* back on both of its ways out.                                            *)
THEOREM SemCorrect == Spec => []SemHeld
<1>1. IInv => SemHeld
  BY DEF IInv
<1> QED
  BY Inductive, <1>1, PTL

(* g_dmac_start_flag keeps every channel with one caller at a time, until   *)
(* the caller clears the flag and returns.                                  *)
THEOREM HeldCorrect == Spec => []ChannelHeldOnce
<1>1. IInv => ChannelHeldOnce
  BY DEF IInv
<1> QED
  BY Inductive, <1>1, PTL

-----------------------------------------------------------------------------
(* A synchronous call reports its own transfer, when the interrupt stops   *)
(* the callers.                                                            *)

(* The handler has acknowledged channel i and not left it. *)
InService(i) == hpc \in {"call", "status", "null"} /\ Serving = i

(* The handler that runs no more has no channel left, and writes a status  *)
(* only for a synchronous transfer.                                        *)
HandlerInv ==
    /\ hpc = "idle" => \A i \in Channels : hs[i] = None
    /\ hpc = "status" => hcb = "sync"

(* Transfers have numbers of their own; one that runs belongs to no caller *)
(* but the one that started it.                                            *)
NumInv ==
    /\ \A c \in Callers : num[c] <= calls
    /\ \A i \in Channels : run[i] # None => run[i] <= calls
    /\ \A c, d \in Callers : num[c] # 0 /\ c # d => num[c] # num[d]
    /\ \A c \in Callers, i \in Channels :
         run[i] = num[c] => chan[c] = i /\ pc[c] \in {"wait", "late", "stat", "rel"}

(* Nothing of a synchronous transfer is left on channel i. *)
Quiet(i) == ~flag[i] /\ cb[i] # "sync" /\ (InService(i) => hcb # "sync")

Waiting(c) == kind[c] = "sync" /\ pc[c] \in {"go", "wait", "late"}

(* A channel that is not spoilt runs a transfer or has the completion of   *)
(* one, never both, and is quiet unless a synchronous call waits on it.    *)
ChanInv ==
    \A i \in Channels \ spoilt :
      /\ run[i] # None => pend[i] = None /\ hs[i] = None
      /\ Quiet(i) \/ \E c \in Callers : chan[c] = i /\ Waiting(c)

(* Where the completion of the transfer of a synchronous caller is: not    *)
(* yet there, pending, with the handler, or in flag and status.            *)
Running(c, i) ==
    /\ run[i] = num[c] /\ pend[i] = None /\ hs[i] = None
    /\ ~flag[i] /\ cb[i] = "sync"

Pending(c, i) ==
    /\ run[i] = None /\ outcome[c] # None /\ pend[i] = outcome[c]
    /\ hs[i] \in {None, outcome[c]} /\ ~InService(i)
    /\ ~flag[i] /\ cb[i] = "sync"

Served(c, i) ==
    /\ run[i] = None /\ pend[i] = None
    /\ InService(i) /\ outcome[c] # None /\ hs[i] = outcome[c] /\ hcb = "sync"
    /\ hpc = "call" <=> ~flag[i]
    /\ hpc = "null" => status[i] = outcome[c]

Done(c, i) ==
    /\ run[i] = None /\ pend[i] = None /\ hs[i] = None
    /\ flag[i] /\ cb[i] # "sync" /\ outcome[c] # None /\ status[i] = outcome[c]

Progress(c, i) ==
    /\ pc[c] \in {"clean", "mask_r", "mask_w", "reg", "go"} => run[i] = None
    /\ pc[c] \in {"mask_r", "mask_w", "reg", "go"} => pend[i] = None /\ hs[i] = None
    /\ kind[c] = "sync" =>
         /\ pc[c] = "go" => cb[i] = "sync" /\ ~flag[i]
         /\ pc[c] \in {"wait", "late"} =>
              Running(c, i) \/ Pending(c, i) \/ Served(c, i) \/ Done(c, i)
         /\ pc[c] = "stat" => /\ run[i] = None /\ outcome[c] # None
                              /\ status[i] = outcome[c]
         /\ pc[c] = "rel" => run[i] = None /\ ret[c] = outcome[c]

CallerInv == \A c \in Callers, i \in Channels \ spoilt : chan[c] = i => Progress(c, i)

(* A caller has a channel only after its search. *)
HolderInv ==
    \A c \in Callers : chan[c] # None =>
      pc[c] \in {"clean", "mask_r", "mask_w", "reg", "go", "wait", "late", "stat", "rel"}

(* NULL is no number of a call. *)
LEMMA NoneNumber == None \notin 0 .. MaxCalls /\ 0 \notin Transfers
<1>1. 0 \in Channels
  BY DEF Channels
<1> QED
  BY <1>1, NoneAssumption DEF Transfers

OwnInv == IInv /\ HandlerInv /\ NumInv /\ HolderInv /\ ChanInv /\ CallerInv

(* The handler leaves no channel behind. *)
LEMMA HandlerStep ==
    ASSUME IInv, HandlerInv, [Next]_vars
    PROVE  HandlerInv'
<1> USE DEF HandlerInv, IInv, TypeOK, At, Goto, Return, hwVars, irqVars, callVars, ghosts
<1>1. ASSUME NEW c \in Callers, Call(c) PROVE HandlerInv'
  BY <1>1 DEF Call
<1>2. ASSUME NEW c \in Callers, Caller(c) PROVE HandlerInv'
  <2>1. CASE SemDown(c)
    BY <2>1 DEF SemDown
  <2>2. CASE SemTimeout(c)
    BY <2>2 DEF SemTimeout
  <2>3. CASE ReadStatus(c)
    BY <2>3 DEF ReadStatus
  <2>4. CASE ScanTake(c)
    BY <2>4 DEF ScanTake, Looking, Takeable
  <2>17. CASE ScanSkip(c)
    BY <2>17 DEF ScanSkip, Looking
  <2>5. CASE ScanNone(c)
    BY <2>5 DEF ScanNone
  <2>6. CASE Clean(c)
    BY <2>6 DEF Clean
  <2>7. CASE MaskRead(c)
    BY <2>7 DEF MaskRead
  <2>8. CASE MaskWrite(c)
    BY <2>8 DEF MaskWrite
  <2>9. CASE Refuse(c)
    BY <2>9 DEF Refuse
  <2>10. CASE Register(c)
    BY <2>10 DEF Register
  <2>11. CASE Go(c)
    BY <2>11 DEF Go
  <2>12. CASE WaitDone(c)
    BY <2>12 DEF WaitDone
  <2>13. CASE WaitLastLook(c)
    BY <2>13 DEF WaitLastLook
  <2>14. CASE WaitExpire(c)
    BY <2>14 DEF WaitExpire
  <2>15. CASE WaitStatus(c)
    BY <2>15 DEF WaitStatus
  <2>16. CASE Release(c)
    BY <2>16 DEF Release
  <2> QED
    BY <1>2, <2>1, <2>2, <2>3, <2>4, <2>5, <2>6, <2>7, <2>8, <2>9, <2>10, <2>11, <2>12, <2>13,
       <2>14, <2>15, <2>16, <2>17 DEF Caller
<1>3. ASSUME NEW i \in Channels, Finish(i) PROVE HandlerInv'
  BY <1>3 DEF Finish
<1>4. CASE Irq
  <2>1. CASE IrqEnter
    BY <2>1 DEF IrqEnter, Raised
  <2>2. CASE IrqClear
    BY <2>2 DEF IrqClear
  <2>3. CASE IrqNoCallback
    BY <2>3 DEF IrqNoCallback, IrqNext
  <2>4. CASE IrqSync
    BY <2>4 DEF IrqSync
  <2>5. CASE IrqSyncStatus
    BY <2>5 DEF IrqSyncStatus
  <2>6. CASE IrqAsync
    BY <2>6 DEF IrqAsync
  <2>7. CASE IrqNull
    BY <2>7 DEF IrqNull, IrqNext
  <2> QED
    BY <1>4, <2>1, <2>2, <2>3, <2>4, <2>5, <2>6, <2>7 DEF Irq
<1>5. CASE UNCHANGED vars
  BY <1>5 DEF vars
<1> QED
  BY <1>1, <1>2, <1>3, <1>4, <1>5, StepCases

(* Every call gets a number that nothing has. *)
LEMMA NumStep ==
    ASSUME IInv, NumInv, [Next]_vars
    PROVE  NumInv'
<1> USE NoneNumber DEF NumInv, IInv, TypeOK, LocalInv, Transfers, At, Goto, Return, hwVars,
        irqVars, callVars, ghosts
<1>1. ASSUME NEW c \in Callers, Call(c) PROVE NumInv'
  BY <1>1 DEF Call
<1>2. ASSUME NEW c \in Callers, Caller(c) PROVE NumInv'
  <2>1. CASE SemDown(c)
    BY <2>1 DEF SemDown
  <2>2. CASE SemTimeout(c)
    BY <2>2 DEF SemTimeout
  <2>3. CASE ReadStatus(c)
    BY <2>3 DEF ReadStatus
  <2>4. CASE ScanTake(c)
    BY <2>4 DEF ScanTake, Looking, Takeable
  <2>17. CASE ScanSkip(c)
    BY <2>17 DEF ScanSkip, Looking
  <2>5. CASE ScanNone(c)
    <3>1. /\ pc[c] = "scan" /\ pc' = [pc EXCEPT ![c] = "idle"]
          /\ num' = [num EXCEPT ![c] = 0] /\ chan' = [chan EXCEPT ![c] = None]
          /\ UNCHANGED <<calls, run>>
      BY <2>5 DEF ScanNone
    <3>2. \A j \in Channels : run[j] # num[c] /\ run[j] # 0
      BY <3>1
    <3> QED
      BY <3>1, <3>2
  <2>6. CASE Clean(c)
    BY <2>6 DEF Clean
  <2>7. CASE MaskRead(c)
    BY <2>7 DEF MaskRead
  <2>8. CASE MaskWrite(c)
    BY <2>8 DEF MaskWrite
  <2>9. CASE Refuse(c)
    BY <2>9 DEF Refuse
  <2>10. CASE Register(c)
    BY <2>10 DEF Register
  <2>11. CASE Go(c)
    BY <2>11 DEF Go
  <2>12. CASE WaitDone(c)
    BY <2>12 DEF WaitDone
  <2>13. CASE WaitLastLook(c)
    BY <2>13 DEF WaitLastLook
  <2>14. CASE WaitExpire(c)
    BY <2>14 DEF WaitExpire
  <2>15. CASE WaitStatus(c)
    BY <2>15 DEF WaitStatus
  <2>16. CASE Release(c)
    BY <2>16 DEF Release
  <2> QED
    BY <1>2, <2>1, <2>2, <2>3, <2>4, <2>5, <2>6, <2>7, <2>8, <2>9, <2>10, <2>11, <2>12, <2>13,
       <2>14, <2>15, <2>16, <2>17 DEF Caller
<1>3. ASSUME NEW i \in Channels, Finish(i) PROVE NumInv'
  BY <1>3 DEF Finish
<1>4. CASE Irq
  <2>1. CASE IrqEnter
    BY <2>1 DEF IrqEnter, Raised
  <2>2. CASE IrqClear
    BY <2>2 DEF IrqClear
  <2>3. CASE IrqNoCallback
    BY <2>3 DEF IrqNoCallback, IrqNext
  <2>4. CASE IrqSync
    BY <2>4 DEF IrqSync
  <2>5. CASE IrqSyncStatus
    BY <2>5 DEF IrqSyncStatus
  <2>6. CASE IrqAsync
    BY <2>6 DEF IrqAsync
  <2>7. CASE IrqNull
    BY <2>7 DEF IrqNull, IrqNext
  <2> QED
    BY <1>4, <2>1, <2>2, <2>3, <2>4, <2>5, <2>6, <2>7 DEF Irq
<1>5. CASE UNCHANGED vars
  BY <1>5 DEF vars
<1> QED
  BY <1>1, <1>2, <1>3, <1>4, <1>5, StepCases

(* A call ends without a channel. *)
LEMMA HolderStep ==
    ASSUME IInv, HolderInv, [Next]_vars
    PROVE  HolderInv'
<1> USE NoneAssumption DEF HolderInv, IInv, TypeOK, At, Goto, Return, hwVars, irqVars,
        callVars, ghosts
<1>1. ASSUME NEW c \in Callers, Call(c) PROVE HolderInv'
  BY <1>1 DEF Call
<1>2. ASSUME NEW c \in Callers, Caller(c) PROVE HolderInv'
  <2>1. CASE SemDown(c)
    BY <2>1 DEF SemDown
  <2>2. CASE SemTimeout(c)
    BY <2>2 DEF SemTimeout
  <2>3. CASE ReadStatus(c)
    BY <2>3 DEF ReadStatus
  <2>4. CASE ScanTake(c)
    BY <2>4 DEF ScanTake, Looking, Takeable
  <2>17. CASE ScanSkip(c)
    BY <2>17 DEF ScanSkip, Looking
  <2>5. CASE ScanNone(c)
    BY <2>5 DEF ScanNone
  <2>6. CASE Clean(c)
    BY <2>6 DEF Clean
  <2>7. CASE MaskRead(c)
    BY <2>7 DEF MaskRead
  <2>8. CASE MaskWrite(c)
    BY <2>8 DEF MaskWrite
  <2>9. CASE Refuse(c)
    BY <2>9 DEF Refuse
  <2>10. CASE Register(c)
    BY <2>10 DEF Register
  <2>11. CASE Go(c)
    BY <2>11 DEF Go
  <2>12. CASE WaitDone(c)
    BY <2>12 DEF WaitDone
  <2>13. CASE WaitLastLook(c)
    BY <2>13 DEF WaitLastLook
  <2>14. CASE WaitExpire(c)
    BY <2>14 DEF WaitExpire
  <2>15. CASE WaitStatus(c)
    BY <2>15 DEF WaitStatus
  <2>16. CASE Release(c)
    BY <2>16 DEF Release
  <2> QED
    BY <1>2, <2>1, <2>2, <2>3, <2>4, <2>5, <2>6, <2>7, <2>8, <2>9, <2>10, <2>11, <2>12, <2>13,
       <2>14, <2>15, <2>16, <2>17 DEF Caller
<1>3. ASSUME NEW i \in Channels, Finish(i) PROVE HolderInv'
  BY <1>3 DEF Finish
<1>4. CASE Irq
  <2>1. CASE IrqEnter
    BY <2>1 DEF IrqEnter, Raised
  <2>2. CASE IrqClear
    BY <2>2 DEF IrqClear
  <2>3. CASE IrqNoCallback
    BY <2>3 DEF IrqNoCallback, IrqNext
  <2>4. CASE IrqSync
    BY <2>4 DEF IrqSync
  <2>5. CASE IrqSyncStatus
    BY <2>5 DEF IrqSyncStatus
  <2>6. CASE IrqAsync
    BY <2>6 DEF IrqAsync
  <2>7. CASE IrqNull
    BY <2>7 DEF IrqNull, IrqNext
  <2> QED
    BY <1>4, <2>1, <2>2, <2>3, <2>4, <2>5, <2>6, <2>7 DEF Irq
<1>5. CASE UNCHANGED vars
  BY <1>5 DEF vars
<1> QED
  BY <1>1, <1>2, <1>3, <1>4, <1>5, StepCases

(* A caller moves only while no handler runs. *)
LEMMA Frozen ==
    ASSUME OneCore, HandlerInv, NEW c \in Callers, Call(c) \/ Caller(c)
    PROVE  /\ hpc = "idle" /\ hpc' = hpc /\ hs' = hs /\ hcb' = hcb
           /\ \A i \in Channels : hs[i] = None /\ ~InService(i) /\ ~InService(i)'
<1>1. hpc = "idle"
  BY DEF At, Call, Caller, SemDown, SemTimeout, ReadStatus, ScanSkip, ScanTake, Looking, ScanNone,
         Clean, MaskRead, MaskWrite, Refuse, Register, Go, WaitDone, WaitLastLook, WaitExpire,
         WaitStatus, Release
<1>2. UNCHANGED irqVars
  BY DEF Call, Caller, SemDown, SemTimeout, ReadStatus, ScanSkip, ScanTake, Looking, ScanNone,
         Clean, MaskRead, MaskWrite, Refuse, Register, Go, WaitDone, WaitLastLook, WaitExpire,
         WaitStatus, Release
<1> QED
  BY <1>1, <1>2 DEF irqVars, HandlerInv, InService

(* What a caller leaves behind: a channel is quiet when its wait is over. *)
LEMMA ChanCaller ==
    ASSUME OneCore, OwnInv, NEW c \in Callers, Call(c) \/ Caller(c)
    PROVE  ChanInv'
<1>1. /\ hpc = "idle" /\ hpc' = hpc /\ hs' = hs /\ hcb' = hcb
      /\ \A i \in Channels : hs[i] = None /\ ~InService(i) /\ ~InService(i)'
  BY Frozen DEF OwnInv
<1> USE <1>1, NoneAssumption, NoneNumber DEF OwnInv, IInv, TypeOK, LocalInv, HolderInv,
        HandlerInv, ChannelHeldOnce, NumInv, ChanInv, CallerInv, Progress, Quiet, Waiting,
        Running, Pending, Served, Done, Outcomes, At, Goto, Return, hwVars, callVars, ghosts
<1>2. CASE Call(c)
  BY <1>2 DEF Call
<1>3. CASE SemDown(c)
  BY <1>3 DEF SemDown
<1>4. CASE SemTimeout(c)
  BY <1>4 DEF SemTimeout
<1>5. CASE ReadStatus(c)
  BY <1>5 DEF ReadStatus
<1>6. CASE ScanTake(c)
  BY <1>6 DEF ScanTake, Looking, Takeable
<1>19. CASE ScanSkip(c)
  BY <1>19 DEF ScanSkip, Looking
<1>7. CASE ScanNone(c)
  BY <1>7 DEF ScanNone
<1>8. CASE Clean(c)
  BY <1>8 DEF Clean
<1>9. CASE MaskRead(c)
  BY <1>9 DEF MaskRead
<1>10. CASE MaskWrite(c)
  BY <1>10 DEF MaskWrite
<1>11. CASE Refuse(c)
  BY <1>11 DEF Refuse
<1>12. CASE Register(c)
  BY <1>12 DEF Register
<1>13. CASE Go(c)
  BY <1>13 DEF Go
<1>14. CASE WaitDone(c)
  BY <1>14 DEF WaitDone
<1>15. CASE WaitLastLook(c)
  BY <1>15 DEF WaitLastLook
<1>16. CASE WaitExpire(c)
  BY <1>16 DEF WaitExpire
<1>17. CASE WaitStatus(c)
  BY <1>17 DEF WaitStatus
<1>18. CASE Release(c)
  BY <1>18 DEF Release
<1> QED
  BY <1>2, <1>3, <1>4, <1>5, <1>6, <1>7, <1>8, <1>9, <1>10, <1>11, <1>12, <1>13, <1>14, <1>15,
     <1>16, <1>17, <1>18, <1>19 DEF Caller

(* A caller moves along its own channel and disturbs no other. *)
LEMMA CallerCaller ==
    ASSUME OneCore, OwnInv, NEW c \in Callers, Call(c) \/ Caller(c)
    PROVE  CallerInv'
<1>1. /\ hpc = "idle" /\ hpc' = hpc /\ hs' = hs /\ hcb' = hcb
      /\ \A i \in Channels : hs[i] = None /\ ~InService(i) /\ ~InService(i)'
  BY Frozen DEF OwnInv
<1> USE <1>1, NoneAssumption, NoneNumber DEF OwnInv, IInv, TypeOK, LocalInv, HolderInv,
        HandlerInv, ChannelHeldOnce, NumInv, ChanInv, CallerInv, Progress, Quiet, Waiting,
        Running, Pending, Served, Done, Outcomes, At, Goto, Return, hwVars, callVars, ghosts
<1>2. CASE Call(c)
  BY <1>2 DEF Call
<1>3. CASE SemDown(c)
  BY <1>3 DEF SemDown
<1>4. CASE SemTimeout(c)
  BY <1>4 DEF SemTimeout
<1>5. CASE ReadStatus(c)
  BY <1>5 DEF ReadStatus
<1>6. CASE ScanTake(c)
  BY <1>6 DEF ScanTake, Looking, Takeable
<1>19. CASE ScanSkip(c)
  BY <1>19 DEF ScanSkip, Looking
<1>7. CASE ScanNone(c)
  BY <1>7 DEF ScanNone
<1>8. CASE Clean(c)
  BY <1>8 DEF Clean
<1>9. CASE MaskRead(c)
  BY <1>9 DEF MaskRead
<1>10. CASE MaskWrite(c)
  BY <1>10 DEF MaskWrite
<1>11. CASE Refuse(c)
  BY <1>11 DEF Refuse
<1>12. CASE Register(c)
  BY <1>12 DEF Register
<1>13. CASE Go(c)
  BY <1>13 DEF Go
<1>14. CASE WaitDone(c)
  BY <1>14 DEF WaitDone
<1>15. CASE WaitLastLook(c)
  BY <1>15 DEF WaitLastLook
<1>16. CASE WaitExpire(c)
  BY <1>16 DEF WaitExpire
<1>17. CASE WaitStatus(c)
  BY <1>17 DEF WaitStatus
<1>18. CASE Release(c)
  BY <1>18 DEF Release
<1> QED
  BY <1>2, <1>3, <1>4, <1>5, <1>6, <1>7, <1>8, <1>9, <1>10, <1>11, <1>12, <1>13, <1>14, <1>15,
     <1>16, <1>17, <1>18, <1>19 DEF Caller

(* The handler raises a flag only for a caller that waits. *)
LEMMA ChanIrq ==
    ASSUME OneCore, OwnInv, Irq
    PROVE  ChanInv'
<1>1. hpc # "idle" => Serving \in Channels /\ hs[Serving] # None
  BY ServingChannel DEF OwnInv, IInv
<1>2. hs' = hs => Serving' = Serving
  BY DEF Serving
<1> USE <1>1, <1>2, NoneAssumption, NoneNumber DEF OwnInv, IInv, TypeOK, LocalInv, HolderInv,
        HandlerInv, ChannelHeldOnce, NumInv, ChanInv, CallerInv, Progress, Quiet, Waiting,
        Running, Pending, Served, Done, Outcomes, At, Goto, Return, hwVars, callVars, ghosts,
        InService
<1>3. CASE IrqEnter
  BY <1>3 DEF IrqEnter, Raised
<1>4. CASE IrqClear
  BY <1>4 DEF IrqClear
<1>5. CASE IrqNoCallback
  BY <1>5 DEF IrqNoCallback, IrqNext
<1>6. CASE IrqSync
  BY <1>6 DEF IrqSync
<1>7. CASE IrqSyncStatus
  BY <1>7 DEF IrqSyncStatus
<1>8. CASE IrqAsync
  BY <1>8 DEF IrqAsync
<1>9. CASE IrqNull
  BY <1>9 DEF IrqNull, IrqNext
<1> QED
  BY <1>3, <1>4, <1>5, <1>6, <1>7, <1>8, <1>9 DEF Irq

(* The handler hands the outcome it has read to the caller that waits. *)
LEMMA CallerIrq ==
    ASSUME OneCore, OwnInv, Irq
    PROVE  CallerInv'
<1>1. hpc # "idle" => Serving \in Channels /\ hs[Serving] # None
  BY ServingChannel DEF OwnInv, IInv
<1>2. hs' = hs => Serving' = Serving
  BY DEF Serving
<1> USE <1>1, <1>2, NoneAssumption, NoneNumber DEF OwnInv, IInv, TypeOK, LocalInv, HolderInv,
        HandlerInv, ChannelHeldOnce, NumInv, ChanInv, CallerInv, Progress, Quiet, Waiting,
        Running, Pending, Served, Done, Outcomes, At, Goto, Return, hwVars, callVars, ghosts,
        InService
<1>3. CASE IrqEnter
  BY <1>3 DEF IrqEnter, Raised
<1>4. CASE IrqClear
  BY <1>4 DEF IrqClear
<1>5. CASE IrqNoCallback
  BY <1>5 DEF IrqNoCallback, IrqNext
<1>6. CASE IrqSync
  BY <1>6 DEF IrqSync
<1>7. CASE IrqSyncStatus
  BY <1>7 DEF IrqSyncStatus
<1>8. CASE IrqAsync
  BY <1>8 DEF IrqAsync
<1>9. CASE IrqNull
  BY <1>9 DEF IrqNull, IrqNext
<1> QED
  BY <1>3, <1>4, <1>5, <1>6, <1>7, <1>8, <1>9 DEF Irq

(* The controller: the completion is that of the caller that runs there. *)
LEMMA FinishStep ==
    ASSUME OwnInv, NEW i \in Channels, Finish(i)
    PROVE  ChanInv' /\ CallerInv'
<1> USE NoneAssumption, NoneNumber DEF OwnInv, IInv, TypeOK, LocalInv, HolderInv, HandlerInv,
        ChannelHeldOnce, NumInv, ChanInv, CallerInv, Progress, Quiet, Waiting, Running,
        Pending, Served, Done, Outcomes, At, Goto, Return, hwVars, callVars, ghosts
<1>1. UNCHANGED <<hpc, hs, hcb>> /\ \A j \in Channels : InService(j)' <=> InService(j)
  BY DEF Finish, irqVars, InService, Serving
<1>2. ChanInv'
  BY <1>1 DEF Finish
<1>3. CallerInv'
  <2> SUFFICES ASSUME NEW d \in Callers, NEW j \in Channels \ spoilt, chan[d] = j
               PROVE  Progress(d, j)'
    BY DEF Finish
  <2>1. UNCHANGED <<pc, kind, num, ret, cb, flag, status>>
    BY DEF Finish
  <2>2. CASE j = i
    <3>1. run[i] # None /\ run'[i] = None /\ pend'[i] \in Outcomes /\ pend[i] = None /\ hs[i] = None
      BY <2>2 DEF Finish
    <3>2. num[d] = run[i] /\ kind[d] = "sync" => outcome'[d] = pend'[i]
      BY DEF Finish
    <3>3. Progress(d, i)
      BY <2>2
    <3>4. ~InService(i)
      BY <3>1, ServingChannel DEF InService
    <3> HIDE DEF OwnInv
    <3> QED
      BY <1>1, <2>1, <2>2, <3>1, <3>2, <3>3, <3>4
  <2>3. CASE j # i
    <3>1. run'[j] = run[j] /\ pend'[j] = pend[j]
      BY <2>3 DEF Finish
    <3>2. outcome'[d] = outcome[d]
      BY <2>3 DEF Finish
    <3>3. Progress(d, j)
      OBVIOUS
    <3> HIDE DEF OwnInv
    <3> QED
      BY <1>1, <2>1, <3>1, <3>2, <3>3
  <2> QED
    BY <2>2, <2>3
<1> QED
  BY <1>2, <1>3

LEMMA InitOwn == Init => OwnInv
<1> SUFFICES ASSUME Init PROVE OwnInv
  OBVIOUS
<1> USE NoneAssumption, NoneNumber DEF Init
<1>1. HandlerInv
  BY DEF HandlerInv
<1>2. NumInv
  BY DEF NumInv
<1>3. HolderInv
  BY DEF HolderInv
<1>4. ChanInv
  BY DEF ChanInv, Quiet, InService
<1>5. CallerInv
  BY DEF CallerInv
<1> QED
  BY InitInv, <1>1, <1>2, <1>3, <1>4, <1>5 DEF OwnInv

LEMMA OwnStep ==
    ASSUME OneCore, OwnInv, [Next]_vars
    PROVE  OwnInv'
<1>1. IInv'
  BY TypeStep, LocalStep, SemStep, HeldStep DEF OwnInv, IInv
<1>2. HandlerInv' /\ NumInv' /\ HolderInv'
  BY HandlerStep, NumStep, HolderStep DEF OwnInv
<1>3. ChanInv' /\ CallerInv'
  <2>1. ASSUME NEW c \in Callers, Call(c) \/ Caller(c) PROVE ChanInv' /\ CallerInv'
    BY <2>1, ChanCaller, CallerCaller
  <2>2. ASSUME NEW i \in Channels, Finish(i) PROVE ChanInv' /\ CallerInv'
    BY <2>2, FinishStep
  <2>3. CASE Irq
    BY <2>3, ChanIrq, CallerIrq
  <2>4. CASE UNCHANGED vars
    BY <2>4 DEF OwnInv, vars, hwVars, irqVars, callVars, ghosts, ChanInv, CallerInv, Progress,
       Quiet, Waiting,
                Running, Pending, Served, Done, InService, Serving
  <2> QED
    BY <2>1, <2>2, <2>3, <2>4, StepCases
<1> QED
  BY <1>1, <1>2, <1>3 DEF OwnInv

(* When the interrupt stops the callers, a synchronous call of dmac.c      *)
(* reports how its own transfer ended, for any callers and channels, on    *)
(* every channel on which no wait has expired and that was not taken while *)
(* a transfer was running: flag, status, callback and pending bits of an   *)
(* earlier or of another transfer never reach it.                          *)
THEOREM OwnResult ==
    ASSUME OneCore
    PROVE  Spec => []SyncOwnResult
<1>1. OwnInv /\ [Next]_vars => OwnInv'
  BY OwnStep
<1>2. OwnInv => SyncOwnResult
  BY NoneAssumption DEF OwnInv, IInv, LocalInv, CallerInv, Progress, SyncOwnResult
<1> QED
  BY InitOwn, <1>1, <1>2, PTL DEF Spec
=============================================================================
