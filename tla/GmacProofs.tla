----------------------------- MODULE GmacProofs -----------------------------
(***************************************************************************)
(* Proofs about Gmac for any rings, packets, senders and bounds.           *)
(***************************************************************************)
EXTENDS GmacTxProofs, WellFoundedInduction

-----------------------------------------------------------------------------
(* Interrupts on one CPU. *)

(* The work that will enable the interrupt again. *)
RxWork == \/ napi = "sched" \/ rpc # "idle"
          \/ isr \in {"clear", "proc"} /\ Source = "rx"
TxWork == \/ tsched \/ tpc # "idle"
          \/ isr \in {"clear", "proc"} /\ Source = "tx"

(* The handler's copy of the mask is up to date; what a poll in its loop   *)
(* and an open device say about NAPI; and no masked source without work.   *)
IrqInv ==
    /\ isr \in {"idle", "read", "mask", "clear", "proc", "unmask"}
    /\ src \in 1 .. 6 /\ icpu \in Cpus /\ tcpu \in Cpus /\ ncpu \in Cpus
    /\ isr \in {"clear", "proc", "unmask"} => src \in 1 .. 5
    /\ isr \notin {"idle", "read"} => imask = mask
    /\ isr = "unmask" => Source \in Errors
    /\ rpc \in {"idle", "loop", "fill", "break", "unmask"}
    /\ rpc \in {"loop", "fill", "break"} => napi = "sched"
    /\ apc \in {"up", "o_hw"} => /\ napi # "off"
                                 /\ "rx" \in mask \/ RxWork
                                 /\ "tx" \in mask \/ TxWork
    /\ apc \in {"o_read", "o_write"} => napi # "off"
    /\ apc = "down" => napi = "off"
    /\ napi \in {"off", "idle", "sched"}

LEMMA SourceList ==
    Sources = <<"txErr", "tx", "drop", "rx", "rxErr">> /\ Len(Sources) = 5
BY DEF Sources

LEMMA MinInSet ==
    ASSUME NEW S \in SUBSET Nat, S # {}
    PROVE  Min(S) \in S
<1>1. PICK x \in S : \A y \in S : ~(<<y, x>> \in OpToRel(<, Nat))
  BY NatLessThanWellFounded, WFMin
<1>2. \A y \in S : ~(y < x)
  BY <1>1 DEF OpToRel
<1>3. \A y \in S : x <= y
  BY <1>2
<1> QED
  BY <1>3 DEF Min

LEMMA IrqInit == Init => IrqInv
BY GmacAssumption DEF Init, TxInit, RxInit, IrqInv

LEMMA IrqStep ==
    ASSUME \A c, d \in Cpus : c = d, IrqInv, [Next]_vars
    PROVE  IrqInv'
<1> USE DEF isrVars, softVars, admVars, envVars, txVars, rxVars
<1>1. CASE Isr
  <2> USE SourceList DEF IrqInv, RxWork, TxWork, Source, Errors
  <2>1. CASE IsrEnter
    BY <2>1, GmacAssumption DEF IsrEnter
  <2>9. CASE IsrRead
    BY <2>9 DEF IsrRead
  <2>2. CASE IsrReturn
    BY <2>2 DEF IsrReturn
  <2>3. CASE IsrMask
    <3>1. Pending \in SUBSET Nat /\ Pending # {} /\ Pending \subseteq 1 .. 5
      BY <2>3 DEF IsrMask, Pending
    <3>2. src' \in 1 .. 5
      BY <2>3, <3>1, MinInSet DEF IsrMask
    <3>3. /\ mask' = mask \ {Source'} /\ imask' = mask' /\ isr' = "clear"
          /\ UNCHANGED <<tsched, napi, rpc, tpc, apc, icpu, tcpu, ncpu>>
      BY <2>3 DEF IsrMask
    <3>4. isr \notin {"clear", "proc"}
      BY <2>3 DEF IsrMask
    <3> QED
      BY <3>2, <3>3, <3>4
  <2>4. CASE IsrClear
    BY <2>4 DEF IsrClear
  <2>5. CASE IsrProcTx
    BY <2>5 DEF IsrProcTx
  <2>6. CASE IsrProcRx
    BY <2>6 DEF IsrProcRx, NapiSchedule
  <2>7. CASE IsrProcErr
    BY <2>7 DEF IsrProcErr
  <2>8. CASE IsrUnmask
    BY <2>8 DEF IsrUnmask
  <2> QED
    BY <1>1, <2>1, <2>2, <2>3, <2>4, <2>5, <2>6, <2>7, <2>8, <2>9 DEF Isr
<1>2. Runs(Cpus) \/ Runs({tcpu}) \/ Runs({ncpu}) => isr = "idle"
  BY DEF Runs, IrqInv
<1>3. CASE Tasklet
  <2> USE <1>2 DEF IrqInv, RxWork, TxWork, Source
  <2>1. CASE TaskletBegin
    BY <2>1 DEF TaskletBegin, TaskCount
  <2>2. CASE TaskletStep
    <3>1. tpc # "idle" /\ tpc' # "idle"
      BY <2>2 DEF TaskletStep, TaskNum, TaskDeque, TaskStop, TaskPut, TaskFree
    <3> QED
      BY <2>2, <3>1 DEF TaskletStep
  <2>3. CASE TaskletEnd
    BY <2>3 DEF TaskletEnd
  <2> QED
    BY <1>3, <2>1, <2>2, <2>3 DEF Tasklet
<1>4. CASE Napi
  <2> USE <1>2 DEF IrqInv, RxWork, TxWork, Source
  <2>1. CASE NapiBegin
    BY <2>1 DEF NapiBegin, PollStart
  <2>2. CASE NapiStep
    <3>1. rpc \in {"loop", "fill"} /\ rpc' \in {"idle", "loop", "fill", "break"}
      BY <2>2 DEF NapiStep, PollNull, PollDeliver, PollReuse, PollBreak, PollFill,
                  PollNoMem, Advance
    <3> QED
      BY <2>2, <3>1 DEF NapiStep, Reported
  <2>3. CASE NapiComplete
    BY <2>3 DEF NapiComplete, PollComplete
  <2>4. CASE NapiEnd
    BY <2>4 DEF NapiEnd, PollUnmask
  <2> QED
    BY <1>4, <2>1, <2>2, <2>3, <2>4 DEF Napi
<1>5. CASE Admin
  <2> USE <1>2 DEF IrqInv, RxWork, TxWork, Source, Adm
  <2>1. CASE Open
    BY <2>1 DEF Open
  <2>2. CASE OpenRead
    BY <2>2 DEF OpenRead
  <2>3. CASE OpenWrite
    <3>1. "rx" \in Bits /\ "tx" \in Bits
      BY SourceList DEF Bits, ToSet
    <3> QED
      BY <2>3, <3>1 DEF OpenWrite
  <2>4. CASE OpenEnd
    BY <2>4 DEF OpenEnd
  <2>5. CASE Stop
    BY <2>5 DEF Stop
  <2>6. CASE StopRead
    BY <2>6 DEF StopRead
  <2>7. CASE StopWrite
    BY <2>7 DEF StopWrite
  <2>8. CASE StopTasklet
    BY <2>8 DEF StopTasklet
  <2>9. CASE StopTaskletWait
    BY <2>9 DEF StopTaskletWait
  <2>10. CASE StopNapi
    BY <2>10 DEF StopNapi
  <2> QED
    BY <1>5, <2>1, <2>2, <2>3, <2>4, <2>5, <2>6, <2>7, <2>8, <2>9, <2>10 DEF Admin
<1>6. ASSUME NEW s \in Senders, Xmit(s) PROVE IrqInv'
  <2>1. UNCHANGED <<taskVars, rxVars, mask, isrVars, softVars, admVars>>
    BY <1>6 DEF Xmit, XmitCall, XmitDrop, XmitMap, XmitNoNode, XmitAcquire, XmitEnque,
                XmitChipFull, XmitUndo
  <2> QED
    BY <2>1 DEF IrqInv, RxWork, TxWork, Source, taskVars
<1>7. CASE ChipFetch \/ ChipDone \/ ChipStore \/ ChipError
  <2>1. UNCHANGED <<tpc, rpc, mask, isrVars, softVars, admVars>>
    BY <1>7 DEF ChipFetch, ChipDone, ChipStore, ChipError, Raise, TxFetch, TxDone, RxArrive,
                taskVars
  <2> QED
    BY <2>1 DEF IrqInv, RxWork, TxWork, Source
<1>8. CASE UNCHANGED vars
  BY <1>8 DEF vars, IrqInv, RxWork, TxWork, Source
<1> QED
  BY <1>1, <1>3, <1>4, <1>5, <1>6, <1>7, <1>8 DEF Next

(* On one CPU the interrupt masks are never lost: whatever order the        *)
(* handler, the tasklet, the poll, gmac_open and gmac_stop run in, an       *)
(* open device with no work pending has its interrupts enabled.             *)
THEOREM IrqEnabledOneCpu ==
    ASSUME \A c, d \in Cpus : c = d
    PROVE  Spec => []IrqEnabled
<1>1. IrqInv /\ [Next]_vars => IrqInv'
  BY IrqStep
<1>2. IrqInv => IrqEnabled
  BY DEF IrqInv, IrqEnabled, RxWork, TxWork
<1> QED
  BY IrqInit, <1>1, <1>2, PTL DEF Spec

-----------------------------------------------------------------------------
(* The receive ring. *)

LEMMA RxSizes == RingSize \in Nat \ {0} /\ Budget \in Nat \ {0} /\ MaxNoMem \in Nat
BY GmacRxAssumption

LEMMA RingMod ==
    ASSUME NEW x \in Nat, x < 2 * RingSize
    PROVE  x % RingSize = IF x < RingSize THEN x ELSE x - RingSize
<1> USE RxSizes
<1>1. CASE x < RingSize
  BY <1>1, Z3
<1>2. CASE ~(x < RingSize)
  BY <1>2, Z3
<1> QED
  BY <1>1, <1>2

(* The slot i places after slot c, without the remainder. *)
After(c, i) == IF c + i < RingSize THEN c + i ELSE c + i - RingSize

LEMMA AfterValue ==
    ASSUME NEW c \in Slots, NEW i \in 0 .. RingSize
    PROVE  (c + i) % RingSize = After(c, i) /\ After(c, i) \in Slots
<1> DEFINE x == c + i
<1>1. x \in Nat /\ x < 2 * RingSize
  BY RxSizes DEF Slots
<1> HIDE DEF x
<1>2. x % RingSize = IF x < RingSize THEN x ELSE x - RingSize
  BY <1>1, RingMod
<1> QED
  BY <1>1, <1>2, RxSizes DEF x, After, Slots

(* The order in which the slots are visited, from slot c. *)
LEMMA VisitValue ==
    ASSUME rxCurr \in Slots
    PROVE  /\ \A i \in 1 .. RingSize : Visit[i] = After(rxCurr, i - 1) /\ Visit[i] \in Slots
           /\ Visit[1] = rxCurr
           /\ \A i, j \in 1 .. RingSize : Visit[i] = Visit[j] => i = j
<1>1. ASSUME NEW i \in 1 .. RingSize
      PROVE  Visit[i] = After(rxCurr, i - 1) /\ After(rxCurr, i - 1) \in Slots
  <2>1. i - 1 \in 0 .. RingSize /\ rxCurr + i - 1 = rxCurr + (i - 1)
    BY RxSizes DEF Slots
  <2>2. (rxCurr + (i - 1)) % RingSize = After(rxCurr, i - 1) /\ After(rxCurr, i - 1) \in Slots
    BY <2>1, AfterValue
  <2> QED
    BY <2>1, <2>2 DEF Visit
<1>2. Visit[1] = rxCurr
  <2>1. 1 \in 1 .. RingSize
    BY RxSizes
  <2>2. Visit[1] = After(rxCurr, 0)
    BY <1>1, <2>1
  <2> QED
    BY <2>2, RxSizes DEF After, Slots
<1>3. ASSUME NEW i \in 1 .. RingSize, NEW j \in 1 .. RingSize, Visit[i] = Visit[j]
      PROVE  i = j
  BY <1>1, <1>3, RxSizes DEF After, Slots
<1> QED
  BY <1>1, <1>2, <1>3

(* When the driver goes on, every slot is one place nearer and the one it  *)
(* leaves is the last.                                                     *)
LEMMA VisitNext ==
    ASSUME rxCurr \in Slots, rxCurr' = Next1(rxCurr)
    PROVE  /\ rxCurr' \in Slots
           /\ \A i \in 1 .. RingSize - 1 : Visit'[i] = Visit[i + 1]
           /\ Visit'[RingSize] = rxCurr
<1>1. rxCurr' = After(rxCurr, 1) /\ rxCurr' \in Slots
  <2>1. 1 \in 0 .. RingSize
    BY RxSizes
  <2> QED
    BY <2>1, AfterValue DEF Next1
<1>2. \A i \in 1 .. RingSize : Visit'[i] = After(rxCurr', i - 1)
  <2> SUFFICES ASSUME NEW i \in 1 .. RingSize PROVE Visit'[i] = After(rxCurr', i - 1)
    OBVIOUS
  <2>1. i - 1 \in 0 .. RingSize /\ rxCurr' + i - 1 = rxCurr' + (i - 1)
    BY <1>1, RxSizes DEF Slots
  <2>2. (rxCurr' + (i - 1)) % RingSize = After(rxCurr', i - 1)
    BY <1>1, <2>1, AfterValue
  <2> QED
    BY <2>1, <2>2 DEF Visit
<1>3. ASSUME NEW i \in 1 .. RingSize - 1 PROVE Visit'[i] = Visit[i + 1]
  <2>1. i \in 1 .. RingSize /\ i + 1 \in 1 .. RingSize
    BY RxSizes
  <2>2. Visit[i + 1] = After(rxCurr, i)
    BY <2>1, VisitValue, RxSizes
  <2>3. After(After(rxCurr, 1), i - 1) = After(rxCurr, i)
    BY <2>1, RxSizes DEF After, Slots
  <2> QED
    BY <1>1, <1>2, <2>1, <2>2, <2>3
<1>4. Visit'[RingSize] = rxCurr
  <2>1. Visit'[RingSize] = After(After(rxCurr, 1), RingSize - 1)
    BY <1>1, <1>2, RxSizes
  <2> QED
    BY <2>1, RxSizes DEF After, Slots
<1> QED
  BY <1>1, <1>3, <1>4

(* The types that the argument needs. *)
RxTypes ==
    /\ ring \in [Slots -> {"null", "empty", "good", "bad"}] /\ rxCurr \in Slots
    /\ rxFifo \in Seq(Slots)
    /\ rpc \in {"idle", "loop", "fill", "break", "unmask"}
    /\ done \in 0 .. Budget - 1 /\ noMem \in 0 .. MaxNoMem

(* The inductive invariant: the slot that is to be filled has no buffer,   *)
(* so that the chip does not write into it meanwhile.                      *)
FillInv == rpc = "fill" => ring[rxCurr] = "null"

RxInv == RxTypes /\ FillInv /\ RingInOrder

(* What a step of the whole driver does to the receive half. *)
LEMMA RxCases ==
    ASSUME [Next]_vars
    PROVE  \/ PollStart \/ PollNull \/ PollDeliver \/ PollReuse \/ PollBreak \/ PollFill
           \/ PollNoMem \/ PollComplete \/ PollUnmask
           \/ \E kind \in {"good", "bad"} : RxArrive(kind)
           \/ UNCHANGED rxVars
<1>1. CASE Isr
  BY <1>1 DEF Isr, IsrEnter, IsrRead, IsrReturn, IsrMask, IsrClear, IsrProcTx, IsrProcRx, IsrProcErr,
              IsrUnmask
<1>2. CASE Tasklet
  BY <1>2 DEF Tasklet, TaskletBegin, TaskletStep, TaskletEnd
<1>3. CASE Napi
  BY <1>3 DEF Napi, NapiBegin, NapiStep, NapiComplete, NapiEnd
<1>4. CASE Admin
  BY <1>4 DEF Admin, Open, OpenRead, OpenWrite, OpenEnd, Stop, StopRead, StopWrite,
              StopTasklet, StopTaskletWait, StopNapi
<1>5. CASE \E s \in Senders : Xmit(s)
  BY <1>5 DEF Xmit
<1>6. CASE ChipFetch \/ ChipDone \/ ChipStore \/ ChipError
  BY <1>6 DEF ChipFetch, ChipDone, ChipStore, ChipError
<1>7. CASE UNCHANGED vars
  BY <1>7 DEF vars
<1> QED
  BY <1>1, <1>2, <1>3, <1>4, <1>5, <1>6, <1>7 DEF Next

(* The parts of RingInOrder, with the number of slots that are not empty. *)
InOrder(full) ==
    /\ full \in 0 .. RingSize /\ Len(rxFifo) = RingSize - full
    /\ \A i \in 1 .. RingSize : ring[Visit[i]] = "empty" <=> i > full
    /\ \A i \in 1 .. Len(rxFifo) : rxFifo[i] = Visit[full + i]
    /\ \A i \in 2 .. RingSize : ring[Visit[i]] # "null"

LEMMA InOrderValue ==
    ASSUME RxTypes, RingInOrder
    PROVE  \E full \in 0 .. RingSize : InOrder(full)
<1>1. Len(rxFifo) \in Nat
  BY DEF RxTypes
<1>2. RingSize - Len(rxFifo) \in 0 .. RingSize
  BY <1>1, RxSizes DEF RingInOrder
<1>3. InOrder(RingSize - Len(rxFifo))
  BY <1>1, <1>2, RxSizes DEF RingInOrder, InOrder
<1> QED
  BY <1>2, <1>3

LEMMA InOrderNext ==
    ASSUME RxTypes', NEW full \in 0 .. RingSize, InOrder(full)'
    PROVE  RingInOrder'
<1>1. Len(rxFifo') \in Nat
  BY DEF RxTypes
<1>2. full = RingSize - Len(rxFifo') /\ Len(rxFifo') <= RingSize
  BY <1>1, RxSizes DEF InOrder
<1> QED
  BY <1>2 DEF RingInOrder, InOrder

(* The current slot, which is not empty, is given to the chip and left. *)
LEMMA GiveStep ==
    ASSUME RxTypes, NEW full \in 0 .. RingSize, InOrder(full), ring[rxCurr] # "empty",
           ring' = [ring EXCEPT ![rxCurr] = "empty"], GiveToChip, rxCurr' = Next1(rxCurr)
    PROVE  full - 1 \in 0 .. RingSize /\ InOrder(full - 1)'
<1> USE RxSizes
<1>1. /\ \A i \in 1 .. RingSize : Visit[i] \in Slots
      /\ Visit[1] = rxCurr
      /\ \A i, j \in 1 .. RingSize : Visit[i] = Visit[j] => i = j
  BY VisitValue DEF RxTypes
<1>2. /\ \A i \in 1 .. RingSize - 1 : Visit'[i] = Visit[i + 1]
      /\ Visit'[RingSize] = rxCurr
  BY VisitNext DEF RxTypes
<1>3. full >= 1
  BY <1>1 DEF InOrder
<1>4. /\ Len(rxFifo) \in Nat /\ Len(rxFifo') = Len(rxFifo) + 1
      /\ \A i \in 1 .. Len(rxFifo) : rxFifo'[i] = rxFifo[i]
      /\ rxFifo'[Len(rxFifo) + 1] = rxCurr
  BY DEF RxTypes, GiveToChip
<1>5. ring'[rxCurr] = "empty" /\ \A s \in Slots : s # rxCurr => ring'[s] = ring[s]
  BY DEF RxTypes
<1>6. \A i \in 1 .. RingSize - 1 : ring'[Visit'[i]] = ring[Visit[i + 1]]
  BY <1>1, <1>2, <1>5
<1>7. \A i \in 1 .. RingSize : ring'[Visit'[i]] = "empty" <=> i > full - 1
  <2> SUFFICES ASSUME NEW i \in 1 .. RingSize
               PROVE  ring'[Visit'[i]] = "empty" <=> i > full - 1
    OBVIOUS
  <2>1. CASE i = RingSize
    BY <1>2, <1>5, <2>1
  <2>2. CASE i # RingSize
    <3>1. i \in 1 .. RingSize - 1 /\ i + 1 \in 1 .. RingSize
      BY <2>2
    <3>2. ring[Visit[i + 1]] = "empty" <=> i + 1 > full
      BY <3>1 DEF InOrder
    <3> QED
      BY <1>6, <3>1, <3>2
  <2> QED
    BY <2>1, <2>2
<1>8. \A i \in 1 .. Len(rxFifo') : rxFifo'[i] = Visit'[full - 1 + i]
  <2> SUFFICES ASSUME NEW i \in 1 .. Len(rxFifo') PROVE rxFifo'[i] = Visit'[full - 1 + i]
    OBVIOUS
  <2>1. Len(rxFifo) = RingSize - full
    BY DEF InOrder
  <2>2. CASE i = Len(rxFifo) + 1
    <3>1. full - 1 + i = RingSize
      BY <1>4, <2>1, <2>2
    <3> QED
      BY <1>2, <1>4, <2>2, <3>1
  <2>3. CASE i # Len(rxFifo) + 1
    <3>1. i \in 1 .. Len(rxFifo) /\ full - 1 + i \in 1 .. RingSize - 1
      BY <1>3, <1>4, <2>1, <2>3
    <3>2. rxFifo[i] = Visit[full + i]
      BY <3>1 DEF InOrder
    <3>3. Visit'[full - 1 + i] = Visit[full + i]
      BY <1>2, <3>1
    <3> QED
      BY <1>4, <3>1, <3>2, <3>3
  <2> QED
    BY <2>2, <2>3
<1>9. \A i \in 2 .. RingSize : ring'[Visit'[i]] # "null"
  <2> SUFFICES ASSUME NEW i \in 2 .. RingSize PROVE ring'[Visit'[i]] # "null"
    OBVIOUS
  <2>1. CASE i = RingSize
    BY <1>2, <1>5, <2>1
  <2>2. CASE i # RingSize
    <3>1. i \in 1 .. RingSize - 1 /\ i + 1 \in 2 .. RingSize
      BY <2>2
    <3> QED
      BY <1>6, <3>1 DEF InOrder
  <2> QED
    BY <2>1, <2>2
<1>10. full - 1 \in 0 .. RingSize /\ Len(rxFifo') = RingSize - (full - 1)
  BY <1>3, <1>4 DEF InOrder
<1> QED
  BY <1>7, <1>8, <1>9, <1>10 DEF InOrder

(* The chip fills the first slot of its FIFO, which is empty. *)
LEMMA ArriveStep ==
    ASSUME RxTypes, NEW full \in 0 .. RingSize, InOrder(full),
           NEW kind \in {"good", "bad"}, RxArrive(kind)
    PROVE  full + 1 \in 0 .. RingSize /\ InOrder(full + 1)' /\ ring[Head(rxFifo)] = "empty"
<1> USE RxSizes
<1>1. /\ \A i \in 1 .. RingSize : Visit[i] \in Slots
      /\ \A i, j \in 1 .. RingSize : Visit[i] = Visit[j] => i = j
  BY VisitValue DEF RxTypes
<1>2. Visit' = Visit
  BY DEF RxArrive, Visit
<1>3. /\ Len(rxFifo) \in Nat \ {0} /\ Len(rxFifo') = Len(rxFifo) - 1
      /\ \A i \in 1 .. Len(rxFifo) - 1 : rxFifo'[i] = rxFifo[i + 1]
      /\ Head(rxFifo) = rxFifo[1] /\ rxFifo' \in Seq(Slots)
  BY DEF RxTypes, RxArrive
<1>4. full + 1 \in 1 .. RingSize /\ Len(rxFifo') = RingSize - (full + 1)
  BY <1>3 DEF InOrder
<1>5. Head(rxFifo) = Visit[full + 1]
  BY <1>3 DEF InOrder
<1>6. /\ ring'[Visit[full + 1]] = kind
      /\ \A i \in 1 .. RingSize : i # full + 1 => ring'[Visit[i]] = ring[Visit[i]]
  <2> DEFINE h == Head(rxFifo)
  <2>1. ring' = [ring EXCEPT ![h] = kind] /\ h \in Slots
    BY <1>1, <1>4, <1>5 DEF RxArrive
  <2> HIDE DEF h
  <2>2. ring'[h] = kind /\ \A s \in Slots : s # h => ring'[s] = ring[s]
    BY <2>1 DEF RxTypes
  <2> QED
    BY <1>1, <1>4, <1>5, <2>2 DEF h
<1>7. \A i \in 1 .. RingSize : ring'[Visit'[i]] = "empty" <=> i > full + 1
  <2> SUFFICES ASSUME NEW i \in 1 .. RingSize
               PROVE  ring'[Visit[i]] = "empty" <=> i > full + 1
    BY <1>2
  <2>1. CASE i = full + 1
    BY <1>6, <2>1
  <2>2. CASE i # full + 1
    <3>1. ring[Visit[i]] = "empty" <=> i > full
      BY DEF InOrder
    <3> QED
      BY <1>6, <2>2, <3>1
  <2> QED
    BY <2>1, <2>2
<1>8. ASSUME NEW i \in 1 .. Len(rxFifo') PROVE rxFifo'[i] = Visit'[full + 1 + i]
  <2>1. i \in 1 .. Len(rxFifo) - 1 /\ i + 1 \in 1 .. Len(rxFifo)
    BY <1>3
  <2>2. rxFifo[i + 1] = Visit[full + (i + 1)] /\ full + (i + 1) = full + 1 + i
    BY <2>1 DEF InOrder
  <2> QED
    BY <1>2, <1>3, <2>1, <2>2
<1>9. ASSUME NEW i \in 2 .. RingSize PROVE ring'[Visit'[i]] # "null"
  <2>1. CASE i = full + 1
    BY <1>2, <1>6, <2>1
  <2>2. CASE i # full + 1
    BY <1>2, <1>6, <2>2 DEF InOrder
  <2> QED
    BY <2>1, <2>2
<1>10. ring[Head(rxFifo)] = "empty"
  <2>1. ring[Visit[full + 1]] = "empty"
    BY <1>4 DEF InOrder
  <2> QED
    BY <1>5, <2>1
<1> QED
  BY <1>4, <1>7, <1>8, <1>9, <1>10 DEF InOrder

LEMMA RxInitInv == Init => RxInv
<1> SUFFICES ASSUME Init PROVE RxInv
  OBVIOUS
<1> USE RxSizes DEF Init, RxInit, AllFilled
<1>1. /\ rxFifo \in Seq(Slots) /\ Len(rxFifo) = RingSize
      /\ \A i \in 1 .. RingSize : rxFifo[i] = i - 1
  BY DEF Slots
<1>2. RxTypes
  BY <1>1 DEF RxTypes, Slots
<1>3. \A i \in 1 .. RingSize : Visit[i] = i - 1 /\ Visit[i] \in Slots
  <2>1. \A i \in 1 .. RingSize : Visit[i] = After(0, i - 1) /\ Visit[i] \in Slots
    BY <1>2, VisitValue DEF RxTypes
  <2> QED
    BY <2>1 DEF After
<1>4. \A i \in 1 .. RingSize : ring[Visit[i]] = "empty"
  BY <1>3
<1>5. RingInOrder
  BY <1>1, <1>3, <1>4 DEF RingInOrder
<1> QED
  BY <1>2, <1>5 DEF RxInv, FillInv

LEMMA RxStep == RxInv /\ [Next]_vars => RxInv'
<1> SUFFICES ASSUME RxInv, [Next]_vars PROVE RxInv'
  OBVIOUS
<1> USE RxSizes
<1>1. RxTypes /\ FillInv /\ RingInOrder
  BY DEF RxInv
<1>2. PICK full \in 0 .. RingSize : InOrder(full)
  BY <1>1, InOrderValue
(* Steps that leave the ring alone. *)
<1>3. ASSUME UNCHANGED <<ring, rxCurr, rxFifo>> PROVE RingInOrder'
  BY <1>1, <1>3 DEF RingInOrder, Visit
<1>4. CASE PollStart \/ PollNull \/ PollBreak \/ PollNoMem \/ PollComplete \/ PollUnmask
           \/ UNCHANGED rxVars
  <2> USE <1>1, <1>4 DEF PollStart, PollNull, PollBreak, PollNoMem, PollComplete, PollUnmask,
                         rxVars
  <2>1. RingInOrder'
    BY <1>3
  <2>2. RxTypes'
    BY DEF RxTypes
  <2>3. FillInv'
    BY DEF FillInv
  <2> QED
    BY <2>1, <2>2, <2>3 DEF RxInv
<1>5. CASE PollDeliver
  <2>1. RxTypes'
    BY <1>1, <1>5 DEF PollDeliver, RxTypes
  <2>2. FillInv'
    BY <1>1, <1>5 DEF PollDeliver, RxTypes, FillInv
  <2>3. /\ \A i \in 1 .. RingSize : Visit[i] \in Slots
        /\ Visit[1] = rxCurr /\ Visit' = Visit
        /\ \A i, j \in 1 .. RingSize : Visit[i] = Visit[j] => i = j
    BY <1>1, <1>5, VisitValue DEF PollDeliver, RxTypes, Visit
  <2>4. /\ ring[rxCurr] = "good" /\ ring'[rxCurr] = "null" /\ rxFifo' = rxFifo
        /\ \A s \in Slots : s # rxCurr => ring'[s] = ring[s]
    BY <1>1, <1>5 DEF PollDeliver, RxTypes
  <2>5. \A i \in 2 .. RingSize : ring'[Visit[i]] = ring[Visit[i]]
    BY <2>3, <2>4
  <2>6. ring[Visit[1]] # "empty" /\ ring'[Visit[1]] # "empty"
    BY <2>3, <2>4
  <2>7. \A i \in 1 .. RingSize : ring'[Visit[i]] = "empty" <=> ring[Visit[i]] = "empty"
    BY <2>5, <2>6
  <2>8. InOrder(full)'
    BY <1>2, <2>3, <2>4, <2>5, <2>7 DEF InOrder
  <2>9. RingInOrder'
    BY <2>1, <2>8, InOrderNext
  <2> QED
    BY <2>1, <2>2, <2>9 DEF RxInv
<1>6. CASE PollReuse \/ PollFill
  <2>1. /\ ring[rxCurr] # "empty" /\ GiveToChip /\ Advance
        /\ ring' = [ring EXCEPT ![rxCurr] = "empty"]
    BY <1>1, <1>6 DEF PollReuse, PollFill, FillInv
  <2>2. rxCurr' \in Slots
    BY <1>1, <2>1, VisitNext DEF Advance, RxTypes
  <2>3. rxFifo' \in Seq(Slots)
    BY <1>1, <2>1 DEF GiveToChip, RxTypes
  <2>4. RxTypes'
    BY <1>1, <1>6, <2>1, <2>2, <2>3 DEF RxTypes, Advance, PollReuse, PollFill
  <2>5. FillInv'
    BY <2>1 DEF Advance, FillInv
  <2>6. full - 1 \in 0 .. RingSize /\ InOrder(full - 1)'
    BY <1>1, <1>2, <2>1, GiveStep DEF Advance
  <2> QED
    BY <2>4, <2>5, <2>6, InOrderNext DEF RxInv
<1>7. ASSUME NEW kind \in {"good", "bad"}, RxArrive(kind) PROVE RxInv'
  <2>1. full + 1 \in 0 .. RingSize /\ InOrder(full + 1)' /\ ring[Head(rxFifo)] = "empty"
    BY <1>1, <1>2, <1>7, ArriveStep
  <2>2. RxTypes'
    BY <1>1, <1>7 DEF RxTypes, RxArrive
  <2>3. FillInv'
    BY <1>1, <1>7, <2>1 DEF FillInv, RxArrive, RxTypes
  <2> QED
    BY <2>1, <2>2, <2>3, InOrderNext DEF RxInv
<1> QED
  BY <1>4, <1>5, <1>6, <1>7, RxCases

(* Driver and chip agree on the order of the receive ring of eth_rx.c, for *)
(* any size of the ring and any budget: the chip fills exactly the empty   *)
(* slots, in the order in which the poll will look at them, also after     *)
(* failed allocations, refused packets, stops and restarts.                *)
THEOREM RingCorrect == Spec => []RingInOrder
<1>1. RxInv => RingInOrder
  BY DEF RxInv
<1> QED
  BY RxInitInv, RxStep, <1>1, PTL DEF Spec

-----------------------------------------------------------------------------
(* Types.  The parts of TypeOK: *)

MaskType ==
    /\ mask \subseteq Bits /\ stat \subseteq Bits /\ imask \subseteq Bits
    /\ istat \subseteq Bits /\ amask \subseteq Bits

(* the handler is past the table of sources only when it is about to       *)
(* return,                                                                 *)
IsrType ==
    /\ isr \in {"idle", "read", "mask", "clear", "proc", "unmask"} /\ src \in 1 .. Len(Sources) + 1
    /\ isr \in {"clear", "proc", "unmask"} => src \in 1 .. Len(Sources)

FlagType == {tsched, tdis, missed, opened, hwOn} \subseteq BOOLEAN

CpuType == icpu \in IrqCpus /\ tcpu \in IrqCpus /\ ncpu \in IrqCpus

PlaceType ==
    /\ napi \in {"off", "idle", "sched"}
    /\ apc \in {"up", "s_read", "s_write", "s_tasklet", "s_run", "s_napi",
                "down", "o_read", "o_write", "o_hw"}

EnvType ==
    /\ work \in 0 .. MaxWork /\ errs \in 0 .. MaxFault /\ stops \in 0 .. MaxFault

(* and the chip and the tasklet count no more descriptors than there are   *)
(* nodes, which needs the conservation of nodes.                           *)
TxBounds == Len(fifo) <= FifoMax /\ limit <= Cardinality(Nodes)

(* The inductive invariant. *)
TypeInv ==
    /\ TxInv /\ NodesCovered /\ RxInv /\ TxBounds
    /\ MaskType /\ IsrType /\ FlagType /\ CpuType /\ PlaceType /\ EnvType

LEMMA BitNames == {"tx", "rx"} \cup Errors \subseteq Bits /\ \A i \in 1 .. 5 : Sources[i] \in Bits
BY SourceList DEF Bits, ToSet, Errors

LEMMA EnvBounds == MaxWork \in Nat /\ MaxFault \in Nat
BY GmacAssumption

LEMMA TypeInitInv == Init => TypeInv
<1> SUFFICES ASSUME Init PROVE TypeInv
  OBVIOUS
<1>1. TxBounds
  <2>1. Cardinality(Nodes) \in Nat /\ Cardinality(Nodes) # 0
    BY GmacTxAssumption, FS_CardinalityType, FS_EmptySet
  <2> QED
    BY <2>1 DEF Init, TxInit, TxBounds, FifoMax
<1>2. MaskType /\ IsrType
  BY SourceList DEF Init, MaskType, IsrType
<1>3. FlagType
  BY DEF Init, FlagType
<1>4. CpuType /\ PlaceType /\ EnvType
  BY EnvBounds DEF Init, CpuType, PlaceType, EnvType
<1> QED
  BY <1>1, <1>2, <1>3, <1>4, TxInitInv, CoveredInit, RxInitInv DEF TypeInv

(* The registers hold only bits of the table of sources. *)
LEMMA MaskStep == MaskType /\ IsrType /\ [Next]_vars => MaskType'
<1> SUFFICES ASSUME MaskType /\ IsrType, [Next]_vars PROVE MaskType'
  OBVIOUS
<1> USE BitNames, SourceList DEF MaskType, IsrType, Source, isrVars, softVars, admVars, envVars
<1>1. CASE Isr
  BY <1>1 DEF Isr, IsrEnter, IsrRead, IsrReturn, IsrMask, IsrClear, IsrProcTx,
     IsrProcRx, NapiSchedule, IsrProcErr, IsrUnmask
<1>2. CASE Tasklet
  BY <1>2 DEF Tasklet, TaskletBegin, TaskletStep, TaskletEnd
<1>3. CASE Napi
  BY <1>3 DEF Napi, NapiBegin, NapiStep, Reported, NapiComplete, NapiEnd
<1>4. CASE Admin
  BY <1>4 DEF Admin, Adm, Open, OpenRead, OpenWrite, OpenEnd, Stop, StopRead,
     StopWrite, StopTasklet, StopTaskletWait, StopNapi
<1>5. CASE \E s \in Senders : Xmit(s)
  BY <1>5 DEF Xmit
<1>6. CASE ChipFetch \/ ChipDone \/ ChipStore \/ ChipError
  BY <1>6 DEF ChipFetch, ChipDone, ChipStore, ChipError, Raise
<1>7. CASE UNCHANGED vars
  BY <1>7 DEF vars
<1> QED
  BY <1>1, <1>2, <1>3, <1>4, <1>5, <1>6, <1>7 DEF Next

(* Flags stay flags. *)
LEMMA FlagStep == FlagType /\ [Next]_vars => FlagType'
<1> SUFFICES ASSUME FlagType, [Next]_vars PROVE FlagType'
  OBVIOUS
<1> USE DEF FlagType, isrVars, softVars, admVars, envVars
<1>1. CASE Isr
  BY <1>1 DEF Isr, IsrEnter, IsrRead, IsrReturn, IsrMask, IsrClear, IsrProcTx,
     IsrProcRx, NapiSchedule, IsrProcErr, IsrUnmask
<1>2. CASE Tasklet
  BY <1>2 DEF Tasklet, TaskletBegin, TaskletStep, TaskletEnd
<1>3. CASE Napi
  BY <1>3 DEF Napi, NapiBegin, NapiStep, Reported, NapiComplete, NapiEnd
<1>4. CASE Admin
  BY <1>4 DEF Admin, Adm, Open, OpenRead, OpenWrite, OpenEnd, Stop, StopRead,
     StopWrite, StopTasklet, StopTaskletWait, StopNapi
<1>5. CASE \E s \in Senders : Xmit(s)
  BY <1>5 DEF Xmit
<1>6. CASE ChipFetch \/ ChipDone \/ ChipStore \/ ChipError
  BY <1>6 DEF ChipFetch, ChipDone, ChipStore, ChipError, Raise
<1>7. CASE UNCHANGED vars
  BY <1>7 DEF vars
<1> QED
  BY <1>1, <1>2, <1>3, <1>4, <1>5, <1>6, <1>7 DEF Next

(* Tasklet and poll run where the handler ran. *)
LEMMA CpuStep == CpuType /\ [Next]_vars => CpuType'
<1> SUFFICES ASSUME CpuType, [Next]_vars PROVE CpuType'
  OBVIOUS
<1> USE DEF CpuType, isrVars, softVars, admVars, envVars
<1>1. CASE Isr
  BY <1>1 DEF Isr, IsrEnter, IsrRead, IsrReturn, IsrMask, IsrClear, IsrProcTx,
     IsrProcRx, NapiSchedule, IsrProcErr, IsrUnmask
<1>2. CASE Tasklet
  BY <1>2 DEF Tasklet, TaskletBegin, TaskletStep, TaskletEnd
<1>3. CASE Napi
  BY <1>3 DEF Napi, NapiBegin, NapiStep, Reported, NapiComplete, NapiEnd
<1>4. CASE Admin
  BY <1>4 DEF Admin, Adm, Open, OpenRead, OpenWrite, OpenEnd, Stop, StopRead,
     StopWrite, StopTasklet, StopTaskletWait, StopNapi
<1>5. CASE \E s \in Senders : Xmit(s)
  BY <1>5 DEF Xmit
<1>6. CASE ChipFetch \/ ChipDone \/ ChipStore \/ ChipError
  BY <1>6 DEF ChipFetch, ChipDone, ChipStore, ChipError, Raise
<1>7. CASE UNCHANGED vars
  BY <1>7 DEF vars
<1> QED
  BY <1>1, <1>2, <1>3, <1>4, <1>5, <1>6, <1>7 DEF Next

(* NAPI, gmac_open and gmac_stop go from place to place. *)
LEMMA PlaceStep == PlaceType /\ [Next]_vars => PlaceType'
<1> SUFFICES ASSUME PlaceType, [Next]_vars PROVE PlaceType'
  OBVIOUS
<1> USE DEF PlaceType, isrVars, softVars, admVars, envVars
<1>1. CASE Isr
  BY <1>1 DEF Isr, IsrEnter, IsrRead, IsrReturn, IsrMask, IsrClear, IsrProcTx,
     IsrProcRx, NapiSchedule, IsrProcErr, IsrUnmask
<1>2. CASE Tasklet
  BY <1>2 DEF Tasklet, TaskletBegin, TaskletStep, TaskletEnd
<1>3. CASE Napi
  BY <1>3 DEF Napi, NapiBegin, NapiStep, Reported, NapiComplete, NapiEnd
<1>4. CASE Admin
  BY <1>4 DEF Admin, Adm, Open, OpenRead, OpenWrite, OpenEnd, Stop, StopRead,
     StopWrite, StopTasklet, StopTaskletWait, StopNapi
<1>5. CASE \E s \in Senders : Xmit(s)
  BY <1>5 DEF Xmit
<1>6. CASE ChipFetch \/ ChipDone \/ ChipStore \/ ChipError
  BY <1>6 DEF ChipFetch, ChipDone, ChipStore, ChipError, Raise
<1>7. CASE UNCHANGED vars
  BY <1>7 DEF vars
<1> QED
  BY <1>1, <1>2, <1>3, <1>4, <1>5, <1>6, <1>7 DEF Next

(* The environment stays within its bounds. *)
LEMMA EnvStep == EnvType /\ RxTypes /\ [Next]_vars => EnvType'
<1> SUFFICES ASSUME EnvType /\ RxTypes, [Next]_vars PROVE EnvType'
  OBVIOUS
<1> USE EnvBounds, RxSizes DEF EnvType, RxTypes, Tolerated, isrVars, softVars, admVars, envVars
<1>1. CASE Isr
  BY <1>1 DEF Isr, IsrEnter, IsrRead, IsrReturn, IsrMask, IsrClear, IsrProcTx,
     IsrProcRx, NapiSchedule, IsrProcErr, IsrUnmask
<1>2. CASE Tasklet
  BY <1>2 DEF Tasklet, TaskletBegin, TaskletStep, TaskletEnd
<1>3. CASE Napi
  BY <1>3 DEF Napi, NapiBegin, NapiStep, Reported, NapiComplete, NapiEnd
<1>4. CASE Admin
  BY <1>4 DEF Admin, Adm, Open, OpenRead, OpenWrite, OpenEnd, Stop, StopRead,
     StopWrite, StopTasklet, StopTaskletWait, StopNapi
<1>5. CASE \E s \in Senders : Xmit(s)
  BY <1>5 DEF Xmit
<1>6. CASE ChipFetch \/ ChipDone \/ ChipStore \/ ChipError
  BY <1>6 DEF ChipFetch, ChipDone, ChipStore, ChipError, Raise
<1>7. CASE UNCHANGED vars
  BY <1>7 DEF vars
<1> QED
  BY <1>1, <1>2, <1>3, <1>4, <1>5, <1>6, <1>7 DEF Next

(* The handler goes through the sources once. *)
LEMMA IsrTypeStep == IsrType /\ [Next]_vars => IsrType'
<1> SUFFICES ASSUME IsrType, [Next]_vars PROVE IsrType'
  OBVIOUS
<1> USE SourceList DEF IsrType, isrVars, softVars, admVars, envVars
<1>1. CASE Isr
  <2>1. CASE IsrMask
    <3>1. Pending \in SUBSET Nat /\ Pending # {} /\ Pending \subseteq 1 .. 5
      BY <2>1 DEF IsrMask, Pending
    <3>2. src' \in 1 .. 5
      BY <2>1, <3>1, MinInSet DEF IsrMask
    <3> QED
      BY <2>1, <3>2 DEF IsrMask
  <2>2. CASE ~IsrMask
    BY <1>1, <2>2 DEF Isr, IsrEnter, IsrRead, IsrReturn, IsrClear, IsrProcTx, IsrProcRx, IsrProcErr,
                      IsrUnmask
  <2> QED
    BY <2>1, <2>2
<1>2. CASE Tasklet
  BY <1>2 DEF Tasklet, TaskletBegin, TaskletStep, TaskletEnd
<1>3. CASE Napi
  BY <1>3 DEF Napi, NapiBegin, NapiStep, Reported, NapiComplete, NapiEnd
<1>4. CASE Admin
  BY <1>4 DEF Admin, Adm, Open, OpenRead, OpenWrite, OpenEnd, Stop, StopRead,
     StopWrite, StopTasklet, StopTaskletWait, StopNapi
<1>5. CASE \E s \in Senders : Xmit(s)
  BY <1>5 DEF Xmit
<1>6. CASE ChipFetch \/ ChipDone \/ ChipStore \/ ChipError
  BY <1>6 DEF ChipFetch, ChipDone, ChipStore, ChipError, Raise
<1>7. CASE UNCHANGED vars
  BY <1>7 DEF vars
<1> QED
  BY <1>1, <1>2, <1>3, <1>4, <1>5, <1>6, <1>7 DEF Next

LEMMA BoundStep ==
    ASSUME TxInv, NodesConserved, TxBounds, [Next]_vars
    PROVE  TxBounds'
<1>1. /\ Cardinality(Nodes) \in Nat /\ Len(fifo) \in Nat /\ Len(inused) \in Nat
      /\ limit \in Nat
  BY GmacTxAssumption, FS_CardinalityType DEF TxInv, TxTypes
<1>2. Len(inused) <= Cardinality(Nodes)
  <2>1. Len(unused) \in Nat /\ Cardinality(Filling) \in Nat
    <3>1. IsFiniteSet(Filled) /\ Cardinality(Filled) = Cardinality(Filling)
      BY FilledCount DEF TxInv
    <3>2. Cardinality(Filled) \in Nat
      BY <3>1, FS_CardinalityType
    <3> QED
      BY <3>1, <3>2 DEF TxInv, TxTypes
  <2> QED
    BY <1>1, <2>1 DEF NodesConserved
<1> USE <1>1, <1>2 DEF TxBounds, FifoMax, chipTxVars, taskVars
<1>3. ASSUME NEW s \in Senders,
             \/ XmitCall(s) \/ XmitDrop(s) \/ XmitMap(s) \/ XmitNoNode(s)
             \/ XmitAcquire(s) \/ XmitChipFull(s) \/ XmitUndo(s)
      PROVE  TxBounds'
  BY <1>3 DEF XmitCall, XmitDrop, XmitMap, XmitNoNode, XmitAcquire, XmitChipFull, XmitUndo
<1>4. ASSUME NEW s \in Senders, XmitEnque(s) PROVE TxBounds'
  <2>1. Len(fifo') = Len(fifo) + 1 /\ limit' = limit
    BY <1>4 DEF XmitEnque, TxInv, TxTypes
  <2> QED
    BY <1>4, <2>1 DEF XmitEnque, ChipFull
<1>5. CASE TaskCount
  BY <1>5 DEF TaskCount
<1>6. CASE TaskNum
  BY <1>6 DEF TaskNum, Finished
<1>7. CASE TaskDeque \/ TaskStop \/ TaskPut \/ TaskFree \/ TaskExit
  BY <1>7 DEF TaskDeque, TaskStop, TaskPut, TaskFree, TaskExit
<1>8. CASE TxFetch
  <2>1. Len(fifo') = Len(fifo) - 1 /\ limit' = limit
    BY <1>8 DEF TxFetch, TxInv, TxTypes
  <2> QED
    BY <2>1
<1>9. CASE TxDone
  BY <1>9 DEF TxDone
<1>10. CASE UNCHANGED txVars
  BY <1>10 DEF txVars
<1> QED
  BY <1>3, <1>4, <1>5, <1>6, <1>7, <1>8, <1>9, <1>10, TxCases

(* The driver keeps its types for any rings, CPUs and senders: no index    *)
(* leaves the table of sources, the receive ring or the chip's FIFOs, and  *)
(* no register holds a bit that has no source.                             *)
THEOREM TypeCorrect == Spec => []TypeOK
<1>1. ASSUME TypeInv, [Next]_vars PROVE TypeInv'
  <2>1. NodesConserved
    BY <1>1, CoveredConserves DEF TypeInv
  <2>2. TxBounds'
    BY <1>1, <2>1, BoundStep DEF TypeInv
  <2>3. TxInv' /\ NodesCovered' /\ RxInv'
    BY <1>1, TxStep, CoveredStep, RxStep DEF TypeInv
  <2>4. MaskType' /\ IsrType' /\ FlagType' /\ CpuType' /\ PlaceType' /\ EnvType'
    BY <1>1, MaskStep, IsrTypeStep, FlagStep, CpuStep, PlaceStep, EnvStep DEF TypeInv, RxInv
  <2> QED
    BY <2>2, <2>3, <2>4 DEF TypeInv
<1>2. ASSUME TypeInv PROVE TypeOK
  <2>1. TxTypeOK
    <3>1. TxTypes /\ TxBounds
      BY <1>2 DEF TypeInv, TxInv
    <3>2. limit \in 0 .. Cardinality(Nodes)
      <4>1. Cardinality(Nodes) \in Nat
        BY GmacTxAssumption, FS_CardinalityType
      <4> QED
        BY <3>1, <4>1 DEF TxTypes, TxBounds
    <3> QED
      BY <3>1, <3>2 DEF TxTypes, TxBounds, TxTypeOK
  <2>2. RxTypeOK
    BY <1>2 DEF TypeInv, RxInv, RxTypes, RingInOrder, RxTypeOK
  <2>3. {mask, stat, imask, istat, amask} \subseteq SUBSET Bits
    BY <1>2 DEF TypeInv, MaskType
  <2>4. {icpu, tcpu, ncpu} \subseteq Cpus
    BY <1>2, GmacAssumption DEF TypeInv, CpuType
  <2> QED
    BY <1>2, <2>1, <2>2, <2>3, <2>4
    DEF TypeInv, IsrType, FlagType, PlaceType, EnvType, TypeOK
<1> QED
  BY TypeInitInv, <1>1, <1>2, PTL DEF Spec
=============================================================================
