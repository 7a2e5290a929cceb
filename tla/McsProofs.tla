----------------------------- MODULE McsProofs -----------------------------
(***************************************************************************)
(* Theorems about Mcs, for rings of any size and any number of messages    *)
(* and restarts.                                                           *)
(***************************************************************************)
EXTENDS Mcs, TLAPS

(* The client core is off until the process turns it on, and nobody reads  *)
(* the ring until the process creates its receive thread.                  *)
PlaceInv ==
    /\ hpc = "start" => cpc = "off"
    /\ hpc \in {"start", "thread"} => rx = "none"

LEMMA InitPlace == Init => PlaceInv
  BY DEF Init, PlaceInv

(* Only HostStart turns the client on, only HostThread creates the thread, *)
(* and both leave their place.                                             *)
LEMMA StepPlace == PlaceInv /\ [Next]_vars => PlaceInv'
<1> SUFFICES ASSUME PlaceInv, [Next]_vars PROVE PlaceInv'
  OBVIOUS
<1> USE DEF PlaceInv, mainVars, eptVars, rxVars, kernVars, clientVars, Main, Rx, Client
<1>1. CASE HostStep
  BY <1>1 DEF HostStep, HostInit, HostStart, HostInitFails, HostThread,
     HostName, HostCallback, HostReady, HostGet, HostPut, HostKick,
     HostDeinit, HostDeinitGet, HostDeinitNone, HostVirtioDeinit,
     HostMemRelease, HostExit, HostExitCrash
<1>2. CASE HostKill \/ RxSignal
  BY <1>2 DEF HostKill, RxSignal
<1>3. CASE Receive
  BY <1>3 DEF Receive, RxCheck, RxRegister, RxReadable, RxNothing, RxWake,
     RxFirst, RxServe, RxNext, RxCrash
<1>4. CASE IrqFlag \/ IrqWake
  BY <1>4 DEF IrqFlag, IrqWake
<1>5. CASE ClientStep
  BY <1>5 DEF ClientStep, ClientBoot, ClientCreate, ClientPut, ClientKick,
     ClientShutdown
<1>6. CASE ClientIrq
  BY <1>6 DEF ClientIrq, CirqEnter, CirqFirst, CirqHalt, CirqData, CirqPut,
     CirqKick, CirqNext
<1>7. CASE UNCHANGED vars
  BY <1>7 DEF vars
<1> QED
  BY <1>1, <1>2, <1>3, <1>4, <1>5, <1>6, <1>7 DEF Next

LEMMA InitAnnounced == Init => NoLostMessage
  BY DEF Init, NoLostMessage

(* Every step keeps each message announced. *)
LEMMA StepAnnounced == PlaceInv /\ NoLostMessage /\ [Next]_vars => NoLostMessage'
<1> SUFFICES ASSUME PlaceInv, NoLostMessage, [Next]_vars PROVE NoLostMessage'
  OBVIOUS
<1> USE DEF PlaceInv, NoLostMessage, ClientAnnounces, mainVars, eptVars, rxVars, kernVars,
            clientVars, Main, Rx, Client
<1>1. CASE HostStep
  BY <1>1 DEF HostStep, HostInit, HostStart, HostInitFails, HostThread,
     HostName, HostCallback, HostReady, HostGet, HostPut, HostKick,
     HostDeinit, HostDeinitGet, HostDeinitNone, HostVirtioDeinit,
     HostMemRelease, HostExit, HostExitCrash
<1>2. CASE HostKill \/ RxSignal
  BY <1>2 DEF HostKill, RxSignal
<1>3. CASE Receive
  BY <1>3 DEF Receive, RxCheck, RxRegister, RxReadable, RxNothing, RxWake,
     RxFirst, RxServe, RxNext, RxCrash
<1>4. CASE IrqFlag \/ IrqWake
  <2>1. CASE IrqFlag
    BY <2>1 DEF IrqFlag
  <2>2. CASE IrqWake
    BY <2>2 DEF IrqWake
  <2> QED
    BY <1>4, <2>1, <2>2
<1>5. CASE ClientStep
  BY <1>5 DEF ClientStep, ClientBoot, ClientCreate, ClientPut, ClientKick,
     ClientShutdown
<1>6. CASE ClientIrq
  BY <1>6 DEF ClientIrq, CirqEnter, CirqFirst, CirqHalt, CirqData, CirqPut,
     CirqKick, CirqNext
<1>7. CASE UNCHANGED vars
  BY <1>7 DEF vars
<1> QED
  BY <1>1, <1>2, <1>3, <1>4, <1>5, <1>6, <1>7 DEF Next

(* No message is forgotten in a ring and no sleeping receive thread misses *)
(* its wake-up, whatever the order of interrupts, polls, messages, stops,  *)
(* kills and restarts.                                                     *)
THEOREM NothingLost == Spec => []NoLostMessage
  BY InitPlace, StepPlace, InitAnnounced, StepAnnounced, PTL DEF Spec

-----------------------------------------------------------------------------
(* Where the counts of endpoints stand at each place: the process and the  *)
(* client go through Order once.                                           *)
RegInv ==
    /\ hpc \in {"start", "thread"} => reg = 0
    /\ hpc \in {"name", "cb"} => reg < Len(Order)
    /\ hpc = "cb" => Order[reg + 1] \in named
    /\ cpc = "boot" => made = 0
    /\ cpc \in {"create", "put", "kick"} => made < Len(Order)

(* A reader has a message exactly while it serves one; a core that is off  *)
(* runs no handler.                                                        *)
ReaderInv ==
    /\ cpc = "off" => cirq = "idle"
    /\ cirq \in {"idle", "first"} <=> cmsg = None
    /\ rx \in {"serve", "next"} <=> rmsg # None

(* No ring has more buffers in use than it has: those in the ring, with    *)
(* the reader and with the writers.  Len(c2h) <= NBuf alone is not         *)
(* inductive.                                                              *)
BufInv ==
    /\ Len(c2h) + One(rmsg # None) + One(cpc = "put") + One(cirq = "put") <= NBuf
    /\ Len(h2c) + One(cmsg # None) + One(hpc \in {"put", "d_put"}) <= NBuf

(* The parts of TypeOK. *)
PlaceType ==
    /\ hpc \in {"off", "start", "thread", "name", "cb", "ready", "app", "put", "kick",
                "d_buf", "d_put", "d_kick", "d_virtio", "d_mem", "d_end", "killed"}
    /\ rx \in {"none", "check", "poll", "test", "sleep", "first", "serve", "next", "gone"}
    /\ irq \in {"idle", "wake"}
    /\ cpc \in {"off", "boot", "create", "put", "kick", "loop"}
    /\ cirq \in {"idle", "first", "serve", "put", "kick", "next"}

CountType ==
    /\ reg \in 0 .. Len(Order) /\ made \in 0 .. Len(Order)
    /\ hsent \in 0 .. MaxSend /\ runs \in 0 .. MaxRuns

FlagType ==
    {told, exiting, live, mapped, spin, ipiH, irqAck, woken, halted, ipiC} \subseteq BOOLEAN

EptType == named \subseteq Names /\ ready \subseteq named /\ bound \subseteq ready

DataType ==
    /\ rmsg \in Names \cup {Data, None} /\ cmsg \in {Data, Halt, None}
    /\ c2h \in Seq(Names \cup {Data}) /\ h2c \in Seq({Data, Halt})

(* The inductive invariant. *)
TypeInv ==
    /\ PlaceType /\ CountType /\ FlagType /\ EptType /\ DataType
    /\ PlaceInv /\ RegInv /\ ReaderInv /\ BufInv

LEMMA OrderValue == /\ Len(Order) = 2 /\ Order[1] = Stop /\ Order[2] = App
                    /\ Order[1] \in Names /\ Order[2] \in Names
  BY DEF Order, Names

LEMMA BoundNat == NBuf \in Nat /\ NBuf >= 2 /\ MaxSend \in Nat /\ MaxRuns \in Nat
  BY McsAssumption

LEMMA LenNat == DataType => Len(c2h) \in Nat /\ Len(h2c) \in Nat
  BY DEF DataType

LEMMA QueueType ==
    ASSUME NEW S, NEW q \in Seq(S)
    PROVE  /\ \A e \in S : Append(q, e) \in Seq(S)
           /\ q # <<>> => Head(q) \in S /\ Tail(q) \in Seq(S)
  OBVIOUS

LEMMA InitType == Init => TypeInv
<1> SUFFICES ASSUME Init PROVE TypeInv
  OBVIOUS
<1>1. PlaceType
  BY DEF Init, PlaceType
<1>2. CountType
  BY McsAssumption, OrderValue DEF Init, CountType
<1>3. FlagType
  BY DEF Init, FlagType
<1>4. EptType
  BY DEF Init, EptType
<1>5. DataType
  BY DEF Init, DataType
<1>6. RegInv /\ ReaderInv
  BY DEF Init, RegInv, ReaderInv
<1>7. BufInv
  BY McsAssumption DEF Init, BufInv, One
<1> QED
  BY <1>1, <1>2, <1>3, <1>4, <1>5, <1>6, <1>7, InitPlace DEF TypeInv

(* Every process goes from one of its places to another. *)
LEMMA StepPlaceType == PlaceType /\ [Next]_vars => PlaceType'
<1> SUFFICES ASSUME PlaceType, [Next]_vars PROVE PlaceType'
  OBVIOUS
<1> USE DEF PlaceType, mainVars, eptVars, rxVars, kernVars, clientVars, Main, Rx, Client
<1>1. CASE HostStep
  BY <1>1 DEF HostStep, HostInit, HostStart, HostInitFails, HostThread,
     HostName, HostCallback, HostReady, HostGet, HostPut, HostKick,
     HostDeinit, HostDeinitGet, HostDeinitNone, HostVirtioDeinit,
     HostMemRelease, HostExit, HostExitCrash
<1>2. CASE HostKill \/ RxSignal
  BY <1>2 DEF HostKill, RxSignal
<1>3. CASE Receive
  BY <1>3 DEF Receive, RxCheck, RxRegister, RxReadable, RxNothing, RxWake,
     RxFirst, RxServe, RxNext, RxCrash
<1>4. CASE IrqFlag \/ IrqWake
  BY <1>4 DEF IrqFlag, IrqWake
<1>5. CASE ClientStep
  BY <1>5 DEF ClientStep, ClientBoot, ClientCreate, ClientPut, ClientKick,
     ClientShutdown
<1>6. CASE ClientIrq
  BY <1>6 DEF ClientIrq, CirqEnter, CirqFirst, CirqHalt, CirqData, CirqPut,
     CirqKick, CirqNext
<1>7. CASE UNCHANGED vars
  BY <1>7 DEF vars
<1> QED
  BY <1>1, <1>2, <1>3, <1>4, <1>5, <1>6, <1>7 DEF Next

(* The counts stay within their bounds. *)
LEMMA StepCount == CountType /\ RegInv /\ [Next]_vars => CountType'
<1> SUFFICES ASSUME CountType /\ RegInv, [Next]_vars PROVE CountType'
  OBVIOUS
<1> USE McsAssumption, OrderValue DEF CountType, RegInv, mainVars, eptVars, rxVars, kernVars,
        clientVars, Main, Rx, Client
<1>1. CASE HostStep
  BY <1>1 DEF HostStep, HostInit, HostStart, HostInitFails, HostThread,
     HostName, HostCallback, HostReady, HostGet, HostPut, HostKick,
     HostDeinit, HostDeinitGet, HostDeinitNone, HostVirtioDeinit,
     HostMemRelease, HostExit, HostExitCrash
<1>2. CASE HostKill \/ RxSignal
  BY <1>2 DEF HostKill, RxSignal
<1>3. CASE Receive
  BY <1>3 DEF Receive, RxCheck, RxRegister, RxReadable, RxNothing, RxWake,
     RxFirst, RxServe, RxNext, RxCrash
<1>4. CASE IrqFlag \/ IrqWake
  BY <1>4 DEF IrqFlag, IrqWake
<1>5. CASE ClientStep
  BY <1>5 DEF ClientStep, ClientBoot, ClientCreate, ClientPut, ClientKick,
     ClientShutdown
<1>6. CASE ClientIrq
  BY <1>6 DEF ClientIrq, CirqEnter, CirqFirst, CirqHalt, CirqData, CirqPut,
     CirqKick, CirqNext
<1>7. CASE UNCHANGED vars
  BY <1>7 DEF vars
<1> QED
  BY <1>1, <1>2, <1>3, <1>4, <1>5, <1>6, <1>7 DEF Next

(* Flags stay flags. *)
LEMMA StepFlag == FlagType /\ [Next]_vars => FlagType'
<1> SUFFICES ASSUME FlagType, [Next]_vars PROVE FlagType'
  OBVIOUS
<1> USE DEF FlagType, mainVars, eptVars, rxVars, kernVars, clientVars, Main, Rx, Client
<1>1. CASE HostStep
  BY <1>1 DEF HostStep, HostInit, HostStart, HostInitFails, HostThread,
     HostName, HostCallback, HostReady, HostGet, HostPut, HostKick,
     HostDeinit, HostDeinitGet, HostDeinitNone, HostVirtioDeinit,
     HostMemRelease, HostExit, HostExitCrash
<1>2. CASE HostKill \/ RxSignal
  BY <1>2 DEF HostKill, RxSignal
<1>3. CASE Receive
  BY <1>3 DEF Receive, RxCheck, RxRegister, RxReadable, RxNothing, RxWake,
     RxFirst, RxServe, RxNext, RxCrash
<1>4. CASE IrqFlag \/ IrqWake
  BY <1>4 DEF IrqFlag, IrqWake
<1>5. CASE ClientStep
  BY <1>5 DEF ClientStep, ClientBoot, ClientCreate, ClientPut, ClientKick,
     ClientShutdown
<1>6. CASE ClientIrq
  BY <1>6 DEF ClientIrq, CirqEnter, CirqFirst, CirqHalt, CirqData, CirqPut,
     CirqKick, CirqNext
<1>7. CASE UNCHANGED vars
  BY <1>7 DEF vars
<1> QED
  BY <1>1, <1>2, <1>3, <1>4, <1>5, <1>6, <1>7 DEF Next

(* An endpoint is named before it is ready and ready before it is bound. *)
LEMMA StepEpt == EptType /\ CountType /\ RegInv /\ [Next]_vars => EptType'
<1> SUFFICES ASSUME EptType /\ CountType /\ RegInv, [Next]_vars PROVE EptType'
  OBVIOUS
<1> USE OrderValue DEF EptType, CountType, RegInv, mainVars, eptVars, rxVars, kernVars,
        clientVars, Main, Rx, Client
<1>1. CASE HostStep
  BY <1>1 DEF HostStep, HostInit, HostStart, HostInitFails, HostThread,
     HostName, HostCallback, HostReady, HostGet, HostPut, HostKick,
     HostDeinit, HostDeinitGet, HostDeinitNone, HostVirtioDeinit,
     HostMemRelease, HostExit, HostExitCrash
<1>2. CASE HostKill \/ RxSignal
  BY <1>2 DEF HostKill, RxSignal
<1>3. CASE Receive
  BY <1>3 DEF Receive, RxCheck, RxRegister, RxReadable, RxNothing, RxWake,
     RxFirst, RxServe, RxNext, RxCrash
<1>4. CASE IrqFlag \/ IrqWake
  BY <1>4 DEF IrqFlag, IrqWake
<1>5. CASE ClientStep
  BY <1>5 DEF ClientStep, ClientBoot, ClientCreate, ClientPut, ClientKick,
     ClientShutdown
<1>6. CASE ClientIrq
  BY <1>6 DEF ClientIrq, CirqEnter, CirqFirst, CirqHalt, CirqData, CirqPut,
     CirqKick, CirqNext
<1>7. CASE UNCHANGED vars
  BY <1>7 DEF vars
<1> QED
  BY <1>1, <1>2, <1>3, <1>4, <1>5, <1>6, <1>7 DEF Next

(* Each side registers or creates the endpoints in turn. *)
LEMMA StepReg == RegInv /\ CountType /\ [Next]_vars => RegInv'
<1> SUFFICES ASSUME RegInv /\ CountType, [Next]_vars PROVE RegInv'
  OBVIOUS
<1> USE OrderValue DEF RegInv, CountType, mainVars, eptVars, rxVars, kernVars, clientVars,
        Main, Rx, Client
<1>1. CASE HostStep
  BY <1>1 DEF HostStep, HostInit, HostStart, HostInitFails, HostThread,
     HostName, HostCallback, HostReady, HostGet, HostPut, HostKick,
     HostDeinit, HostDeinitGet, HostDeinitNone, HostVirtioDeinit,
     HostMemRelease, HostExit, HostExitCrash
<1>2. CASE HostKill \/ RxSignal
  BY <1>2 DEF HostKill, RxSignal
<1>3. CASE Receive
  BY <1>3 DEF Receive, RxCheck, RxRegister, RxReadable, RxNothing, RxWake,
     RxFirst, RxServe, RxNext, RxCrash
<1>4. CASE IrqFlag \/ IrqWake
  BY <1>4 DEF IrqFlag, IrqWake
<1>5. CASE ClientStep
  BY <1>5 DEF ClientStep, ClientBoot, ClientCreate, ClientPut, ClientKick,
     ClientShutdown
<1>6. CASE ClientIrq
  BY <1>6 DEF ClientIrq, CirqEnter, CirqFirst, CirqHalt, CirqData, CirqPut,
     CirqKick, CirqNext
<1>7. CASE UNCHANGED vars
  BY <1>7 DEF vars
<1> QED
  BY <1>1, <1>2, <1>3, <1>4, <1>5, <1>6, <1>7 DEF Next

(* A message is taken at first or next and returned at next. *)
LEMMA StepReader == ReaderInv /\ PlaceInv /\ DataType /\ [Next]_vars => ReaderInv'
<1> SUFFICES ASSUME ReaderInv /\ PlaceInv /\ DataType, [Next]_vars PROVE ReaderInv'
  OBVIOUS
<1> USE McsAssumption DEF ReaderInv, PlaceInv, DataType, mainVars, eptVars, rxVars, kernVars,
        clientVars, Main, Rx, Client
<1>1. CASE HostStep
  BY <1>1 DEF HostStep, HostInit, HostStart, HostInitFails, HostThread,
     HostName, HostCallback, HostReady, HostGet, HostPut, HostKick,
     HostDeinit, HostDeinitGet, HostDeinitNone, HostVirtioDeinit,
     HostMemRelease, HostExit, HostExitCrash
<1>2. CASE HostKill \/ RxSignal
  BY <1>2 DEF HostKill, RxSignal
<1>3. CASE Receive
  BY <1>3 DEF Receive, RxCheck, RxRegister, RxReadable, RxNothing, RxWake,
     RxFirst, RxServe, RxNext, RxCrash
<1>4. CASE IrqFlag \/ IrqWake
  BY <1>4 DEF IrqFlag, IrqWake
<1>5. CASE ClientStep
  BY <1>5 DEF ClientStep, ClientBoot, ClientCreate, ClientPut, ClientKick,
     ClientShutdown
<1>6. CASE ClientIrq
  BY <1>6 DEF ClientIrq, CirqEnter, CirqFirst, CirqHalt, CirqData, CirqPut,
     CirqKick, CirqNext
<1>7. CASE UNCHANGED vars
  BY <1>7 DEF vars
<1> QED
  BY <1>1, <1>2, <1>3, <1>4, <1>5, <1>6, <1>7 DEF Next

(* What is read was written. *)
LEMMA StepData == DataType /\ CountType /\ RegInv /\ [Next]_vars => DataType'
<1> SUFFICES ASSUME DataType /\ CountType /\ RegInv, [Next]_vars PROVE DataType'
  OBVIOUS
<1> USE OrderValue DEF DataType, CountType, RegInv, mainVars, eptVars, rxVars, kernVars,
        clientVars, Main, Rx, Client
<1>1. CASE HostInit
  BY <1>1 DEF HostInit
<1>2. CASE HostStart
  BY <1>2 DEF HostStart
<1>3. CASE HostInitFails
  BY <1>3 DEF HostInitFails
<1>4. CASE HostThread
  BY <1>4 DEF HostThread
<1>5. CASE HostName
  BY <1>5 DEF HostName
<1>6. CASE HostCallback
  BY <1>6 DEF HostCallback
<1>7. CASE HostReady
  BY <1>7 DEF HostReady
<1>8. CASE HostGet
  BY <1>8 DEF HostGet
<1>9. CASE HostPut
  <2>1. Append(h2c, Data) \in Seq({Data, Halt}) /\ Append(h2c, Halt) \in Seq({Data, Halt})
    BY QueueType
  <2> QED
    BY <1>9, <2>1 DEF HostPut
<1>10. CASE HostKick
  BY <1>10 DEF HostKick
<1>11. CASE HostDeinit
  BY <1>11 DEF HostDeinit
<1>12. CASE HostDeinitGet
  BY <1>12 DEF HostDeinitGet
<1>13. CASE HostDeinitNone
  BY <1>13 DEF HostDeinitNone
<1>14. CASE HostVirtioDeinit
  BY <1>14 DEF HostVirtioDeinit
<1>15. CASE HostMemRelease
  BY <1>15 DEF HostMemRelease
<1>16. CASE HostExit
  BY <1>16 DEF HostExit
<1>17. CASE HostKill
  BY <1>17 DEF HostKill
<1>18. CASE RxCheck
  BY <1>18 DEF RxCheck
<1>19. CASE RxRegister
  BY <1>19 DEF RxRegister
<1>20. CASE RxReadable
  BY <1>20 DEF RxReadable
<1>21. CASE RxNothing
  BY <1>21 DEF RxNothing
<1>22. CASE RxWake
  BY <1>22 DEF RxWake
<1>23. CASE RxFirst
  <2>1. c2h # <<>> => Head(c2h) \in Names \cup {Data} /\ Tail(c2h) \in Seq(Names \cup {Data})
    BY QueueType
  <2> QED
    BY <1>23, <2>1 DEF RxFirst
<1>24. CASE RxServe
  BY <1>24 DEF RxServe
<1>25. CASE RxNext
  <2>1. c2h # <<>> => Head(c2h) \in Names \cup {Data} /\ Tail(c2h) \in Seq(Names \cup {Data})
    BY QueueType
  <2> QED
    BY <1>25, <2>1 DEF RxNext
<1>26. CASE RxCrash
  BY <1>26 DEF RxCrash
<1>27. CASE IrqFlag
  BY <1>27 DEF IrqFlag
<1>28. CASE IrqWake
  BY <1>28 DEF IrqWake
<1>29. CASE ClientBoot
  BY <1>29 DEF ClientBoot
<1>30. CASE ClientCreate
  BY <1>30 DEF ClientCreate
<1>31. CASE ClientPut
  BY <1>31 DEF ClientPut
<1>32. CASE ClientKick
  BY <1>32 DEF ClientKick
<1>33. CASE ClientShutdown
  BY <1>33 DEF ClientShutdown
<1>34. CASE CirqEnter
  BY <1>34 DEF CirqEnter
<1>35. CASE CirqFirst
  <2>1. h2c # <<>> => Head(h2c) \in {Data, Halt} /\ Tail(h2c) \in Seq({Data, Halt})
    BY QueueType
  <2> QED
    BY <1>35, <2>1 DEF CirqFirst
<1>36. CASE CirqHalt
  BY <1>36 DEF CirqHalt
<1>37. CASE CirqData
  BY <1>37 DEF CirqData
<1>38. CASE CirqPut
  BY <1>38 DEF CirqPut
<1>39. CASE CirqKick
  BY <1>39 DEF CirqKick
<1>40. CASE CirqNext
  <2>1. h2c # <<>> => Head(h2c) \in {Data, Halt} /\ Tail(h2c) \in Seq({Data, Halt})
    BY QueueType
  <2> QED
    BY <1>40, <2>1 DEF CirqNext
<1>41. CASE HostExitCrash
  BY <1>41 DEF HostExitCrash
<1>42. CASE RxSignal
  BY <1>42 DEF RxSignal
<1>43. CASE UNCHANGED vars
  BY <1>43 DEF vars
<1> QED
  BY <1>1, <1>2, <1>3, <1>4, <1>5, <1>6, <1>7, <1>8, <1>9, <1>10, <1>11, <1>12, <1>13, <1>14,
     <1>15, <1>16, <1>17, <1>18, <1>19, <1>20, <1>21, <1>22, <1>23, <1>24, <1>25, <1>26,
     <1>27, <1>28, <1>29, <1>30, <1>31, <1>32, <1>33, <1>34, <1>35, <1>36, <1>37, <1>38,
     <1>39, <1>40, <1>41, <1>42, <1>43
  DEF Next, HostStep, Receive, ClientStep, ClientIrq

(* A buffer is asked for before it is written and counted until it is read. *)
LEMMA StepBuf == BufInv /\ DataType /\ ReaderInv /\ [Next]_vars => BufInv'
<1> SUFFICES ASSUME BufInv /\ DataType /\ ReaderInv, [Next]_vars PROVE BufInv'
  OBVIOUS
<1> DEFINE r == One(rmsg # None)  w == One(cpc = "put")  i == One(cirq = "put")
           c == One(cmsg # None)  h == One(hpc \in {"put", "d_put"})
<1>a. /\ rmsg = None => r = 0
      /\ rmsg # None => r = 1
      /\ cpc = "put" => w = 1
      /\ cpc # "put" => w = 0
      /\ cirq = "put" => i = 1
      /\ cirq # "put" => i = 0
      /\ cmsg = None => c = 0
      /\ cmsg # None => c = 1
      /\ hpc \in {"put", "d_put"} => h = 1
      /\ hpc \notin {"put", "d_put"} => h = 0
  BY DEF One
<1>b. /\ rmsg' = None => r' = 0
      /\ rmsg' # None => r' = 1
      /\ cpc' = "put" => w' = 1
      /\ cpc' # "put" => w' = 0
      /\ cirq' = "put" => i' = 1
      /\ cirq' # "put" => i' = 0
      /\ cmsg' = None => c' = 0
      /\ cmsg' # None => c' = 1
      /\ hpc' \in {"put", "d_put"} => h' = 1
      /\ hpc' \notin {"put", "d_put"} => h' = 0
  BY DEF One
<1>c. /\ BufInv <=> Len(c2h) + r + w + i <= NBuf /\ Len(h2c) + c + h <= NBuf
      /\ BufInv' <=> Len(c2h') + r' + w' + i' <= NBuf /\ Len(h2c') + c' + h' <= NBuf
      /\ ClientHasBuffer <=> Len(c2h) + r + w + i < NBuf
      /\ HostHasBuffer <=> Len(h2c) + c + h < NBuf
  BY DEF BufInv, ClientHasBuffer, HostHasBuffer
<1> HIDE DEF r, w, i, c, h
<1> USE <1>a, <1>b, <1>c, BoundNat, LenNat DEF ReaderInv, mainVars, eptVars, rxVars, kernVars,
        clientVars, Main, Rx, Client
<1>1. CASE HostInit
  BY <1>1 DEF HostInit
<1>2. CASE HostStart
  BY <1>2 DEF HostStart
<1>3. CASE HostInitFails
  BY <1>3 DEF HostInitFails
<1>4. CASE HostThread
  BY <1>4 DEF HostThread
<1>5. CASE HostName
  BY <1>5 DEF HostName
<1>6. CASE HostCallback
  BY <1>6 DEF HostCallback
<1>7. CASE HostReady
  BY <1>7 DEF HostReady
<1>8. CASE HostGet
  BY <1>8 DEF HostGet
<1>9. CASE HostPut
  BY <1>9 DEF HostPut
<1>10. CASE HostKick
  BY <1>10 DEF HostKick
<1>11. CASE HostDeinit
  BY <1>11 DEF HostDeinit
<1>12. CASE HostDeinitGet
  BY <1>12 DEF HostDeinitGet
<1>13. CASE HostDeinitNone
  BY <1>13 DEF HostDeinitNone
<1>14. CASE HostVirtioDeinit
  BY <1>14 DEF HostVirtioDeinit
<1>15. CASE HostMemRelease
  BY <1>15 DEF HostMemRelease
<1>16. CASE HostExit
  BY <1>16 DEF HostExit
<1>17. CASE HostKill
  BY <1>17 DEF HostKill
<1>18. CASE RxCheck
  BY <1>18 DEF RxCheck
<1>19. CASE RxRegister
  BY <1>19 DEF RxRegister
<1>20. CASE RxReadable
  BY <1>20 DEF RxReadable
<1>21. CASE RxNothing
  BY <1>21 DEF RxNothing
<1>22. CASE RxWake
  BY <1>22 DEF RxWake
<1>23. CASE RxFirst
  BY <1>23 DEF RxFirst
<1>24. CASE RxServe
  BY <1>24 DEF RxServe
<1>25. CASE RxNext
  BY <1>25 DEF RxNext
<1>26. CASE RxCrash
  BY <1>26 DEF RxCrash
<1>27. CASE IrqFlag
  BY <1>27 DEF IrqFlag
<1>28. CASE IrqWake
  BY <1>28 DEF IrqWake
<1>29. CASE ClientBoot
  BY <1>29 DEF ClientBoot
<1>30. CASE ClientCreate
  BY <1>30 DEF ClientCreate
<1>31. CASE ClientPut
  BY <1>31 DEF ClientPut
<1>32. CASE ClientKick
  BY <1>32 DEF ClientKick
<1>33. CASE ClientShutdown
  BY <1>33 DEF ClientShutdown
<1>34. CASE CirqEnter
  BY <1>34 DEF CirqEnter
<1>35. CASE CirqFirst
  BY <1>35 DEF CirqFirst
<1>36. CASE CirqHalt
  BY <1>36 DEF CirqHalt
<1>37. CASE CirqData
  BY <1>37 DEF CirqData
<1>38. CASE CirqPut
  BY <1>38 DEF CirqPut
<1>39. CASE CirqKick
  BY <1>39 DEF CirqKick
<1>40. CASE CirqNext
  BY <1>40 DEF CirqNext
<1>41. CASE HostExitCrash
  BY <1>41 DEF HostExitCrash
<1>42. CASE RxSignal
  BY <1>42 DEF RxSignal
<1>43. CASE UNCHANGED vars
  BY <1>43 DEF vars
<1> QED
  BY <1>1, <1>2, <1>3, <1>4, <1>5, <1>6, <1>7, <1>8, <1>9, <1>10, <1>11, <1>12, <1>13, <1>14,
     <1>15, <1>16, <1>17, <1>18, <1>19, <1>20, <1>21, <1>22, <1>23, <1>24, <1>25, <1>26,
     <1>27, <1>28, <1>29, <1>30, <1>31, <1>32, <1>33, <1>34, <1>35, <1>36, <1>37, <1>38,
     <1>39, <1>40, <1>41, <1>42, <1>43
  DEF Next, HostStep, Receive, ClientStep, ClientIrq

LEMMA StepType == TypeInv /\ [Next]_vars => TypeInv'
  BY StepPlace, StepPlaceType, StepCount, StepFlag, StepEpt, StepReg, StepReader, StepData,
     StepBuf DEF TypeInv

(* The channel keeps its types: whatever the order of messages, stops,     *)
(* kills and restarts, neither ring ever holds more messages than it has   *)
(* buffers, both sides stay within the table of endpoints, and an endpoint *)
(* is bound only after its callback was registered.                        *)
THEOREM TypeCorrect == Spec => []TypeOK
<1>1. TypeInv => TypeOK
  <2> SUFFICES ASSUME TypeInv PROVE TypeOK
    OBVIOUS
  <2>1. Len(c2h) <= NBuf /\ Len(h2c) <= NBuf
    <3>1. One(rmsg # None) \in Nat /\ One(cpc = "put") \in Nat /\ One(cirq = "put") \in Nat
      BY DEF One
    <3>2. One(cmsg # None) \in Nat /\ One(hpc \in {"put", "d_put"}) \in Nat
      BY DEF One
    <3>3. Len(c2h) \in Nat /\ Len(h2c) \in Nat
      BY LenNat DEF TypeInv
    <3>4. BufInv
      BY DEF TypeInv
    <3> DEFINE a == One(rmsg # None)
               b == One(cpc = "put")
               c == One(cirq = "put")
               d == One(cmsg # None)
               e == One(hpc \in {"put", "d_put"})
    <3>5. Len(c2h) + a + b + c <= NBuf /\ Len(h2c) + d + e <= NBuf
      BY <3>4, Zenon DEF BufInv
    <3>6. {a, b, c, d, e} \subseteq Nat
      BY <3>1, <3>2
    <3> HIDE DEF a, b, c, d, e
    <3> QED
      BY <3>3, <3>5, <3>6, BoundNat
  <2> QED
    BY <2>1 DEF TypeInv, PlaceType, CountType, FlagType, EptType, DataType, TypeOK
<1> QED
  BY InitType, StepType, <1>1, PTL DEF Spec
=============================================================================
