---------------------------- MODULE GmacTxProofs ----------------------------
(***************************************************************************)
(* Proofs about the transmit half of Gmac, for any nodes, packets and      *)
(* senders: the chip never reads a packet that was freed.                  *)
(***************************************************************************)
EXTENDS Gmac, FiniteSetTheorems, TLAPS

NoDup(q) == \A i, j \in 1 .. Len(q) : q[i] = q[j] => i = j

Unused == ToSet(unused)
Inused == ToSet(inused)

(* The types that the argument needs; no bound of the run is among them. *)
TxTypes ==
    /\ unused \in Seq(Nodes) /\ inused \in Seq(Nodes)
    /\ txSkb \in [Nodes -> Skbs \cup {None}]
    /\ txState \in [Nodes -> {"idle", "start", "end"}]
    /\ held \subseteq Skbs
    /\ fifo \in Seq(Descriptors) /\ sending \in Descriptors \cup {None}
    /\ xm \in [Senders -> [pc : {"idle", "check", "acquire", "enque", "undo"},
                           skb : Skbs \cup {None}, node : Nodes \cup {None}]]
    /\ tpc \in {"idle", "num", "recycle", "put", "free", "exit"}
    /\ limit \in Nat
    /\ tnode \in Nodes \cup {None} /\ tskb \in Skbs \cup {None}

(* Who holds what at each place of a sender and of the tasklet. *)
Locals ==
    /\ \A s \in Senders :
         /\ xm[s].pc # "idle" <=> xm[s].skb # None
         /\ xm[s].pc \in {"enque", "undo"} <=> xm[s].node # None
         /\ xm[s].node # None => /\ txSkb[xm[s].node] = xm[s].skb
                                 /\ txState[xm[s].node] = "start"
    /\ tpc = "put" <=> tnode # None
    /\ tpc = "free" <=> tskb # None

(* No node is in two places. *)
Apart ==
    /\ NoDup(unused) /\ NoDup(inused)
    /\ Unused \cap Inused = {}
    /\ tnode \notin Unused \cup Inused
    /\ \A s \in Senders :
         /\ xm[s].node \notin Unused \cup Inused
         /\ xm[s].node # None => xm[s].node # tnode
         /\ \A t \in Senders : xm[s].node # None /\ s # t => xm[s].node # xm[t].node

(* Every packet under way has one holder: a node in flight, a sender, or   *)
(* the tasklet about to free it.                                           *)
InFlight == Inused \cup ({tnode} \ {None})

OneHolder ==
    /\ \A n \in InFlight : txSkb[n] \in held
    /\ \A m, n \in InFlight : m # n => txSkb[m] # txSkb[n]
    /\ \A s \in Senders : xm[s].skb # None =>
         /\ xm[s].skb \in held
         /\ \A n \in InFlight : txSkb[n] # xm[s].skb
         /\ \A t \in Senders : s # t => xm[t].skb # xm[s].skb
         /\ tskb # xm[s].skb
    /\ tskb # None => /\ tskb \in held
                      /\ \A n \in InFlight : txSkb[n] # tskb

(* The descriptors in the chip belong to the last nodes in use, in the     *)
(* same order, the one on the wire before those in the FIFO.               *)
ChipSuffix ==
    /\ Len(fifo) <= Len(inused)
    /\ \A i \in 1 .. Len(fifo) : inused[Len(inused) - Len(fifo) + i] = fifo[i].node
    /\ sending # None => /\ Len(fifo) < Len(inused)
                         /\ inused[Len(inused) - Len(fifo)] = sending.node

InChipState(d) == txSkb[d.node] = d.skb /\ txState[d.node] = "start"

ChipStarted ==
    /\ \A i \in 1 .. Len(fifo) : InChipState(fifo[i])
    /\ sending # None => InChipState(sending)

(* The tasklet never means to free a node that is still in the FIFO. *)
LimitInv ==
    /\ tpc = "num" => limit <= Len(inused)
    /\ tpc \in {"recycle", "put", "free"} => limit <= Len(inused) - Len(fifo)

(* The inductive invariant. *)
TxInv == TxTypes /\ Locals /\ Apart /\ OneHolder /\ ChipSuffix /\ ChipStarted /\ LimitInv

-----------------------------------------------------------------------------
(* Queues *)

LEMMA ToSetElem ==
    ASSUME NEW S, NEW q \in Seq(S), NEW i \in 1 .. Len(q)
    PROVE  q[i] \in ToSet(q)
BY DEF ToSet

LEMMA AppendQueue ==
    ASSUME NEW S, NEW q \in Seq(S), NEW e \in S
    PROVE  /\ Append(q, e) \in Seq(S) /\ Len(Append(q, e)) = Len(q) + 1
           /\ ToSet(Append(q, e)) = ToSet(q) \cup {e}
           /\ NoDup(q) /\ e \notin ToSet(q) => NoDup(Append(q, e))
<1> DEFINE p == Append(q, e)
<1>1. /\ p \in Seq(S) /\ Len(p) = Len(q) + 1 /\ DOMAIN p = 1 .. Len(q) + 1
      /\ \A i \in 1 .. Len(q) : p[i] = q[i]
      /\ p[Len(q) + 1] = e
  OBVIOUS
<1> HIDE DEF p
<1>2. DOMAIN q = 1 .. Len(q) /\ Len(q) \in Nat
  OBVIOUS
<1>3. ToSet(p) \subseteq ToSet(q) \cup {e}
  BY <1>1, <1>2 DEF ToSet
<1>4. ToSet(q) \cup {e} \subseteq ToSet(p)
  <2>1. \A i \in 1 .. Len(q) : q[i] \in ToSet(p)
    BY <1>1, <1>2 DEF ToSet
  <2>2. e \in ToSet(p)
    BY <1>1, <1>2 DEF ToSet
  <2> QED
    BY <1>2, <2>1, <2>2 DEF ToSet
<1>5. ASSUME NoDup(q), e \notin ToSet(q) PROVE NoDup(p)
  <2>1. \A i \in 1 .. Len(q) : q[i] # e
    BY <1>2, <1>5 DEF ToSet
  <2> QED
    BY <1>1, <1>2, <1>5, <2>1 DEF NoDup
<1> QED
  BY <1>1, <1>3, <1>4, <1>5 DEF p

LEMMA TailQueue ==
    ASSUME NEW S, NEW q \in Seq(S), q # <<>>
    PROVE  /\ Head(q) \in S /\ Head(q) \in ToSet(q) /\ Head(q) = q[1]
           /\ Tail(q) \in Seq(S) /\ Len(Tail(q)) = Len(q) - 1 /\ Len(q) \in Nat \ {0}
           /\ \A i \in 1 .. Len(q) - 1 : Tail(q)[i] = q[i + 1]
           /\ NoDup(q) => /\ NoDup(Tail(q))
                          /\ ToSet(Tail(q)) = ToSet(q) \ {Head(q)}
<1> DEFINE p == Tail(q)
<1>1. /\ p \in Seq(S) /\ Len(p) = Len(q) - 1 /\ Len(q) \in Nat \ {0}
      /\ DOMAIN p = 1 .. Len(q) - 1 /\ DOMAIN q = 1 .. Len(q)
      /\ \A i \in 1 .. Len(q) - 1 : p[i] = q[i + 1]
      /\ Head(q) = q[1] /\ Head(q) \in S
  OBVIOUS
<1> HIDE DEF p
<1>2. Head(q) \in ToSet(q)
  BY <1>1 DEF ToSet
<1>3. ASSUME NoDup(q) PROVE NoDup(p) /\ ToSet(p) = ToSet(q) \ {Head(q)}
  <2>1. NoDup(p)
    BY <1>1, <1>3 DEF NoDup
  <2>2. ASSUME NEW x \in ToSet(p) PROVE x \in ToSet(q) \ {Head(q)}
    <3>1. PICK i \in 1 .. Len(q) - 1 : x = q[i + 1]
      BY <1>1, <2>2 DEF ToSet
    <3>2. i + 1 \in 1 .. Len(q) /\ 1 \in 1 .. Len(q) /\ i + 1 # 1
      BY <1>1
    <3>3. q[i + 1] # q[1]
      BY <1>3, <3>2 DEF NoDup
    <3> QED
      BY <1>1, <3>1, <3>2, <3>3 DEF ToSet
  <2>3. ASSUME NEW x \in ToSet(q) \ {Head(q)} PROVE x \in ToSet(p)
    <3>1. PICK i \in 1 .. Len(q) : x = q[i]
      BY <1>1, <2>3 DEF ToSet
    <3>2. i - 1 \in 1 .. Len(q) - 1
      BY <1>1, <2>3, <3>1
    <3>3. p[i - 1] = x
      BY <1>1, <3>1, <3>2
    <3> QED
      BY <1>1, <3>2, <3>3 DEF ToSet
  <2> QED
    BY <2>1, <2>2, <2>3
<1> QED
  BY <1>1, <1>2, <1>3 DEF p

-----------------------------------------------------------------------------
(* What a step of the whole driver does to the transmit half. *)
LEMMA TxCases ==
    ASSUME [Next]_vars
    PROVE  \/ \E s \in Senders :
                \/ XmitCall(s) \/ XmitDrop(s) \/ XmitMap(s) \/ XmitNoNode(s)
                \/ XmitAcquire(s) \/ XmitEnque(s) \/ XmitChipFull(s) \/ XmitUndo(s)
           \/ TaskCount \/ TaskNum \/ TaskDeque \/ TaskStop \/ TaskPut \/ TaskFree
           \/ TaskExit \/ TxFetch \/ TxDone
           \/ UNCHANGED txVars
<1>1. CASE Isr
  BY <1>1 DEF Isr, IsrEnter, IsrRead, IsrReturn, IsrMask, IsrClear, IsrProcTx, IsrProcRx, IsrProcErr,
              IsrUnmask
<1>2. CASE Tasklet
  BY <1>2 DEF Tasklet, TaskletBegin, TaskletStep, TaskletEnd
<1>3. CASE Napi
  BY <1>3 DEF Napi, NapiBegin, NapiStep, Reported, NapiComplete, NapiEnd
<1>4. CASE Admin
  BY <1>4 DEF Admin, Open, OpenRead, OpenWrite, OpenEnd, Stop, StopRead, StopWrite,
              StopTasklet, StopTaskletWait, StopNapi
<1>5. CASE \E s \in Senders : Xmit(s)
  BY <1>5 DEF Xmit
<1>6. CASE ChipFetch \/ ChipDone \/ ChipStore \/ ChipError
  BY <1>6 DEF ChipFetch, ChipDone, ChipStore, ChipError
<1>7. CASE UNCHANGED vars
  BY <1>7 DEF vars
<1> QED
  BY <1>1, <1>2, <1>3, <1>4, <1>5, <1>6, <1>7 DEF Next
-----------------------------------------------------------------------------
(* One lemma per action, one step per part of the invariant. *)

LEMMA QueueNodes == TxTypes => Unused \subseteq Nodes /\ Inused \subseteq Nodes
BY DEF TxTypes, Unused, Inused, ToSet

LEMMA ChipNodes ==
    ASSUME TxTypes, ChipSuffix
    PROVE  /\ \A i \in 1 .. Len(fifo) : fifo[i].node \in Inused
           /\ sending # None => sending.node \in Inused
<1>1. Len(fifo) \in Nat /\ Len(inused) \in Nat /\ inused \in Seq(Nodes)
  BY DEF TxTypes
<1>2. \A i \in 1 .. Len(inused) : inused[i] \in Inused
  BY <1>1, ToSetElem DEF Inused
<1>3. ASSUME NEW i \in 1 .. Len(fifo) PROVE fifo[i].node \in Inused
  <2>1. Len(inused) - Len(fifo) + i \in 1 .. Len(inused)
    BY <1>1 DEF ChipSuffix
  <2> QED
    BY <1>2, <2>1 DEF ChipSuffix
<1>4. ASSUME sending # None PROVE sending.node \in Inused
  <2>1. Len(inused) - Len(fifo) \in 1 .. Len(inused)
    BY <1>1, <1>4 DEF ChipSuffix
  <2> QED
    BY <1>2, <1>4, <2>1 DEF ChipSuffix
<1> QED
  BY <1>3, <1>4

(* XmitCall *)
LEMMA XmitCallStep ==
    ASSUME TxInv, NEW s \in Senders, XmitCall(s)
    PROVE  TxInv'
<1> USE GmacTxAssumption DEF TxInv, chipTxVars, nodeVars, taskVars
<1>1. (CHOOSE k \in Skbs : k \notin held) \in Skbs \ held
  BY DEF XmitCall, TxTypes
<1>2. TxTypes'
  BY <1>1 DEF XmitCall, Idle, TxTypes, Locals
<1>3. Locals'
  BY <1>1 DEF XmitCall, Idle, Locals, TxTypes, Apart
<1>4. Apart'
  BY <1>1 DEF XmitCall, Idle, Apart, Unused, Inused, TxTypes, Locals
<1>5. OneHolder'
  BY <1>1 DEF XmitCall, Idle, OneHolder, InFlight, Inused, TxTypes, Locals
<1>6. ChipSuffix'
  BY <1>1 DEF XmitCall, Idle, ChipSuffix, TxTypes, Locals
<1>7. ChipStarted'
  BY <1>1 DEF XmitCall, Idle, ChipStarted, InChipState, TxTypes, Locals
<1>8. LimitInv'
  BY <1>1 DEF XmitCall, Idle, LimitInv, TxTypes, Locals
<1> QED
  BY <1>2, <1>3, <1>4, <1>5, <1>6, <1>7, <1>8

(* XmitDrop *)
LEMMA XmitDropStep ==
    ASSUME TxInv, NEW s \in Senders, XmitDrop(s)
    PROVE  TxInv'
<1> USE GmacTxAssumption DEF TxInv, chipTxVars, nodeVars, taskVars
<1>1. TxTypes'
  BY DEF XmitDrop, XmitReturn, Idle, TxTypes, Locals
<1>2. Locals'
  BY DEF XmitDrop, XmitReturn, Idle, Locals, TxTypes, Apart
<1>3. Apart'
  BY DEF XmitDrop, XmitReturn, Idle, Apart, Unused, Inused, TxTypes, Locals
<1>4. OneHolder'
  BY DEF XmitDrop, XmitReturn, Idle, OneHolder, InFlight, Inused, TxTypes, Locals
<1>5. ChipSuffix'
  BY DEF XmitDrop, XmitReturn, Idle, ChipSuffix, TxTypes, Locals
<1>6. ChipStarted'
  BY DEF XmitDrop, XmitReturn, Idle, ChipStarted, InChipState, TxTypes, Locals
<1>7. LimitInv'
  BY DEF XmitDrop, XmitReturn, Idle, LimitInv, TxTypes, Locals
<1> QED
  BY <1>1, <1>2, <1>3, <1>4, <1>5, <1>6, <1>7

(* XmitMap *)
LEMMA XmitMapStep ==
    ASSUME TxInv, NEW s \in Senders, XmitMap(s)
    PROVE  TxInv'
<1> USE GmacTxAssumption DEF TxInv, chipTxVars, nodeVars, taskVars
<1>1. TxTypes'
  BY DEF XmitMap, TxTypes, Locals
<1>2. Locals'
  BY DEF XmitMap, Locals, TxTypes, Apart
<1>3. Apart'
  BY DEF XmitMap, Apart, Unused, Inused, TxTypes, Locals
<1>4. OneHolder'
  BY DEF XmitMap, OneHolder, InFlight, Inused, TxTypes, Locals
<1>5. ChipSuffix'
  BY DEF XmitMap, ChipSuffix, TxTypes, Locals
<1>6. ChipStarted'
  BY DEF XmitMap, ChipStarted, InChipState, TxTypes, Locals
<1>7. LimitInv'
  BY DEF XmitMap, LimitInv, TxTypes, Locals
<1> QED
  BY <1>1, <1>2, <1>3, <1>4, <1>5, <1>6, <1>7

(* XmitNoNode *)
LEMMA XmitNoNodeStep ==
    ASSUME TxInv, NEW s \in Senders, XmitNoNode(s)
    PROVE  TxInv'
<1> USE GmacTxAssumption DEF TxInv, chipTxVars, nodeVars, taskVars
<1>1. TxTypes'
  BY DEF XmitNoNode, XmitReturn, Idle, TxTypes, Locals
<1>2. Locals'
  BY DEF XmitNoNode, XmitReturn, Idle, Locals, TxTypes, Apart
<1>3. Apart'
  BY DEF XmitNoNode, XmitReturn, Idle, Apart, Unused, Inused, TxTypes, Locals
<1>4. OneHolder'
  BY DEF XmitNoNode, XmitReturn, Idle, OneHolder, InFlight, Inused, TxTypes, Locals
<1>5. ChipSuffix'
  BY DEF XmitNoNode, XmitReturn, Idle, ChipSuffix, TxTypes, Locals
<1>6. ChipStarted'
  BY DEF XmitNoNode, XmitReturn, Idle, ChipStarted, InChipState, TxTypes, Locals
<1>7. LimitInv'
  BY DEF XmitNoNode, XmitReturn, Idle, LimitInv, TxTypes, Locals
<1> QED
  BY <1>1, <1>2, <1>3, <1>4, <1>5, <1>6, <1>7

(* XmitAcquire *)
LEMMA XmitAcquireStep ==
    ASSUME TxInv, NEW s \in Senders, XmitAcquire(s)
    PROVE  TxInv'
<1> USE GmacTxAssumption DEF TxInv, chipTxVars, nodeVars, taskVars
<1>1. /\ Head(unused) \in Nodes /\ Head(unused) \in Unused /\ Unused' = Unused \ {Head(unused)}
      /\ unused' \in Seq(Nodes) /\ NoDup(unused')
  BY TailQueue DEF XmitAcquire, TxTypes, Apart, Unused
<1>2. Head(unused) \notin Inused /\ Head(unused) # tnode /\ Inused' = Inused
  BY <1>1 DEF XmitAcquire, Apart, Inused, Unused
<1>3. \A t \in Senders : xm[t].node # Head(unused)
  BY <1>1 DEF Apart
<1>4. \A i \in 1 .. Len(inused) : inused[i] # Head(unused)
  BY <1>2, ToSetElem DEF Inused, TxTypes
<1>5. TxTypes'
  BY <1>1, <1>2, <1>3, <1>4 DEF XmitAcquire, TxTypes, Locals
<1>6. Locals'
  BY <1>1, <1>2, <1>3, <1>4 DEF XmitAcquire, Locals, TxTypes, Apart
<1>7. Apart'
  BY <1>1, <1>2, <1>3, <1>4 DEF XmitAcquire, Apart, Unused, Inused, TxTypes, Locals
<1>8. OneHolder'
  BY <1>1, <1>2, <1>3, <1>4 DEF XmitAcquire, OneHolder, InFlight, Inused, TxTypes, Locals
<1>9. ChipSuffix'
  BY <1>1, <1>2, <1>3, <1>4 DEF XmitAcquire, ChipSuffix, TxTypes, Locals
<1>10. ChipStarted'
  BY <1>1, <1>2, <1>3, <1>4 DEF XmitAcquire, ChipStarted, InChipState, TxTypes, Locals
<1>11. LimitInv'
  BY <1>1, <1>2, <1>3, <1>4 DEF XmitAcquire, LimitInv, TxTypes, Locals
<1> QED
  BY <1>5, <1>6, <1>7, <1>8, <1>9, <1>10, <1>11

(* XmitEnque *)
LEMMA XmitEnqueStep ==
    ASSUME TxInv, NEW s \in Senders, XmitEnque(s)
    PROVE  TxInv'
<1> USE GmacTxAssumption DEF TxInv, chipTxVars, nodeVars, taskVars
<1>1. xm[s].node \in Nodes /\ xm[s].skb \in Skbs /\ xm[s].node # None /\ xm[s].node \notin Inused
  BY DEF XmitEnque, TxTypes, Locals, Apart
<1>2. /\ Inused' = Inused \cup {xm[s].node} /\ inused' \in Seq(Nodes)
      /\ Len(inused') = Len(inused) + 1 /\ NoDup(inused')
  BY <1>1, AppendQueue DEF XmitEnque, TxTypes, Apart, Inused
<1>3. Unused' = Unused /\ None \notin Unused \cup Inused'
  BY <1>1, <1>2, QueueNodes DEF XmitEnque, Unused
<1>4. fifo' \in Seq(Descriptors) /\ Len(fifo') = Len(fifo) + 1
  BY <1>1, AppendQueue DEF XmitEnque, TxTypes, Descriptors
<1>5. TxTypes'
  BY <1>1, <1>2, <1>3, <1>4 DEF XmitEnque, Idle, TxTypes, Locals
<1>6. Locals'
  BY <1>1, <1>2, <1>3, <1>4 DEF XmitEnque, Idle, Locals, TxTypes, Apart
<1>7. Apart'
  BY <1>1, <1>2, <1>3, <1>4 DEF XmitEnque, Idle, Apart, TxTypes, Locals
<1>8. OneHolder'
  BY <1>1, <1>2, <1>3, <1>4 DEF XmitEnque, Idle, OneHolder, InFlight, Inused, TxTypes, Locals
<1>9. ChipSuffix'
  <2>1. \A i \in 1 .. Len(inused) : inused'[i] = inused[i]
    BY <1>1 DEF XmitEnque, TxTypes
  <2>2. inused'[Len(inused) + 1] = xm[s].node
    BY <1>1 DEF XmitEnque, TxTypes
  <2>3. \A i \in 1 .. Len(fifo) : fifo'[i] = fifo[i]
    BY <1>1 DEF XmitEnque, TxTypes, Descriptors
  <2>4. fifo'[Len(fifo) + 1].node = xm[s].node
    BY <1>1 DEF XmitEnque, TxTypes, Descriptors
  <2>5. sending' = sending /\ Len(fifo) \in Nat /\ Len(inused) \in Nat
    BY DEF XmitEnque, TxTypes
  <2>6. ASSUME NEW i \in 1 .. Len(fifo') PROVE inused'[Len(inused') - Len(fifo') + i] = fifo'[i].node
    <3>1. CASE i \in 1 .. Len(fifo)
      <4>1. /\ Len(inused) - Len(fifo) + i \in 1 .. Len(inused)
            /\ Len(inused') - Len(fifo') + i = Len(inused) - Len(fifo) + i
        BY <1>2, <1>4, <2>5, <3>1 DEF ChipSuffix
      <4> QED
        BY <2>1, <2>3, <3>1, <4>1 DEF ChipSuffix
    <3>2. CASE i = Len(fifo) + 1
      <4>1. Len(inused') - Len(fifo') + i = Len(inused) + 1
        BY <1>2, <1>4, <2>5, <3>2
      <4> QED
        BY <2>2, <2>4, <3>2, <4>1
    <3> QED
      BY <1>4, <2>5, <3>1, <3>2
  <2>7. ASSUME sending # None PROVE inused'[Len(inused') - Len(fifo')] = sending.node
    <3>1. /\ Len(inused) - Len(fifo) \in 1 .. Len(inused)
          /\ Len(inused') - Len(fifo') = Len(inused) - Len(fifo)
      BY <1>2, <1>4, <2>5, <2>7 DEF ChipSuffix
    <3> QED
      BY <2>1, <2>7, <3>1 DEF ChipSuffix
  <2>8. Len(fifo') <= Len(inused') /\ (sending # None => Len(fifo') < Len(inused'))
    BY <1>2, <1>4, <2>5 DEF ChipSuffix
  <2> QED
    BY <2>5, <2>6, <2>7, <2>8 DEF ChipSuffix
<1>10. ChipStarted'
  BY <1>1, <1>2, <1>3, <1>4 DEF XmitEnque, Idle, ChipStarted, InChipState, TxTypes, Locals
<1>11. LimitInv'
  BY <1>1, <1>2, <1>3, <1>4 DEF XmitEnque, Idle, LimitInv, TxTypes, Locals
<1> QED
  BY <1>5, <1>6, <1>7, <1>8, <1>9, <1>10, <1>11

(* XmitChipFull *)
LEMMA XmitChipFullStep ==
    ASSUME TxInv, NEW s \in Senders, XmitChipFull(s)
    PROVE  TxInv'
<1> USE GmacTxAssumption DEF TxInv, chipTxVars, nodeVars, taskVars
<1>1. TxTypes'
  <2>1. xm' = [xm EXCEPT ![s] = [xm[s] EXCEPT !.pc = "undo"]]
    BY DEF XmitChipFull
  <2>2. [xm[s] EXCEPT !.pc = "undo"]
          \in [pc : {"idle", "check", "acquire", "enque", "undo"},
              skb : Skbs \cup {None}, node : Nodes \cup {None}]
    BY DEF TxTypes
  <2>3. xm' \in [Senders -> [pc : {"idle", "check", "acquire", "enque", "undo"},
                             skb : Skbs \cup {None}, node : Nodes \cup {None}]]
    BY <2>1, <2>2 DEF TxTypes
  <2>4. UNCHANGED <<unused, inused, txSkb, txState, held, fifo, sending, tpc, limit, tnode, tskb>>
    BY DEF XmitChipFull
  <2> QED
    BY <2>3, <2>4 DEF TxTypes
<1>2. Locals'
  BY DEF XmitChipFull, Locals, TxTypes, Apart
<1>3. Apart'
  BY DEF XmitChipFull, Apart, Unused, Inused, TxTypes, Locals
<1>4. OneHolder'
  BY DEF XmitChipFull, OneHolder, InFlight, Inused, TxTypes, Locals
<1>5. ChipSuffix'
  BY DEF XmitChipFull, ChipSuffix, TxTypes, Locals
<1>6. ChipStarted'
  BY DEF XmitChipFull, ChipStarted, InChipState, TxTypes, Locals
<1>7. LimitInv'
  BY DEF XmitChipFull, LimitInv, TxTypes, Locals
<1> QED
  BY <1>1, <1>2, <1>3, <1>4, <1>5, <1>6, <1>7

(* XmitUndo *)
LEMMA XmitUndoStep ==
    ASSUME TxInv, NEW s \in Senders, XmitUndo(s)
    PROVE  TxInv'
<1> USE GmacTxAssumption DEF TxInv, chipTxVars, nodeVars, taskVars
<1>1. xm[s].node \in Nodes /\ xm[s].node # None /\ xm[s].node \notin Inused \cup Unused /\ xm[s].skb \in Skbs
  BY DEF XmitUndo, TxTypes, Locals, Apart
<1>2. /\ unused' \in Seq(Nodes) /\ Unused' = Unused \cup {xm[s].node} /\ NoDup(unused') /\ Inused' = Inused
  BY <1>1, AppendQueue DEF XmitUndo, Recycle, TxTypes, Apart, Unused, Inused
<1>3. \A i \in 1 .. Len(inused) : inused[i] # xm[s].node
  BY <1>1, ToSetElem DEF Inused, TxTypes
<1>4. /\ \A i \in 1 .. Len(fifo) : fifo[i].node \in Inused
      /\ sending # None => sending.node \in Inused
  BY ChipNodes
<1>5. None \notin Unused' \cup Inused'
  BY <1>1, <1>2, QueueNodes
<1>6. TxTypes'
  BY <1>1, <1>2, <1>3, <1>4, <1>5 DEF XmitUndo, Recycle, XmitReturn, Idle, TxTypes, Locals
<1>7. Locals'
  BY <1>1, <1>2, <1>3, <1>4, <1>5 DEF XmitUndo, Recycle, XmitReturn, Idle, Locals, TxTypes,
     Apart
<1>8. Apart'
  BY <1>1, <1>2, <1>3, <1>4, <1>5 DEF XmitUndo, Recycle, XmitReturn, Idle, Apart, TxTypes,
     Locals
<1>9. OneHolder'
  BY <1>1, <1>2, <1>3, <1>4, <1>5 DEF XmitUndo, Recycle, XmitReturn, Idle, OneHolder,
     InFlight, Inused, TxTypes, Locals
<1>10. ChipSuffix'
  BY <1>1, <1>2, <1>3, <1>4, <1>5 DEF XmitUndo, Recycle, XmitReturn, Idle, ChipSuffix,
     TxTypes, Locals
<1>11. ChipStarted'
  BY <1>1, <1>2, <1>3, <1>4, <1>5 DEF XmitUndo, Recycle, XmitReturn, Idle, ChipStarted,
     InChipState, TxTypes, Locals
<1>12. LimitInv'
  BY <1>1, <1>2, <1>3, <1>4, <1>5 DEF XmitUndo, Recycle, XmitReturn, Idle, LimitInv, TxTypes,
     Locals
<1> QED
  BY <1>6, <1>7, <1>8, <1>9, <1>10, <1>11, <1>12

(* TaskCount *)
LEMMA TaskCountStep ==
    ASSUME TxInv, TaskCount
    PROVE  TxInv'
<1> USE GmacTxAssumption DEF TxInv, chipTxVars, nodeVars, taskVars
<1>1. TxTypes'
  BY DEF TaskCount, TxTypes, Locals
<1>2. Locals'
  BY DEF TaskCount, Locals, TxTypes, Apart
<1>3. Apart'
  BY DEF TaskCount, Apart, Unused, Inused, TxTypes, Locals
<1>4. OneHolder'
  BY DEF TaskCount, OneHolder, InFlight, Inused, TxTypes, Locals
<1>5. ChipSuffix'
  BY DEF TaskCount, ChipSuffix, TxTypes, Locals
<1>6. ChipStarted'
  BY DEF TaskCount, ChipStarted, InChipState, TxTypes, Locals
<1>7. LimitInv'
  BY DEF TaskCount, LimitInv, TxTypes, Locals
<1> QED
  BY <1>1, <1>2, <1>3, <1>4, <1>5, <1>6, <1>7

(* TaskNum *)
LEMMA TaskNumStep ==
    ASSUME TxInv, TaskNum
    PROVE  TxInv'
<1> USE GmacTxAssumption DEF TxInv, chipTxVars, nodeVars, taskVars
<1>1. TxTypes'
  BY DEF TaskNum, Finished, TxTypes, Locals
<1>2. Locals'
  BY DEF TaskNum, Finished, Locals, TxTypes, Apart
<1>3. Apart'
  BY DEF TaskNum, Finished, Apart, Unused, Inused, TxTypes, Locals
<1>4. OneHolder'
  BY DEF TaskNum, Finished, OneHolder, InFlight, Inused, TxTypes, Locals
<1>5. ChipSuffix'
  BY DEF TaskNum, Finished, ChipSuffix, TxTypes, Locals
<1>6. ChipStarted'
  BY DEF TaskNum, Finished, ChipStarted, InChipState, TxTypes, Locals
<1>7. LimitInv'
  BY DEF TaskNum, Finished, LimitInv, TxTypes, Locals
<1> QED
  BY <1>1, <1>2, <1>3, <1>4, <1>5, <1>6, <1>7

(* TaskDeque *)
LEMMA TaskDequeStep ==
    ASSUME TxInv, TaskDeque
    PROVE  TxInv'
<1> USE GmacTxAssumption DEF TxInv, chipTxVars, nodeVars, taskVars
<1>1. /\ Head(inused) \in Nodes /\ Head(inused) = inused[1] /\ Head(inused) \in Inused
      /\ inused' \in Seq(Nodes) /\ Len(inused') = Len(inused) - 1 /\ Len(inused) \in Nat \ {0}
      /\ \A i \in 1 .. Len(inused) - 1 : inused'[i] = inused[i + 1]
      /\ NoDup(inused') /\ Inused' = Inused \ {Head(inused)} /\ Unused' = Unused
  BY TailQueue DEF TaskDeque, TxTypes, Apart, Inused, Unused
<1>2. InFlight' = InFlight
  BY <1>1 DEF InFlight, TaskDeque, Locals
<1>3. TxTypes'
  BY <1>1, <1>2 DEF TaskDeque, LastDone, TxTypes, Locals
<1>4. Locals'
  BY <1>1, <1>2 DEF TaskDeque, LastDone, Locals, TxTypes, Apart
<1>5. Apart'
  BY <1>1, <1>2 DEF TaskDeque, LastDone, Apart, Unused, Inused, TxTypes, Locals
<1>6. OneHolder'
  BY <1>1, <1>2 DEF TaskDeque, LastDone, OneHolder, InFlight, Inused, TxTypes, Locals
<1>7. ChipSuffix'
  <2>1. Len(fifo) \in Nat /\ fifo' = fifo /\ sending' = sending /\ limit \in Nat \ {0}
    BY DEF TaskDeque, TxTypes
  <2>2. Len(fifo) <= Len(inused) - 1
    BY <1>1, <2>1 DEF TaskDeque, LimitInv
  <2>3. sending # None => Len(fifo) # Len(inused) - 1
    <3>1. SUFFICES ASSUME sending # None, Len(fifo) = Len(inused) - 1 PROVE FALSE
      OBVIOUS
    <3>2. limit = 1
      BY <1>1, <2>1, <3>1 DEF TaskDeque, LimitInv
    <3>3. txState[inused[1]] = "end"
      BY <1>1, <3>2 DEF TaskDeque, LastDone
    <3>4. inused[1] = sending.node
      BY <1>1, <2>1, <3>1 DEF ChipSuffix
    <3> QED
      BY <3>1, <3>3, <3>4 DEF ChipStarted, InChipState
  <2>4. ASSUME NEW i \in 1 .. Len(fifo)
        PROVE  inused'[Len(inused') - Len(fifo) + i] = fifo[i].node
    <3> DEFINE j == Len(inused') - Len(fifo) + i
    <3>1. j \in 1 .. Len(inused) - 1 /\ j + 1 = Len(inused) - Len(fifo) + i
      BY <1>1, <2>1, <2>2
    <3>2. inused'[j] = inused[j + 1]
      BY <1>1, <3>1
    <3> QED
      BY <3>1, <3>2 DEF ChipSuffix
  <2>5. ASSUME sending # None PROVE inused'[Len(inused') - Len(fifo)] = sending.node
    BY <1>1, <2>1, <2>2, <2>3, <2>5 DEF ChipSuffix
  <2> QED
    BY <1>1, <2>1, <2>2, <2>3, <2>4, <2>5 DEF ChipSuffix
<1>8. ChipStarted'
  BY <1>1, <1>2 DEF TaskDeque, LastDone, ChipStarted, InChipState, TxTypes, Locals
<1>9. LimitInv'
  BY <1>1, <1>2 DEF TaskDeque, LastDone, LimitInv, TxTypes, Locals
<1> QED
  BY <1>3, <1>4, <1>5, <1>6, <1>7, <1>8, <1>9

(* TaskStop *)
LEMMA TaskStopStep ==
    ASSUME TxInv, TaskStop
    PROVE  TxInv'
<1> USE GmacTxAssumption DEF TxInv, chipTxVars, nodeVars, taskVars
<1>1. TxTypes'
  BY DEF TaskStop, TxTypes, Locals
<1>2. Locals'
  BY DEF TaskStop, Locals, TxTypes, Apart
<1>3. Apart'
  BY DEF TaskStop, Apart, Unused, Inused, TxTypes, Locals
<1>4. OneHolder'
  BY DEF TaskStop, OneHolder, InFlight, Inused, TxTypes, Locals
<1>5. ChipSuffix'
  BY DEF TaskStop, ChipSuffix, TxTypes, Locals
<1>6. ChipStarted'
  BY DEF TaskStop, ChipStarted, InChipState, TxTypes, Locals
<1>7. LimitInv'
  BY DEF TaskStop, LimitInv, TxTypes, Locals
<1> QED
  BY <1>1, <1>2, <1>3, <1>4, <1>5, <1>6, <1>7

(* TaskPut *)
LEMMA TaskPutStep ==
    ASSUME TxInv, TaskPut
    PROVE  TxInv'
<1> USE GmacTxAssumption DEF TxInv, chipTxVars, nodeVars, taskVars
<1>1. tnode \in Nodes /\ tnode # None /\ tnode \notin Inused \cup Unused
  BY DEF TaskPut, TxTypes, Locals, Apart
<1>2. /\ unused' \in Seq(Nodes) /\ Unused' = Unused \cup {tnode} /\ NoDup(unused') /\ Inused' = Inused
  BY <1>1, AppendQueue DEF TaskPut, Recycle, TxTypes, Apart, Unused, Inused
<1>3. \A i \in 1 .. Len(inused) : inused[i] # tnode
  BY <1>1, ToSetElem DEF Inused, TxTypes
<1>4. /\ \A i \in 1 .. Len(fifo) : fifo[i].node \in Inused
      /\ sending # None => sending.node \in Inused
  BY ChipNodes
<1>5. None \notin Unused' \cup Inused'
  BY <1>1, <1>2, QueueNodes
<1>6. txSkb[tnode] \in Skbs
  BY <1>1 DEF OneHolder, InFlight, TxTypes
<1>7. TxTypes'
  BY <1>1, <1>2, <1>3, <1>4, <1>5, <1>6 DEF TaskPut, Recycle, TxTypes, Locals
<1>8. Locals'
  BY <1>1, <1>2, <1>3, <1>4, <1>5, <1>6 DEF TaskPut, Recycle, Locals, TxTypes, Apart
<1>9. Apart'
  BY <1>1, <1>2, <1>3, <1>4, <1>5, <1>6 DEF TaskPut, Recycle, Apart, TxTypes, Locals
<1>10. OneHolder'
  BY <1>1, <1>2, <1>3, <1>4, <1>5, <1>6 DEF TaskPut, Recycle, OneHolder, InFlight, Inused,
     TxTypes, Locals
<1>11. ChipSuffix'
  BY <1>1, <1>2, <1>3, <1>4, <1>5, <1>6 DEF TaskPut, Recycle, ChipSuffix, TxTypes, Locals
<1>12. ChipStarted'
  BY <1>1, <1>2, <1>3, <1>4, <1>5, <1>6 DEF TaskPut, Recycle, ChipStarted, InChipState,
     TxTypes, Locals
<1>13. LimitInv'
  BY <1>1, <1>2, <1>3, <1>4, <1>5, <1>6 DEF TaskPut, Recycle, LimitInv, TxTypes, Locals
<1> QED
  BY <1>7, <1>8, <1>9, <1>10, <1>11, <1>12, <1>13

(* TaskFree *)
LEMMA TaskFreeStep ==
    ASSUME TxInv, TaskFree
    PROVE  TxInv'
<1> USE GmacTxAssumption DEF TxInv, chipTxVars, nodeVars, taskVars
<1>1. TxTypes'
  BY DEF TaskFree, TxTypes, Locals
<1>2. Locals'
  BY DEF TaskFree, Locals, TxTypes, Apart
<1>3. Apart'
  BY DEF TaskFree, Apart, Unused, Inused, TxTypes, Locals
<1>4. OneHolder'
  BY DEF TaskFree, OneHolder, InFlight, Inused, TxTypes, Locals
<1>5. ChipSuffix'
  BY DEF TaskFree, ChipSuffix, TxTypes, Locals
<1>6. ChipStarted'
  BY DEF TaskFree, ChipStarted, InChipState, TxTypes, Locals
<1>7. LimitInv'
  BY DEF TaskFree, LimitInv, TxTypes, Locals
<1> QED
  BY <1>1, <1>2, <1>3, <1>4, <1>5, <1>6, <1>7

(* TaskExit *)
LEMMA TaskExitStep ==
    ASSUME TxInv, TaskExit
    PROVE  TxInv'
<1> USE GmacTxAssumption DEF TxInv, chipTxVars, nodeVars, taskVars
<1>1. TxTypes'
  BY DEF TaskExit, TxTypes, Locals
<1>2. Locals'
  BY DEF TaskExit, Locals, TxTypes, Apart
<1>3. Apart'
  BY DEF TaskExit, Apart, Unused, Inused, TxTypes, Locals
<1>4. OneHolder'
  BY DEF TaskExit, OneHolder, InFlight, Inused, TxTypes, Locals
<1>5. ChipSuffix'
  BY DEF TaskExit, ChipSuffix, TxTypes, Locals
<1>6. ChipStarted'
  BY DEF TaskExit, ChipStarted, InChipState, TxTypes, Locals
<1>7. LimitInv'
  BY DEF TaskExit, LimitInv, TxTypes, Locals
<1> QED
  BY <1>1, <1>2, <1>3, <1>4, <1>5, <1>6, <1>7

(* TxFetch *)
LEMMA TxFetchStep ==
    ASSUME TxInv, TxFetch
    PROVE  TxInv'
<1> USE GmacTxAssumption DEF TxInv, chipTxVars, nodeVars, taskVars
<1>1. /\ Head(fifo) \in Descriptors /\ Head(fifo) = fifo[1] /\ fifo' \in Seq(Descriptors)
      /\ Len(fifo') = Len(fifo) - 1 /\ Len(fifo) \in Nat \ {0}
      /\ \A i \in 1 .. Len(fifo) - 1 : fifo'[i] = fifo[i + 1]
  BY TailQueue DEF TxFetch, TxTypes
<1>2. TxTypes'
  BY <1>1 DEF TxFetch, TxTypes, Locals
<1>3. Locals'
  BY <1>1 DEF TxFetch, Locals, TxTypes, Apart
<1>4. Apart'
  BY <1>1 DEF TxFetch, Apart, Unused, Inused, TxTypes, Locals
<1>5. OneHolder'
  BY <1>1 DEF TxFetch, OneHolder, InFlight, Inused, TxTypes, Locals
<1>6. ChipSuffix'
  BY <1>1 DEF TxFetch, ChipSuffix, TxTypes, Locals
<1>7. ChipStarted'
  BY <1>1 DEF TxFetch, ChipStarted, InChipState, TxTypes, Locals
<1>8. LimitInv'
  BY <1>1 DEF TxFetch, LimitInv, TxTypes, Locals
<1> QED
  BY <1>2, <1>3, <1>4, <1>5, <1>6, <1>7, <1>8

(* TxDone *)
LEMMA TxDoneStep ==
    ASSUME TxInv, TxDone
    PROVE  TxInv'
<1> USE GmacTxAssumption DEF TxInv, chipTxVars, nodeVars, taskVars
<1>1. /\ \A i \in 1 .. Len(fifo) : fifo[i].node \in Inused
      /\ sending # None => sending.node \in Inused
  BY ChipNodes
<1>2. sending \in Descriptors /\ sending.node \in Nodes
  BY DEF TxDone, TxTypes, Descriptors
<1>3. \A i \in 1 .. Len(fifo) : fifo[i].node # sending.node
  <2> SUFFICES ASSUME NEW i \in 1 .. Len(fifo) PROVE fifo[i].node # sending.node
    OBVIOUS
  <2> DEFINE j == Len(inused) - Len(fifo)
  <2>1. Len(inused) \in Nat /\ Len(fifo) \in Nat
    BY DEF TxTypes
  <2>2. j \in 1 .. Len(inused) /\ j + i \in 1 .. Len(inused) /\ j # j + i
    BY <2>1 DEF TxDone, ChipSuffix
  <2>3. inused[j] = sending.node /\ inused[j + i] = fifo[i].node
    BY DEF TxDone, ChipSuffix
  <2> QED
    BY <2>2, <2>3 DEF Apart, NoDup
<1>4. \A t \in Senders : xm[t].node # sending.node
  BY <1>1 DEF TxDone, Apart
<1>5. TxTypes'
  BY <1>1, <1>2, <1>3, <1>4 DEF TxDone, TxTypes, Locals
<1>6. Locals'
  BY <1>1, <1>2, <1>3, <1>4 DEF TxDone, Locals, TxTypes, Apart
<1>7. Apart'
  BY <1>1, <1>2, <1>3, <1>4 DEF TxDone, Apart, Unused, Inused, TxTypes, Locals
<1>8. OneHolder'
  BY <1>1, <1>2, <1>3, <1>4 DEF TxDone, OneHolder, InFlight, Inused, TxTypes, Locals
<1>9. ChipSuffix'
  BY <1>1, <1>2, <1>3, <1>4 DEF TxDone, ChipSuffix, TxTypes, Locals
<1>10. ChipStarted'
  BY <1>1, <1>2, <1>3, <1>4 DEF TxDone, ChipStarted, InChipState, TxTypes, Locals
<1>11. LimitInv'
  BY <1>1, <1>2, <1>3, <1>4 DEF TxDone, LimitInv, TxTypes, Locals
<1> QED
  BY <1>5, <1>6, <1>7, <1>8, <1>9, <1>10, <1>11

LEMMA TxStep == TxInv /\ [Next]_vars => TxInv'
<1>1. ASSUME TxInv, UNCHANGED txVars PROVE TxInv'
  BY <1>1 DEF txVars, TxInv, TxTypes, Locals, Apart, Unused, Inused, OneHolder, InFlight,
              ChipSuffix, ChipStarted, InChipState, LimitInv
<1> QED
  BY <1>1, TxCases, XmitCallStep, XmitDropStep, XmitMapStep, XmitNoNodeStep, XmitAcquireStep,
     XmitEnqueStep, XmitChipFullStep, XmitUndoStep, TaskCountStep, TaskNumStep, TaskDequeStep,
     TaskStopStep, TaskPutStep, TaskFreeStep, TaskExitStep, TxFetchStep, TxDoneStep

LEMMA TxInitInv == Init => TxInv
<1> SUFFICES ASSUME Init PROVE TxInv
  OBVIOUS
<1> USE GmacTxAssumption DEF Init, TxInit
<1>1. unused \in Seq(Nodes) /\ NoDup(unused)
  <2> DEFINE n == Cardinality(Nodes)
  <2>1. PICK f \in [1 .. n -> Nodes] : IsInjective(f)
    <3>1. n \in Nat /\ ExistsBijection(1 .. n, Nodes)
      BY FS_CardinalityType
    <3> QED
      BY <3>1 DEF ExistsBijection, Bijection, Injection, IsInjective
  <2>2. unused \in [1 .. n -> Nodes] /\ IsInjective(unused)
    BY <2>1 DEF SetToSeq
  <2>3. n \in Nat
    BY FS_CardinalityType
  <2>4. unused \in Seq(Nodes) /\ Len(unused) = n /\ DOMAIN unused = 1 .. n
    BY <2>2, <2>3
  <2> QED
    BY <2>2, <2>4 DEF IsInjective, NoDup
<1>2. inused = <<>> /\ fifo = <<>> /\ Inused = {} /\ Unused \subseteq Nodes
  BY <1>1 DEF Inused, Unused, ToSet
<1>3. TxTypes
  BY <1>1 DEF TxTypes, Idle
<1>4. Locals
  BY DEF Locals, Idle
<1>5. Apart
  BY <1>1, <1>2 DEF Apart, NoDup, Idle
<1>6. OneHolder
  BY <1>2 DEF OneHolder, InFlight, Idle
<1>7. ChipSuffix /\ ChipStarted /\ LimitInv
  BY <1>2 DEF ChipSuffix, ChipStarted, LimitInv
<1> QED
  BY <1>3, <1>4, <1>5, <1>6, <1>7 DEF TxInv

(* The chip reads no packet that was freed or handed back and writes into   *)
(* no node that was recycled: in whatever order senders, the tasklet of     *)
(* eth_tx.c and the chip run, and whatever the rest of the driver does,     *)
(* what the chip was given stays held and queued until the chip is done.    *)
THEOREM ChipDataCorrect == Spec => []ChipDataAlive
<1>1. TxInv => ChipDataAlive
  <2> SUFFICES ASSUME TxInv, NEW d \in InChip
               PROVE  d.skb \in held /\ txSkb[d.node] = d.skb /\ d.node \in Inused
    BY DEF ChipDataAlive, Inused
  <2>1. d.node \in Inused /\ InChipState(d)
    <3>1. CASE d \in ToSet(fifo)
      <4>1. PICK i \in 1 .. Len(fifo) : d = fifo[i]
        BY <3>1 DEF ToSet, TxInv, TxTypes
      <4> QED
        BY <4>1, ChipNodes DEF TxInv, ChipStarted
    <3>2. CASE sending # None /\ d = sending
      BY <3>2, ChipNodes DEF TxInv, ChipStarted
    <3> QED
      BY <3>1, <3>2 DEF InChip
  <2>2. txSkb[d.node] \in held
    BY <2>1 DEF TxInv, OneHolder, InFlight
  <2> QED
    BY <2>1, <2>2 DEF InChipState
<1> QED
  BY TxInitInv, TxStep, <1>1, PTL DEF Spec

-----------------------------------------------------------------------------
(* No node is lost: the other half of the conservation of nodes, whose     *)
(* first half is Apart.                                                    *)
NodesCovered ==
    \A n \in Nodes : \/ n \in Unused \/ n \in Inused \/ n = tnode
                     \/ \E s \in Senders : xm[s].node = n

LEMMA CoveredInit == Init => NodesCovered
<1> SUFFICES ASSUME Init PROVE Nodes \subseteq Unused
  BY DEF NodesCovered
<1> USE GmacTxAssumption DEF Init, TxInit
<1> DEFINE n == Cardinality(Nodes)
<1>1. n \in Nat /\ ExistsBijection(1 .. n, Nodes)
  BY FS_CardinalityType
<1>2. PICK f \in [1 .. n -> Nodes] : IsInjective(f)
  BY <1>1 DEF ExistsBijection, Bijection, Injection, IsInjective
<1>3. unused \in [1 .. n -> Nodes] /\ IsInjective(unused)
  BY <1>2 DEF SetToSeq
<1>4. unused \in Injection(1 .. n, Nodes)
  BY <1>3 DEF Injection, IsInjective
<1>5. Cardinality(1 .. n) = n
  BY <1>1, FS_Interval
<1>6. unused \in Surjection(1 .. n, Nodes)
  BY <1>4, <1>5, FS_Injection
<1> QED
  BY <1>3, <1>6 DEF Surjection, Unused, ToSet

LEMMA CoveredStep == TxInv /\ NodesCovered /\ [Next]_vars => NodesCovered'
<1> SUFFICES ASSUME TxInv, NodesCovered, [Next]_vars PROVE NodesCovered'
  OBVIOUS
<1> USE GmacTxAssumption DEF TxInv, NodesCovered, chipTxVars, nodeVars, taskVars
<1>1. ASSUME NEW s \in Senders,
             XmitCall(s) \/ XmitDrop(s) \/ XmitMap(s) \/ XmitNoNode(s) \/ XmitChipFull(s)
      PROVE  NodesCovered'
  <2>1. UNCHANGED <<unused, inused, tnode>>
    BY <1>1 DEF XmitCall, XmitDrop, XmitMap, XmitNoNode, XmitChipFull
  <2>2. \A t \in Senders : xm'[t].node = xm[t].node
    <3> USE DEF TxTypes, Locals, Idle
    <3>1. CASE XmitCall(s)
      BY <3>1 DEF XmitCall
    <3>2. CASE XmitDrop(s)
      BY <3>2 DEF XmitDrop, XmitReturn
    <3>3. CASE XmitMap(s)
      BY <3>3 DEF XmitMap
    <3>4. CASE XmitNoNode(s)
      BY <3>4 DEF XmitNoNode, XmitReturn
    <3>5. CASE XmitChipFull(s)
      BY <3>5 DEF XmitChipFull
    <3> QED
      BY <1>1, <3>1, <3>2, <3>3, <3>4, <3>5
  <2> QED
    BY <2>1, <2>2 DEF Unused, Inused
<1>2. ASSUME NEW s \in Senders, XmitAcquire(s) PROVE NodesCovered'
  <2>1. Unused' = Unused \ {Head(unused)} /\ Inused' = Inused /\ tnode' = tnode
    BY <1>2, TailQueue DEF XmitAcquire, TxTypes, Apart, Unused, Inused
  <2>2. /\ xm'[s].node = Head(unused) /\ xm[s].node = None
        /\ \A t \in Senders \ {s} : xm'[t].node = xm[t].node
    BY <1>2 DEF XmitAcquire, TxTypes, Locals
  <2> QED
    BY <2>1, <2>2
<1>3. ASSUME NEW s \in Senders, XmitEnque(s) PROVE NodesCovered'
  <2>1. xm[s].node \in Nodes
    BY <1>3 DEF XmitEnque, TxTypes, Locals
  <2>2. Inused' = Inused \cup {xm[s].node} /\ Unused' = Unused /\ tnode' = tnode
    BY <1>3, <2>1, AppendQueue DEF XmitEnque, TxTypes, Inused, Unused
  <2>3. \A t \in Senders \ {s} : xm'[t].node = xm[t].node
    BY <1>3 DEF XmitEnque
  <2> QED
    BY <2>2, <2>3
<1>4. ASSUME NEW s \in Senders, XmitUndo(s) PROVE NodesCovered'
  <2>1. xm[s].node \in Nodes
    BY <1>4 DEF XmitUndo, TxTypes, Locals
  <2>2. Unused' = Unused \cup {xm[s].node} /\ Inused' = Inused /\ tnode' = tnode
    BY <1>4, <2>1, AppendQueue DEF XmitUndo, Recycle, TxTypes, Inused, Unused
  <2>3. \A t \in Senders \ {s} : xm'[t].node = xm[t].node
    BY <1>4 DEF XmitUndo, XmitReturn
  <2> QED
    BY <2>2, <2>3
<1>5. CASE TaskDeque
  <2>1. /\ Inused' = Inused \ {Head(inused)} /\ Unused' = Unused /\ xm' = xm
        /\ tnode = None /\ tnode' = Head(inused)
    BY <1>5, TailQueue DEF TaskDeque, TxTypes, Apart, Locals, Inused, Unused
  <2> QED
    BY <2>1
<1>6. CASE TaskPut
  <2>1. tnode \in Nodes
    BY <1>6 DEF TaskPut, TxTypes, Locals
  <2>2. Unused' = Unused \cup {tnode} /\ Inused' = Inused /\ xm' = xm
    BY <1>6, <2>1, AppendQueue DEF TaskPut, Recycle, TxTypes, Inused, Unused
  <2> QED
    BY <2>2
<1>7. CASE TaskCount \/ TaskNum \/ TaskStop \/ TaskFree \/ TaskExit \/ TxFetch \/ TxDone
           \/ UNCHANGED txVars
  <2>1. UNCHANGED <<unused, inused, tnode, xm>>
    BY <1>7 DEF TaskCount, TaskNum, TaskStop, TaskFree, TaskExit, TxFetch, TxDone, txVars
  <2> QED
    BY <2>1 DEF Unused, Inused
<1> QED
  BY <1>1, <1>2, <1>3, <1>4, <1>5, <1>6, <1>7, TxCases

(* A queue without duplicates is as long as the set of its elements. *)
LEMMA QueueCount ==
    ASSUME NEW S, NEW q \in Seq(S), NoDup(q)
    PROVE  IsFiniteSet(ToSet(q)) /\ Cardinality(ToSet(q)) = Len(q)
<1>1. Len(q) \in Nat /\ q \in [1 .. Len(q) -> ToSet(q)] /\ DOMAIN q = 1 .. Len(q)
  BY DEF ToSet
<1>2. q \in Bijection(1 .. Len(q), ToSet(q))
  BY <1>1 DEF Bijection, Injection, Surjection, IsInjective, NoDup, ToSet
<1>3. ExistsBijection(1 .. Len(q), ToSet(q))
  BY <1>2 DEF ExistsBijection
<1> QED
  BY <1>1, <1>3, FS_CountingElements, FS_NatBijection

(* Sets that have no element in common. *)
LEMMA UnionCount ==
    ASSUME NEW S, NEW T, IsFiniteSet(S), IsFiniteSet(T), S \cap T = {}
    PROVE  /\ IsFiniteSet(S \cup T)
           /\ Cardinality(S \cup T) = Cardinality(S) + Cardinality(T)
<1> DEFINE I == S \cap T  s == Cardinality(S)  t == Cardinality(T)
<1>1. Cardinality(I) = 0
  BY FS_EmptySet
<1>2. s \in Nat /\ t \in Nat
  BY FS_CardinalityType
<1>3. IsFiniteSet(S \cup T) /\ Cardinality(S \cup T) = s + t - Cardinality(I)
  BY FS_Union
<1> HIDE DEF I, s, t
<1>4. IsFiniteSet(S \cup T) /\ Cardinality(S \cup T) = s + t
  BY <1>1, <1>2, <1>3
<1> QED
  BY <1>4 DEF s, t

(* The nodes of the senders. *)
Filled == {xm[s].node : s \in Filling}

LEMMA FilledCount ==
    ASSUME TxTypes, Apart
    PROVE  IsFiniteSet(Filled) /\ Cardinality(Filled) = Cardinality(Filling)
<1> DEFINE f == [s \in Filling |-> xm[s].node]
<1>1. Filled \subseteq Nodes
  BY DEF Filled, Filling, TxTypes
<1>2. IsFiniteSet(Filled)
  BY <1>1, GmacTxAssumption, FS_Subset
<1>3. f \in Injection(Filling, Filled)
  BY DEF Injection, IsInjective, Filled, Filling, Apart
<1>4. f \in Surjection(Filling, Filled)
  BY DEF Surjection, Filled
<1> HIDE DEF f
<1> QED
  BY <1>2, <1>3, <1>4, FS_Injection

(* Nodes that are apart and covered are conserved, and counted right. *)
LEMMA CoveredConserves ==
    ASSUME TxInv, NodesCovered
    PROVE  NodesConserved
<1> DEFINE T == {tnode} \ {None}
<1>1. TxTypes /\ Apart
  BY DEF TxInv
<1>2. /\ IsFiniteSet(Unused) /\ Cardinality(Unused) = Len(unused)
      /\ IsFiniteSet(Inused) /\ Cardinality(Inused) = Len(inused)
  BY <1>1, QueueCount DEF TxTypes, Apart, Unused, Inused
<1>3. IsFiniteSet(Filled) /\ Cardinality(Filled) = Cardinality(Filling)
  BY <1>1, FilledCount
<1>4. IsFiniteSet(T) /\ Cardinality(T) = IF tnode = None THEN 0 ELSE 1
  <2>1. CASE tnode = None
    BY <2>1, FS_EmptySet
  <2>2. CASE tnode # None
    <3>1. T = {tnode}
      BY <2>2
    <3> QED
      BY <2>2, <3>1, FS_Singleton
  <2> QED
    BY <2>1, <2>2
<1>5. Unused \cup Inused \cup Filled \cup T = Nodes
  <2>1. Unused \cup Inused \cup Filled \cup T \subseteq Nodes
    BY <1>1, QueueNodes DEF Filled, Filling, TxTypes
  <2>2. ASSUME NEW n \in Nodes PROVE n \in Unused \cup Inused \cup Filled \cup T
    BY GmacTxAssumption DEF NodesCovered, Filled, Filling
  <2> QED
    BY <2>1, <2>2
<1>6. /\ Unused \cap Inused = {} /\ (Unused \cup Inused) \cap Filled = {}
      /\ (Unused \cup Inused \cup Filled) \cap T = {}
  BY <1>1 DEF Apart, Filled, Filling
<1> HIDE DEF T
<1>7. /\ IsFiniteSet(Unused \cup Inused)
      /\ Cardinality(Unused \cup Inused) = Len(unused) + Len(inused)
  <2>1. /\ IsFiniteSet(Unused \cup Inused)
        /\ Cardinality(Unused \cup Inused) = Cardinality(Unused) + Cardinality(Inused)
    BY <1>2, <1>6, UnionCount, Zenon
  <2> QED
    BY <1>2, <2>1
<1>8. /\ IsFiniteSet(Unused \cup Inused \cup Filled)
      /\ Cardinality(Unused \cup Inused \cup Filled)
           = Len(unused) + Len(inused) + Cardinality(Filling)
  <2>1. /\ IsFiniteSet(Unused \cup Inused \cup Filled)
        /\ Cardinality(Unused \cup Inused \cup Filled)
             = Cardinality(Unused \cup Inused) + Cardinality(Filled)
    BY <1>3, <1>6, <1>7, UnionCount, Zenon
  <2> QED
    BY <1>3, <1>7, <2>1
<1>9. Cardinality(Nodes) = Len(unused) + Len(inused) + Cardinality(Filling) + Cardinality(T)
  BY <1>4, <1>5, <1>6, <1>8, UnionCount
<1> QED
  BY <1>4, <1>5, <1>9 DEF NodesConserved, Unused, Inused, Filled, T

(* Every descriptor node is in one place - a queue, the hands of one       *)
(* sender or of the tasklet of eth_tx.c - and none is lost, on every path  *)
(* of gmac_tx_add_bd and gmac_tx_free_bd and for any number of senders.    *)
THEOREM NodesCorrect == Spec => []NodesConserved
  BY TxInitInv, TxStep, CoveredInit, CoveredStep, CoveredConserves, PTL DEF Spec
=============================================================================
