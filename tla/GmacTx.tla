------------------------------- MODULE GmacTx -------------------------------
(***************************************************************************)
(* The transmit half of the Linux gmac driver:                             *)
(* src/non_real_time/drivers/gmac/eth_tx.c and the queues of gmac.h.       *)
(*                                                                         *)
(* Descriptor nodes travel unused -> a sender -> inused -> the tasklet ->  *)
(* unused; each queue has a spinlock of its own, so a transmission and the *)
(* tasklet interleave between the two.  The chip holds a FIFO of           *)
(* descriptors (node and packet address) and works on one at a time.       *)
(* Registers of the interrupt controller belong to module Gmac.            *)
(***************************************************************************)
EXTENDS Integers, Sequences, FiniteSets, SequencesExt

CONSTANTS Nodes,    \* descriptor nodes, GMAC_TX_BD_RING_SIZE of them
          Skbs,     \* identities of packets; a freed one may be allocated again
          Senders,  \* contexts that call ndo_start_xmit: the stack (under its
                    \* queue lock) and the loopback test (without it)
          None      \* NULL

ASSUME GmacTxAssumption ==
    /\ IsFiniteSet(Nodes) /\ Nodes # {}
    /\ None \notin Nodes \cup Skbs

VARIABLES unused, inused,  \* gmac_txbd_unused, gmac_txbd_inused
          txSkb, txState,  \* tx_skb_buff and tx_state of each node
          held,            \* packets the driver answers for (not freed, not given back)
          fifo, sending,   \* the chip: descriptors written, and the one fetched
          xm,              \* xm[s]: program counter and locals of sender s
          tpc, limit,      \* the tasklet: program counter, descriptors left to free
          tnode, tskb      \* the tasklet: node and packet in its hands

chipTxVars == <<fifo, sending>>
nodeVars   == <<txSkb, txState>>
taskVars   == <<tpc, limit, tnode, tskb>>
txVars     == <<unused, inused, txSkb, txState, held, fifo, sending, xm, tpc,
                limit, tnode, tskb>>

Descriptors == [node : Nodes, skb : Skbs]
Idle == [pc |-> "idle", skb |-> None, node |-> None]

(* The chip takes CHIP_TX_FIFO_NUM - 1 descriptors; there are as many      *)
(* nodes as CHIP_TX_FIFO_NUM.                                              *)
FifoMax == Cardinality(Nodes) - 1

TxTypeOK ==
    /\ unused \in Seq(Nodes) /\ inused \in Seq(Nodes)
    /\ txSkb \in [Nodes -> Skbs \cup {None}]
    /\ txState \in [Nodes -> {"idle", "start", "end"}]
    /\ held \subseteq Skbs
    /\ fifo \in Seq(Descriptors) /\ Len(fifo) <= FifoMax
    /\ sending \in Descriptors \cup {None}
    /\ xm \in [Senders -> [pc : {"idle", "check", "acquire", "enque", "undo"},
                           skb : Skbs \cup {None}, node : Nodes \cup {None}]]
    /\ tpc \in {"idle", "num", "recycle", "put", "free", "exit"}
    /\ limit \in 0 .. Cardinality(Nodes)
    /\ tnode \in Nodes \cup {None} /\ tskb \in Skbs \cup {None}

TxInit ==
    /\ unused = SetToSeq(Nodes) /\ inused = <<>>
    /\ txSkb = [n \in Nodes |-> None] /\ txState = [n \in Nodes |-> "idle"]
    /\ held = {}
    /\ fifo = <<>> /\ sending = None
    /\ xm = [s \in Senders |-> Idle]
    /\ tpc = "idle" /\ limit = 0 /\ tnode = None /\ tskb = None

-----------------------------------------------------------------------------
(* gmac_eth_tx, gmac_tx_add_bd *)

(* The sender hands a packet over; which free identity it has is of no     *)
(* consequence.                                                            *)
XmitCall(s) ==
    /\ xm[s].pc = "idle" /\ held # Skbs
    /\ LET skb == CHOOSE k \in Skbs : k \notin held
       IN  /\ held' = held \cup {skb}
           /\ xm' = [xm EXCEPT ![s] = [Idle EXCEPT !.pc = "check", !.skb = skb]]
    /\ UNCHANGED <<unused, inused, nodeVars, chipTxVars, taskVars>>

(* The packet leaves the driver (freed, or handed back with                *)
(* NETDEV_TX_BUSY) and the call returns.                                   *)
XmitReturn(s) ==
    /\ held' = held \ {xm[s].skb}
    /\ xm' = [xm EXCEPT ![s] = Idle]

(* The device is closed, or the length is refused: the packet is freed.    *)
XmitDrop(s) ==
    /\ xm[s].pc = "check"
    /\ XmitReturn(s)
    /\ UNCHANGED <<unused, inused, nodeVars, chipTxVars, taskVars>>

XmitMap(s) ==
    /\ xm[s].pc = "check"
    /\ xm' = [xm EXCEPT ![s].pc = "acquire"]
    /\ UNCHANGED <<unused, inused, nodeVars, held, chipTxVars, taskVars>>

(* gmac_tx_buffers_accquire found no node: NETDEV_TX_BUSY.                 *)
XmitNoNode(s) ==
    /\ xm[s].pc = "acquire" /\ unused = <<>>
    /\ XmitReturn(s)
    /\ UNCHANGED <<unused, inused, nodeVars, chipTxVars, taskVars>>

(* The node is the sender's alone until it is queued, so filling it in     *)
(* belongs to the same step.                                               *)
XmitAcquire(s) ==
    /\ xm[s].pc = "acquire" /\ unused # <<>>
    /\ unused' = Tail(unused)
    /\ txSkb' = [txSkb EXCEPT ![Head(unused)] = xm[s].skb]
    /\ txState' = [txState EXCEPT ![Head(unused)] = "start"]
    /\ xm' = [xm EXCEPT ![s].pc = "enque", ![s].node = Head(unused)]
    /\ UNCHANGED <<inused, held, chipTxVars, taskVars>>

(* Mutant: the chip's fill level is not looked at. *)
ChipFullNever == FALSE

ChipFull == Len(fifo) >= FifoMax

(* gmac_tx_bd_write and the enqueuing, under the lock of inused.           *)
XmitEnque(s) ==
    /\ xm[s].pc = "enque" /\ ~ChipFull
    /\ fifo' = Append(fifo, [node |-> xm[s].node, skb |-> xm[s].skb])
    /\ inused' = Append(inused, xm[s].node)
    /\ xm' = [xm EXCEPT ![s] = Idle]
    /\ UNCHANGED <<unused, nodeVars, held, sending, taskVars>>

XmitChipFull(s) ==
    /\ xm[s].pc = "enque" /\ ChipFull
    /\ xm' = [xm EXCEPT ![s].pc = "undo"]
    /\ UNCHANGED <<unused, inused, nodeVars, held, chipTxVars, taskVars>>

(* gmac_recycle_tx_buffer_process up to the enqueuing on unused.           *)
Recycle(n) ==
    /\ txSkb' = [txSkb EXCEPT ![n] = None]
    /\ txState' = [txState EXCEPT ![n] = "idle"]
    /\ unused' = Append(unused, n)

(* Mutant: the failure path forgets the node. *)
XmitUndoLeaks(s) ==
    /\ xm[s].pc = "undo"
    /\ XmitReturn(s)
    /\ UNCHANGED <<unused, inused, nodeVars, chipTxVars, taskVars>>

(* ... with free_skb false: NETDEV_TX_BUSY, the packet stays the caller's. *)
XmitUndo(s) ==
    /\ xm[s].pc = "undo"
    /\ Recycle(xm[s].node)
    /\ XmitReturn(s)
    /\ UNCHANGED <<inused, chipTxVars, taskVars>>

-----------------------------------------------------------------------------
(* gmac_tx_free_bd, the tasklet *)

TaskCount ==
    /\ tpc = "idle"
    /\ limit' = Len(inused) /\ tpc' = "num"
    /\ UNCHANGED <<unused, inused, nodeVars, held, chipTxVars, xm, tnode, tskb>>

(* Of the nodes counted, the chip has fetched all but those in its FIFO.   *)
Finished(count) == IF count > Len(fifo) THEN count - Len(fifo) ELSE 0

TaskNum ==
    /\ tpc = "num"
    /\ limit' = Finished(limit)
    /\ tpc' = IF limit' = 0 THEN "exit" ELSE "recycle"
    /\ UNCHANGED <<unused, inused, nodeVars, held, chipTxVars, xm, tnode, tskb>>

(* Mutant: the last node fetched is recycled like the others. *)
LastDoneAlways == inused # <<>>

(* The last node the chip fetched may still be on the wire: the write-back *)
(* tells.  The head is read without the lock.                              *)
LastDone == inused # <<>> /\ txState[Head(inused)] = "end"

(* gmac_recycle_one_tx_buffer: all but the last are taken unconditionally. *)
TaskDeque ==
    /\ tpc = "recycle" /\ inused # <<>>
    /\ limit > 1 \/ (limit = 1 /\ LastDone)
    /\ inused' = Tail(inused)
    /\ tnode' = Head(inused) /\ tpc' = "put" /\ limit' = limit - 1
    /\ UNCHANGED <<unused, nodeVars, held, chipTxVars, xm, tskb>>

TaskStop ==
    /\ tpc = "recycle"
    /\ inused = <<>> \/ limit = 0 \/ (limit = 1 /\ ~LastDone)
    /\ tpc' = "exit" /\ limit' = 0
    /\ UNCHANGED <<unused, inused, nodeVars, held, chipTxVars, xm, tnode, tskb>>

(* The node is free for senders before its packet is.                      *)
TaskPut ==
    /\ tpc = "put"
    /\ Recycle(tnode)
    /\ tskb' = txSkb[tnode] /\ tnode' = None /\ tpc' = "free"
    /\ UNCHANGED <<inused, held, chipTxVars, xm, limit>>

TaskFree ==
    /\ tpc = "free"
    /\ held' = held \ {tskb} /\ tskb' = None /\ tpc' = "recycle"
    /\ UNCHANGED <<unused, inused, nodeVars, chipTxVars, xm, limit, tnode>>

TaskExit ==
    /\ tpc = "exit" /\ tpc' = "idle"
    /\ UNCHANGED <<unused, inused, nodeVars, held, chipTxVars, xm, limit, tnode, tskb>>

-----------------------------------------------------------------------------
(* The chip *)

TxFetch ==
    /\ sending = None /\ fifo # <<>>
    /\ sending' = Head(fifo) /\ fifo' = Tail(fifo)
    /\ UNCHANGED <<unused, inused, nodeVars, held, xm, taskVars>>

(* wb = 1: 0 (GMAC_TX_END) is written to the node's tx_state.              *)
TxDone ==
    /\ sending # None
    /\ sending' = None
    /\ txState' = [txState EXCEPT ![sending.node] = "end"]
    /\ UNCHANGED <<unused, inused, txSkb, held, fifo, xm, taskVars>>

-----------------------------------------------------------------------------
InChip == ToSet(fifo) \cup (IF sending = None THEN {} ELSE {sending})

(* The senders that hold a node. *)
Filling == {s \in Senders : xm[s].node # None}

(* A descriptor node is in one place only - a queue, a sender's hands or   *)
(* the tasklet's - and none is lost on any path of gmac_tx_add_bd and      *)
(* gmac_tx_free_bd.                                                        *)
NodesConserved ==
    /\ Len(unused) + Len(inused) + Cardinality(Filling)
         + (IF tnode = None THEN 0 ELSE 1) = Cardinality(Nodes)
    /\ ToSet(unused) \cup ToSet(inused) \cup {xm[s].node : s \in Filling}
         \cup ({tnode} \ {None}) = Nodes

(* What the chip may still read is there: the packet of every descriptor   *)
(* in the FIFO or on the wire has not been freed or handed back, and its   *)
(* node, into which the chip will write, is still queued for it.           *)
ChipDataAlive ==
    \A d \in InChip : /\ d.skb \in held
                      /\ txSkb[d.node] = d.skb
                      /\ d.node \in ToSet(inused)
=============================================================================
