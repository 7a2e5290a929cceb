------------------------------- MODULE GmacRx -------------------------------
(***************************************************************************)
(* The receive half of the Linux gmac driver:                              *)
(* src/non_real_time/drivers/gmac/eth_rx.c, in interrupt mode              *)
(* (g_rx_mode = 0).                                                        *)
(*                                                                         *)
(* The ring has one buffer per slot; the chip is given their addresses     *)
(* through a FIFO and fills them in the order it got them.  A buffer is    *)
(* "empty" while its length field is 0, "good" or "bad" when a packet the  *)
(* driver delivers or refuses is in it, "null" when the slot has none.     *)
(***************************************************************************)
EXTENDS Integers, Sequences, SequencesExt

CONSTANTS RingSize,  \* GMAC_RX_BD_RING_SIZE
          Budget,    \* the NAPI weight
          MaxNoMem   \* bound: failures of dev_alloc_skb

ASSUME GmacRxAssumption == /\ RingSize \in Nat \ {0} /\ Budget \in Nat \ {0}
                           /\ MaxNoMem \in Nat

Slots == 0 .. RingSize - 1

VARIABLES ring, rxCurr,  \* rx_bd_ring, rx_skb_curr
          rxFifo,        \* the chip: slots whose buffers it may fill, in order
          rpc, done,     \* gmac_eth_rx: program counter and packet_done
          noMem          \* allocations that failed so far

rxVars == <<ring, rxCurr, rxFifo, rpc, done, noMem>>

RxTypeOK ==
    /\ ring \in [Slots -> {"null", "empty", "good", "bad"}]
    /\ rxCurr \in Slots
    /\ rxFifo \in Seq(Slots) /\ Len(rxFifo) <= RingSize
    /\ rpc \in {"idle", "loop", "fill", "break", "unmask"}
    /\ done \in 0 .. Budget - 1
    /\ noMem \in 0 .. MaxNoMem

(* gmac_rx_fill_all_buff: the chip is given all buffers in ring order. *)
AllFilled == [i \in 1 .. RingSize |-> i - 1]

(* gmac_rx_init_ring has found memory for every buffer. *)
RxInit == /\ ring = [s \in Slots |-> "empty"] /\ rxCurr = 0
          /\ rxFifo = AllFilled
          /\ rpc = "idle" /\ done = 0
          /\ noMem = 0

-----------------------------------------------------------------------------
Next1(s) == (s + 1) % RingSize

(* RX_FILL_DONE: the next slot, and the budget; when it is spent,          *)
(* gmac_eth_rx returns without napi_complete.                              *)
Advance ==
    /\ rxCurr' = Next1(rxCurr)
    /\ IF done + 1 >= Budget THEN rpc' = "idle" /\ done' = 0
                             ELSE rpc' = "loop" /\ done' = done + 1

PollStart ==
    /\ rpc = "idle" /\ rpc' = "loop" /\ done' = 0
    /\ UNCHANGED <<ring, rxCurr, rxFifo, noMem>>

(* The slot has no buffer, since an allocation failed earlier.             *)
PollNull ==
    /\ rpc = "loop" /\ ring[rxCurr] = "null"
    /\ rpc' = "fill"
    /\ UNCHANGED <<ring, rxCurr, rxFifo, done, noMem>>

(* netif_receive_skb: the buffer is gone, the slot is to be filled.        *)
PollDeliver ==
    /\ rpc = "loop" /\ ring[rxCurr] = "good"
    /\ ring' = [ring EXCEPT ![rxCurr] = "null"]
    /\ rpc' = "fill"
    /\ UNCHANGED <<rxCurr, rxFifo, done, noMem>>

(* Mutant: a refused packet's buffer is not given back to the chip. *)
GiveToChipNot == rxFifo' = rxFifo

(* PCU_CSR_RX_CFF_ADDR: the buffer of the current slot, its length         *)
(* cleared, goes to the end of the chip's FIFO.                            *)
GiveToChip == rxFifo' = Append(rxFifo, rxCurr)

(* RX_CHECK_ERR, gmac_rx_reuse_skb: the buffer is given to the chip again. *)
PollReuse ==
    /\ rpc = "loop" /\ ring[rxCurr] = "bad"
    /\ ring' = [ring EXCEPT ![rxCurr] = "empty"]
    /\ GiveToChip
    /\ Advance
    /\ UNCHANGED noMem

PollBreak ==
    /\ rpc = "loop" /\ ring[rxCurr] = "empty"
    /\ rpc' = "break"
    /\ UNCHANGED <<ring, rxCurr, rxFifo, done, noMem>>

(* gmac_rx_fill_one_buff *)
PollFill ==
    /\ rpc = "fill"
    /\ ring' = [ring EXCEPT ![rxCurr] = "empty"]
    /\ GiveToChip
    /\ Advance
    /\ UNCHANGED noMem

(* No memory: the poll returns its budget and will be called again, the    *)
(* slot stays empty and current.                                           *)
PollNoMem ==
    /\ rpc = "fill" /\ noMem < MaxNoMem
    /\ noMem' = noMem + 1
    /\ rpc' = "idle" /\ done' = 0
    /\ UNCHANGED <<ring, rxCurr, rxFifo>>

(* napi_complete and gmac_auto_pause_enable *)
PollComplete ==
    /\ rpc = "break" /\ rpc' = "unmask"
    /\ UNCHANGED <<ring, rxCurr, rxFifo, done, noMem>>

(* gmac_eth_rx_int_en, and the return *)
PollUnmask ==
    /\ rpc = "unmask" /\ rpc' = "idle" /\ done' = 0
    /\ UNCHANGED <<ring, rxCurr, rxFifo, noMem>>

(* The chip stores a packet in the first buffer of its FIFO.               *)
RxArrive(kind) ==
    /\ rxFifo # <<>>
    /\ ring' = [ring EXCEPT ![Head(rxFifo)] = kind]
    /\ rxFifo' = Tail(rxFifo)
    /\ UNCHANGED <<rxCurr, rpc, done, noMem>>

-----------------------------------------------------------------------------
(* Slots in the order gmac_eth_rx visits them, from the current one.       *)
Visit == [i \in 1 .. RingSize |-> (rxCurr + i - 1) % RingSize]

(* The driver and the chip agree on the order of the ring: the chip will   *)
(* fill exactly the empty slots, in the order in which the driver will     *)
(* look at them, and between the current slot and them there are only      *)
(* filled ones.  So packets are delivered in the order of their arrival    *)
(* and a full slot is never behind an empty one, also after allocations    *)
(* have failed and buffers were used again.                                *)
RingInOrder ==
    LET waiting == Len(rxFifo)
        full    == RingSize - waiting
    IN  /\ waiting <= RingSize
        /\ \A i \in 1 .. RingSize : ring[Visit[i]] = "empty" <=> i > full
        /\ \A i \in 1 .. waiting : rxFifo[i] = Visit[full + i]
        /\ \A i \in 2 .. RingSize : ring[Visit[i]] # "null"
=============================================================================
