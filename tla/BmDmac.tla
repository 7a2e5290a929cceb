------------------------------- MODULE BmDmac -------------------------------
(***************************************************************************)
(* The real-time DMA driver, src/real_time/drivers/dma/dmac.c: callers     *)
(* that run synchronous and asynchronous transfers over shared channels,   *)
(* the completion interrupt, and the controller.                           *)
(*                                                                         *)
(* Callers are tasks of a preemptive system, so they interleave at every   *)
(* access to shared state; the search for a channel is under a semaphore,  *)
(* the rest is not.  Transfers are numbered in the order of the calls.      *)
(***************************************************************************)
EXTENDS Integers, FiniteSets, FiniteSetsExt

CONSTANTS Callers,
          NumChannels,  \* the channels the device tree declares
          MaxCalls,     \* bound: transfers asked for
          OneCore,      \* the interrupt is served on the callers' core and
                        \* stops them
          None          \* NULL

ASSUME BmDmacAssumption == /\ IsFiniteSet(Callers)
                           /\ {NumChannels, MaxCalls} \subseteq Nat \ {0}
                           /\ OneCore \in BOOLEAN

Channels  == 0 .. NumChannels - 1
Transfers == 1 .. MaxCalls
Outcomes  == {"ok", "fail"}

ASSUME NoneAssumption == /\ None \notin Channels \cup Transfers
                         /\ None \notin Outcomes \cup {"sync", "async"}

VARIABLES sem,                 \* g_sem is free
          start,               \* g_dmac_start_flag
          cb,                  \* the callback in g_callback_info: the driver's own
                               \* for a synchronous call, or that of the caller
          flag, status,        \* g_dmac_sync_complete_flag, g_dmac_sync_status
          run, pend, mask,     \* the controller: transfer on each channel, pending
                               \* completion, channels whose interrupt is enabled
          hpc, hs, hcb,        \* bm_dmac_interrupt_handle: place, channels and
                               \* outcomes read, callback copied
          calls,               \* transfers asked for so far
          pc, num, kind, chan, snap, ret,  \* the callers: place, number of the
                               \* transfer, and locals
          outcome,             \* how the transfer of each synchronous caller ended
          spoilt               \* channels on which a wait expired, or that were
                               \* taken while a transfer was running

hwVars   == <<run, pend, mask>>
irqVars  == <<hpc, hs, hcb>>
callVars == <<calls, pc, num, kind, chan, snap, ret>>
ghosts   == <<outcome, spoilt>>
vars     == <<sem, start, cb, flag, status, hwVars, irqVars, callVars, ghosts>>

TypeOK ==
    /\ sem \in BOOLEAN
    /\ start \in [Channels -> BOOLEAN] /\ flag \in [Channels -> BOOLEAN]
    /\ cb \in [Channels -> {"sync", "async", None}]
    /\ status \in [Channels -> Outcomes \cup {None}]
    /\ run \in [Channels -> Transfers \cup {None}]
    /\ pend \in [Channels -> Outcomes \cup {None}]
    /\ mask \subseteq Channels
    /\ hpc \in {"idle", "clear", "call", "status", "null"}
    /\ hs \in [Channels -> Outcomes \cup {None}]
    /\ hcb \in {"sync", "async", None}
    /\ pc \in [Callers -> {"idle", "sem", "read", "scan", "clean", "mask_r",
                           "mask_w", "reg", "go", "wait", "late", "stat", "rel"}]
    /\ kind \in [Callers -> {"sync", "async", None}]
    /\ calls \in 0 .. MaxCalls /\ num \in [Callers -> 0 .. MaxCalls]
    /\ chan \in [Callers -> Channels \cup {None}]
    /\ snap \in [Callers -> SUBSET Channels]
    /\ ret \in [Callers -> {"ok", "fail", "timeout", None}]
    /\ outcome \in [Callers -> Outcomes \cup {None}]
    /\ spoilt \subseteq Channels

(* bm_dmac_init has run. *)
Init ==
    /\ sem = TRUE
    /\ start = [i \in Channels |-> FALSE] /\ flag = [i \in Channels |-> FALSE]
    /\ cb = [i \in Channels |-> None] /\ status = [i \in Channels |-> None]
    /\ run = [i \in Channels |-> None] /\ pend = [i \in Channels |-> None]
    /\ mask = {}
    /\ hpc = "idle" /\ hs = [i \in Channels |-> None] /\ hcb = None
    /\ pc = [c \in Callers |-> "idle"] /\ kind = [c \in Callers |-> None]
    /\ calls = 0 /\ num = [c \in Callers |-> 0] /\ chan = [c \in Callers |-> None]
    /\ snap = [c \in Callers |-> {}] /\ ret = [c \in Callers |-> None]
    /\ outcome = [c \in Callers |-> None]
    /\ spoilt = {}

-----------------------------------------------------------------------------
(* Callers *)

(* The interrupt handler stops the callers of its core. *)
At(c, l) == pc[c] = l /\ (OneCore => hpc = "idle")
Goto(c, l) == pc' = [pc EXCEPT ![c] = l]

(* The function returns (BM_FAIL, or the value in ret); the locals are     *)
(* gone.                                                                   *)
Return(c) ==
    /\ Goto(c, "idle")
    /\ num' = [num EXCEPT ![c] = 0]
    /\ kind' = [kind EXCEPT ![c] = None]
    /\ chan' = [chan EXCEPT ![c] = None]
    /\ snap' = [snap EXCEPT ![c] = {}]
    /\ ret' = [ret EXCEPT ![c] = None]
    /\ outcome' = [outcome EXCEPT ![c] = None]
    /\ UNCHANGED <<calls, spoilt>>

(* bm_dmac_transmit_sync or bm_dmac_transmit_async with valid arguments. *)
Call(c) ==
    /\ At(c, "idle") /\ calls < MaxCalls
    /\ \E k \in {"sync", "async"} : kind' = [kind EXCEPT ![c] = k]
    /\ calls' = calls + 1 /\ num' = [num EXCEPT ![c] = calls']
    /\ Goto(c, "sem")
    /\ UNCHANGED <<sem, start, cb, flag, status, hwVars, irqVars, chan, snap, ret, ghosts>>

(* find_idle_channel: osal_sem_down_timeout ... *)
SemDown(c) ==
    /\ At(c, "sem") /\ sem
    /\ sem' = FALSE /\ Goto(c, "read")
    /\ UNCHANGED <<start, cb, flag, status, hwVars, irqVars, calls, num, kind, chan, snap, ret, ghosts>>

(* ... which gives up after 50 ms. *)
SemTimeout(c) ==
    /\ At(c, "sem") /\ ~sem
    /\ Return(c)
    /\ UNCHANGED <<sem, start, cb, flag, status, hwVars, irqVars>>

(* The status of all channels is read first ... *)
ReadStatus(c) ==
    /\ At(c, "read")
    /\ snap' = [snap EXCEPT ![c] = {i \in Channels : run[i] # None}]
    /\ Goto(c, "scan")
    /\ UNCHANGED <<sem, start, cb, flag, status, hwVars, irqVars, calls, num, kind, chan, ret, ghosts>>

(* Mutant: the start flag is not looked at. *)
TakeableIgnoresFlag(i) == TRUE

(* ... then the start flags, one channel after the other: snap grows by    *)
(* the channels that are passed over.                                      *)
Takeable(i) == ~start[i]

(* The loop is at channel i, the lowest it has not passed over. *)
Looking(c, i) == At(c, "scan") /\ \A j \in Channels \ snap[c] : i <= j

ScanSkip(c) ==
    \E i \in Channels \ snap[c] :
      /\ Looking(c, i) /\ ~Takeable(i)
      /\ snap' = [snap EXCEPT ![c] = @ \cup {i}]
      /\ UNCHANGED <<sem, start, cb, flag, status, hwVars, irqVars, calls, pc, num, kind, chan, ret, ghosts>>

ScanTake(c) ==
    \E i \in Channels \ snap[c] :
      /\ Looking(c, i) /\ Takeable(i)
      /\ start' = [start EXCEPT ![i] = TRUE]
      /\ chan' = [chan EXCEPT ![c] = i]
      /\ spoilt' = IF run[i] = None THEN spoilt ELSE spoilt \cup {i}
      /\ snap' = [snap EXCEPT ![c] = {}]
      /\ sem' = TRUE /\ Goto(c, "clean")
      /\ UNCHANGED <<cb, flag, status, hwVars, irqVars, calls, num, kind, ret, outcome>>

(* Mutant: the failure path keeps the semaphore. *)
ScanNoneKeepsSem(c) ==
    /\ At(c, "scan") /\ snap[c] = Channels
    /\ Return(c)
    /\ UNCHANGED <<sem, start, cb, flag, status, hwVars, irqVars>>

(* Mutant: the index past the last channel is not noticed. *)
ScanNonePastEnd(c) ==
    /\ At(c, "scan") /\ snap[c] = Channels
    /\ sem' = TRUE /\ Goto(c, "clean")
    /\ chan' = [chan EXCEPT ![c] = NumChannels] /\ snap' = [snap EXCEPT ![c] = {}]
    /\ UNCHANGED <<start, cb, flag, status, hwVars, irqVars, calls, num, kind, ret, ghosts>>

ScanNone(c) ==
    /\ At(c, "scan") /\ snap[c] = Channels
    /\ sem' = TRUE
    /\ Return(c)
    /\ UNCHANGED <<start, cb, flag, status, hwVars, irqVars>>

(* bm_dmac_transmission_int_clean *)
Clean(c) ==
    /\ At(c, "clean")
    /\ pend' = [pend EXCEPT ![chan[c]] = None]
    /\ Goto(c, "mask_r")
    /\ UNCHANGED <<sem, start, cb, flag, status, run, mask, irqVars, calls, num, kind,
                   chan, snap, ret, ghosts>>

(* bm_dmac_channel_int_switch: an unprotected read-modify-write. *)
MaskRead(c) ==
    /\ At(c, "mask_r")
    /\ snap' = [snap EXCEPT ![c] = mask] /\ Goto(c, "mask_w")
    /\ UNCHANGED <<sem, start, cb, flag, status, hwVars, irqVars, calls, num, kind,
                   chan, ret, ghosts>>

MaskWrite(c) ==
    /\ At(c, "mask_w")
    /\ mask' = snap[c] \cup {chan[c]} /\ snap' = [snap EXCEPT ![c] = {}]
    /\ Goto(c, "reg")
    /\ UNCHANGED <<sem, start, cb, flag, status, run, pend, irqVars, calls, num, kind,
                   chan, ret, ghosts>>

(* An asynchronous transfer is refused while a callback is registered; the *)
(* start flag stays set.                                                   *)
Refuse(c) ==
    /\ At(c, "reg") /\ kind[c] = "async" /\ cb[chan[c]] # None
    /\ Return(c)
    /\ UNCHANGED <<sem, start, cb, flag, status, hwVars, irqVars>>

Register(c) ==
    /\ At(c, "reg") /\ (kind[c] = "async" => cb[chan[c]] = None)
    /\ cb' = [cb EXCEPT ![chan[c]] = kind[c]]
    /\ Goto(c, "go")
    /\ UNCHANGED <<sem, start, flag, status, hwVars, irqVars, calls, num, kind, chan,
                   snap, ret, ghosts>>

(* bm_dmac_transmit_start.  On a channel that is still busy the transfer   *)
(* under way is lost.                                                      *)
Go(c) ==
    /\ At(c, "go")
    /\ run' = [run EXCEPT ![chan[c]] = num[c]]
    /\ IF kind[c] = "sync" THEN Goto(c, "wait") /\ UNCHANGED ret
                           ELSE Goto(c, "rel") /\ ret' = [ret EXCEPT ![c] = "ok"]
    /\ UNCHANGED <<sem, start, cb, flag, status, pend, mask, irqVars, calls, num, kind,
                   chan, snap, ghosts>>

(* bm_dmac_wait_complete *)
(* Mutant: the flag is not taken down. *)
WaitDoneKeepsFlag(c) ==
    /\ At(c, "wait") /\ flag[chan[c]]
    /\ Goto(c, "stat")
    /\ UNCHANGED <<sem, start, cb, flag, status, hwVars, irqVars, calls, num, kind, chan,
                   snap, ret, ghosts>>

WaitDone(c) ==
    /\ At(c, "wait") /\ flag[chan[c]]
    /\ flag' = [flag EXCEPT ![chan[c]] = FALSE] /\ Goto(c, "stat")
    /\ UNCHANGED <<sem, start, cb, status, hwVars, irqVars, calls, num, kind, chan, snap,
                   ret, ghosts>>

(* The last look at the flag before the count runs out (BM_WAIT_FOREVER is *)
(* a count as well); a completion in the delay that follows comes too late. *)
WaitLastLook(c) ==
    /\ At(c, "wait") /\ ~flag[chan[c]]
    /\ Goto(c, "late")
    /\ UNCHANGED <<sem, start, cb, flag, status, hwVars, irqVars, calls, num, kind, chan,
                   snap, ret, ghosts>>

WaitExpire(c) ==
    /\ At(c, "late")
    /\ ret' = [ret EXCEPT ![c] = "timeout"] /\ Goto(c, "rel")
    /\ spoilt' = spoilt \cup {chan[c]}
    /\ UNCHANGED <<sem, start, cb, flag, status, hwVars, irqVars, calls, num, kind, chan,
                   snap, outcome>>

WaitStatus(c) ==
    /\ At(c, "stat")
    /\ ret' = [ret EXCEPT ![c] = IF status[chan[c]] = "ok" THEN "ok" ELSE "fail"]
    /\ Goto(c, "rel")
    /\ UNCHANGED <<sem, start, cb, flag, status, hwVars, irqVars, calls, num, kind, chan,
                   snap, ghosts>>

(* The start flag is cleared and the call returns. *)
Release(c) ==
    /\ At(c, "rel")
    /\ start' = [start EXCEPT ![chan[c]] = FALSE]
    /\ Return(c)
    /\ UNCHANGED <<sem, cb, flag, status, hwVars, irqVars>>

Caller(c) ==
    \/ SemDown(c) \/ SemTimeout(c) \/ ReadStatus(c)
    \/ ScanSkip(c) \/ ScanTake(c) \/ ScanNone(c) \/ Clean(c) \/ MaskRead(c) \/ MaskWrite(c) \/ Refuse(c) \/ Register(c) \/ Go(c)
    \/ WaitDone(c) \/ WaitLastLook(c) \/ WaitExpire(c) \/ WaitStatus(c) \/ Release(c)

-----------------------------------------------------------------------------
(* The controller ends the transfer of a channel. *)
Finish(i) ==
    /\ run[i] # None
    /\ \E o \in Outcomes :
         /\ pend' = [pend EXCEPT ![i] = o]
         /\ outcome' = [c \in Callers |-> IF num[c] = run[i] /\ kind[c] = "sync" THEN o ELSE outcome[c]]
    /\ run' = [run EXCEPT ![i] = None]
    /\ UNCHANGED <<sem, start, cb, flag, status, mask, irqVars, callVars, spoilt>>

(* bm_dmac_interrupt_handle *)
Raised == {i \in mask : pend[i] # None}
Serving == Min({i \in Channels : hs[i] # None})

IrqEnter ==
    /\ hpc = "idle" /\ Raised # {}
    /\ hs' = [i \in Channels |-> IF i \in Raised THEN pend[i] ELSE None]
    /\ hpc' = "clear"
    /\ UNCHANGED <<sem, start, cb, flag, status, hwVars, hcb, callVars, ghosts>>

(* The next channel, or the end of the loop. *)
IrqNext ==
    /\ hs' = [hs EXCEPT ![Serving] = None] /\ hcb' = None
    /\ hpc' = IF \A i \in Channels : hs'[i] = None THEN "idle" ELSE "clear"

IrqClear ==
    /\ hpc = "clear"
    /\ pend' = [pend EXCEPT ![Serving] = None]
    /\ hcb' = cb[Serving] /\ hpc' = "call"
    /\ UNCHANGED <<sem, start, cb, flag, status, run, mask, hs, callVars, ghosts>>

IrqNoCallback ==
    /\ hpc = "call" /\ hcb = None
    /\ IrqNext
    /\ UNCHANGED <<sem, start, cb, flag, status, hwVars, callVars, ghosts>>

(* dmac_transmit_sync_callback: the flag first, then the status. *)
IrqSync ==
    /\ hpc = "call" /\ hcb = "sync"
    /\ flag' = [flag EXCEPT ![Serving] = TRUE] /\ hpc' = "status"
    /\ UNCHANGED <<sem, start, cb, status, hwVars, hs, hcb, callVars, ghosts>>

IrqSyncStatus ==
    /\ hpc = "status"
    /\ status' = [status EXCEPT ![Serving] = hs[Serving]] /\ hpc' = "null"
    /\ UNCHANGED <<sem, start, cb, flag, hwVars, hs, hcb, callVars, ghosts>>

(* The caller's own callback; it starts no transfer. *)
IrqAsync ==
    /\ hpc = "call" /\ hcb = "async"
    /\ hpc' = "null"
    /\ UNCHANGED <<sem, start, cb, flag, status, hwVars, hs, hcb, callVars, ghosts>>

IrqNull ==
    /\ hpc = "null"
    /\ cb' = [cb EXCEPT ![Serving] = None]
    /\ IrqNext
    /\ UNCHANGED <<sem, start, flag, status, hwVars, callVars, ghosts>>

Irq == \/ IrqEnter \/ IrqClear \/ IrqNoCallback \/ IrqSync \/ IrqSyncStatus
       \/ IrqAsync \/ IrqNull

Next == \/ \E c \in Callers : Call(c) \/ Caller(c)
        \/ \E i \in Channels : Finish(i)
        \/ Irq

Spec == Init /\ [][Next]_vars

-----------------------------------------------------------------------------
(* The semaphore is taken exactly while one caller searches, so that no    *)
(* failed search leaves the driver without it.                             *)
Searching == {c \in Callers : pc[c] \in {"read", "scan"}}

SemHeld == /\ sem = (Searching = {})
           /\ \A c, d \in Searching : c = d

(* Two callers never have the same channel between find_idle_channel and   *)
(* the end of the call, and the start flag of a channel somebody has is    *)
(* set.                                                                    *)
ChannelHeldOnce ==
    \A c, d \in Callers :
      chan[c] # None => /\ start[chan[c]]
                        /\ c # d => chan[c] # chan[d]

(* "Check whether the channel is idle": nobody programs a channel on which *)
(* a transfer is running.                                                  *)
ChannelIdle ==
    \A c \in Callers :
      pc[c] \in {"clean", "mask_r", "mask_w", "reg", "go"} => run[chan[c]] = None

(* A synchronous call reports how its own transfer ended - on every        *)
(* channel on which no wait has expired before and that was not taken      *)
(* while a transfer was running: these two are the only ways in which a    *)
(* call gets the completion of another transfer.                           *)
SyncOwnResult ==
    \A c \in Callers :
      (kind[c] = "sync" /\ pc[c] = "rel" /\ ret[c] # "timeout" /\ chan[c] \notin spoilt)
        => ret[c] = outcome[c]
=============================================================================
