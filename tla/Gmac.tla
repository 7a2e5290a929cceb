-------------------------------- MODULE Gmac --------------------------------
(***************************************************************************)
(* The Linux gmac driver, src/non_real_time/drivers/gmac: its two halves   *)
(* (GmacTx, GmacRx) meet in the interrupt registers of the chip, which     *)
(* gmac_interrupt_handle, the transmit tasklet, the NAPI poll, gmac_open   *)
(* and gmac_stop (gmac.c) all read and write.                              *)
(*                                                                         *)
(* A bit set in mask enables its interrupt.  Every writer but open and     *)
(* stop writes the mask under mac_lock; the handler reads it before it     *)
(* takes the lock.  The handler stops whatever runs on its CPU; tasklet    *)
(* and poll run on the CPU whose handler scheduled them, senders, open and *)
(* stop on any.                                                            *)
(***************************************************************************)
EXTENDS GmacTx, GmacRx

CONSTANTS Cpus,     \* the CPUs that are online
          IrqCpus,  \* those the interrupt may be routed to
          MaxWork,  \* bound: packets handed over by senders or stored by the chip
          MaxFault  \* bound: error interrupts, failed allocations and calls
                    \* of gmac_stop, together

ASSUME GmacAssumption == IrqCpus \subseteq Cpus /\ {MaxWork, MaxFault} \subseteq Nat

VARIABLES mask, stat,                 \* CF_INTRPT_MSK, CF_INTRPT_STAT
          isr, src, imask, istat,     \* gmac_interrupt_handle and its locals,
          icpu, tcpu, ncpu,           \* the CPUs of handler, tasklet and poll
          tsched, tdis,               \* the tasklet is scheduled, disabled
          napi, missed,               \* NAPI: off, idle or scheduled; missed
          opened, hwOn,               \* the driver's flag, the MAC is enabled
          apc, amask,                 \* gmac_open, gmac_stop: place, local mask
          work, errs, stops           \* what the environment has done so far

isrVars  == <<isr, src, imask, istat, icpu>>
softVars == <<tsched, tdis, tcpu, napi, missed, ncpu>>
admVars  == <<opened, hwOn, apc, amask>>
envVars  == <<work, errs, stops>>
vars == <<txVars, rxVars, mask, stat, isrVars, softVars, admVars, envVars>>

(* g_gmac_err_src in its order: bits 20 to 23, 24, 25 and 26, 27, 28 to    *)
(* 31.  Neighbouring error sources are one.                                *)
Sources == <<"txErr", "tx", "drop", "rx", "rxErr">>
Bits == ToSet(Sources)
Errors == {"txErr", "drop", "rxErr"}

TypeOK ==
    /\ TxTypeOK /\ RxTypeOK
    /\ {mask, stat, imask, istat, amask} \subseteq SUBSET Bits
    /\ isr \in {"idle", "read", "mask", "clear", "proc", "unmask"} /\ src \in 1 .. Len(Sources) + 1
    /\ {tsched, tdis, missed, opened, hwOn} \subseteq BOOLEAN
    /\ {icpu, tcpu, ncpu} \subseteq Cpus
    /\ napi \in {"off", "idle", "sched"}
    /\ apc \in {"up", "s_read", "s_write", "s_tasklet", "s_run", "s_napi",
                "down", "o_read", "o_write", "o_hw"}
    /\ work \in 0 .. MaxWork /\ {errs, stops} \subseteq 0 .. MaxFault

(* After the probe: rings ready, NAPI and tasklet disabled. *)
Init ==
    /\ TxInit /\ RxInit
    /\ mask = {} /\ stat = {}
    /\ isr = "idle" /\ src = 1 /\ imask = {} /\ istat = {}
    /\ icpu \in IrqCpus /\ tcpu = icpu /\ ncpu = icpu
    /\ tsched = FALSE /\ tdis = TRUE /\ napi = "off" /\ missed = FALSE
    /\ opened = FALSE /\ hwOn = FALSE /\ apc = "down" /\ amask = {}
    /\ work = 0 /\ errs = 0 /\ stops = 0

-----------------------------------------------------------------------------
(* gmac_interrupt_handle *)

Source == Sources[src]

(* The sources still to be served in this run of the handler. *)
Pending == {i \in src .. Len(Sources) : Sources[i] \in imask \cap istat}

(* The status register is read, then the mask, both without the lock.      *)
IsrEnter ==
    /\ isr = "idle" /\ mask \cap stat # {}
    /\ isr' = "read" /\ src' = 1 /\ istat' = stat
    /\ icpu' \in IrqCpus
    /\ UNCHANGED <<txVars, rxVars, mask, stat, imask, softVars, admVars, envVars>>

IsrRead ==
    /\ isr = "read"
    /\ isr' = "mask" /\ imask' = mask
    /\ UNCHANGED <<txVars, rxVars, mask, stat, src, istat, icpu, softVars, admVars, envVars>>

IsrReturn ==
    /\ isr = "mask" /\ Pending = {}
    /\ isr' = "idle" /\ src' = 1 /\ imask' = {} /\ istat' = {} /\ icpu' = icpu
    /\ UNCHANGED <<txVars, rxVars, mask, stat, softVars, admVars, envVars>>

(* The mask as read, less the next source, is written under the lock. *)
IsrMask ==
    /\ isr = "mask" /\ Pending # {}
    /\ src' = Min(Pending)
    /\ imask' = imask \ {Sources[src']} /\ mask' = imask'
    /\ isr' = "clear"
    /\ UNCHANGED <<txVars, rxVars, stat, istat, icpu, softVars, admVars, envVars>>

IsrClear ==
    /\ isr = "clear"
    /\ stat' = stat \ {Source}
    /\ isr' = "proc"
    /\ UNCHANGED <<txVars, rxVars, mask, src, imask, istat, icpu, softVars, admVars, envVars>>

(* napi_schedule, which does nothing while NAPI is off or being disabled.  *)
NapiSchedule ==
    /\ IF napi = "idle" /\ apc # "s_napi" THEN napi' = "sched" /\ ncpu' = icpu
                                          ELSE UNCHANGED <<napi, ncpu>>
    /\ missed' = (missed \/ (napi = "sched" /\ apc # "s_napi"))

(* intr_proc: the receive and transmit sources stay masked.                *)
IsrProcTx ==
    /\ isr = "proc" /\ Source = "tx"
    /\ tsched' = TRUE /\ tcpu' = IF tsched THEN tcpu ELSE icpu
    /\ isr' = "mask" /\ src' = src + 1
    /\ UNCHANGED <<txVars, rxVars, mask, stat, imask, istat, icpu, tdis, napi, missed, ncpu, admVars, envVars>>

IsrProcRx ==
    /\ isr = "proc" /\ Source = "rx"
    /\ NapiSchedule
    /\ isr' = "mask" /\ src' = src + 1
    /\ UNCHANGED <<txVars, rxVars, mask, stat, imask, istat, icpu, tsched, tdis, tcpu, admVars, envVars>>

(* The error handlers log, but for that of bit 29, which also resets the   *)
(* core.  What the reset does to the chip's queues is not in the sources   *)
(* and is left out.                                                        *)
IsrProcErr ==
    /\ isr = "proc" /\ Source \in Errors
    /\ isr' = "unmask"
    /\ UNCHANGED <<txVars, rxVars, mask, stat, src, imask, istat, icpu, softVars, admVars, envVars>>

(* Any other source is enabled again, from the mask read under the lock.   *)
IsrUnmask ==
    /\ isr = "unmask"
    /\ mask' = mask \cup {Source} /\ imask' = mask'
    /\ isr' = "mask" /\ src' = src + 1
    /\ UNCHANGED <<txVars, rxVars, stat, istat, icpu, softVars, admVars, envVars>>

Isr == \/ IsrEnter \/ IsrRead \/ IsrReturn \/ IsrMask \/ IsrClear
       \/ IsrProcTx \/ IsrProcRx \/ IsrProcErr \/ IsrUnmask

-----------------------------------------------------------------------------
Tolerated == errs + stops + noMem < MaxFault

(* Code that is bound to one of the CPUs cs waits while the handler runs   *)
(* there.                                                                  *)
Runs(cs) == isr = "idle" \/ \E c \in cs : c # icpu

(* A sender runs; the flag opened decides at its first step. *)
Xmit(s) ==
    /\ Runs(Cpus)
    /\ \/ XmitCall(s) /\ work < MaxWork /\ work' = work + 1
       \/ /\ \/ XmitDrop(s) \/ (opened /\ XmitMap(s)) \/ XmitNoNode(s)
             \/ XmitAcquire(s) \/ XmitEnque(s) \/ XmitChipFull(s) \/ XmitUndo(s)
          /\ UNCHANGED work
    /\ UNCHANGED <<rxVars, mask, stat, isrVars, softVars, admVars, errs, stops>>

(* The kernel runs the tasklet when it is scheduled and not disabled. *)
TaskletBegin ==
    /\ Runs({tcpu}) /\ tsched /\ ~tdis
    /\ TaskCount /\ tsched' = FALSE
    /\ UNCHANGED <<rxVars, mask, stat, isrVars, tdis, tcpu, napi, missed, ncpu, admVars, envVars>>

TaskletStep ==
    /\ Runs({tcpu})
    /\ TaskNum \/ TaskDeque \/ TaskStop \/ TaskPut \/ TaskFree
    /\ UNCHANGED <<rxVars, mask, stat, isrVars, softVars, admVars, envVars>>

(* Mutant: the mask is left alone. *)
TaskletEndMasked ==
    /\ Runs({tcpu}) /\ TaskExit
    /\ UNCHANGED <<rxVars, mask, stat, isrVars, softVars, admVars, envVars>>

(* EXIT: "Enable tx interrupt", read and written under the lock. *)
TaskletEnd ==
    /\ Runs({tcpu}) /\ TaskExit
    /\ mask' = mask \cup {"tx"}
    /\ UNCHANGED <<rxVars, stat, isrVars, softVars, admVars, envVars>>

Tasklet == TaskletBegin \/ TaskletStep \/ TaskletEnd

-----------------------------------------------------------------------------
NapiBegin ==
    /\ Runs({ncpu}) /\ napi = "sched" /\ PollStart
    /\ UNCHANGED <<txVars, mask, stat, isrVars, softVars, admVars, envVars>>

(* The whole budget is reported: NAPI calls again, unless it is being      *)
(* disabled.                                                               *)
Reported ==
    /\ napi' = IF rpc' = "idle" /\ apc = "s_napi" THEN "idle" ELSE napi
    /\ UNCHANGED <<txVars, mask, stat, isrVars, tsched, tdis, tcpu, missed, ncpu, admVars, envVars>>

NapiStep ==
    /\ Runs({ncpu})
    /\ PollNull \/ PollDeliver \/ PollReuse \/ PollBreak \/ PollFill
       \/ (Tolerated /\ PollNoMem)
    /\ Reported

(* napi_complete: a schedule that was missed takes effect now. *)
NapiComplete ==
    /\ Runs({ncpu}) /\ PollComplete
    /\ napi' = IF missed THEN "sched" ELSE "idle"
    /\ missed' = FALSE
    /\ UNCHANGED <<txVars, mask, stat, isrVars, tsched, tdis, tcpu, ncpu, admVars, envVars>>

(* Mutant: the poll returns without the last call. *)
NapiEndMasked ==
    /\ Runs({ncpu}) /\ PollUnmask
    /\ UNCHANGED <<txVars, mask, stat, isrVars, softVars, admVars, envVars>>

(* gmac_eth_rx_int_en: "Enable Rx Interrupt", under the lock. *)
NapiEnd ==
    /\ Runs({ncpu}) /\ PollUnmask
    /\ mask' = mask \cup {"rx"}
    /\ UNCHANGED <<txVars, stat, isrVars, softVars, admVars, envVars>>

Napi == NapiBegin \/ NapiStep \/ NapiComplete \/ NapiEnd

-----------------------------------------------------------------------------
(* gmac_open and gmac_stop, serialised by the rtnl lock; their             *)
(* read-modify-write of the mask is not protected.                         *)
Adm(from, to) == Runs(Cpus) /\ apc = from /\ apc' = to

Open == Adm("down", "o_read") /\ napi' = "idle" /\ tdis' = FALSE
        /\ UNCHANGED <<txVars, rxVars, mask, stat, isrVars, tsched, tcpu, missed,
                       ncpu, opened, hwOn, amask, envVars>>

OpenRead == Adm("o_read", "o_write") /\ amask' = mask
            /\ UNCHANGED <<txVars, rxVars, mask, stat, isrVars, softVars, opened, hwOn, envVars>>

OpenWrite == Adm("o_write", "o_hw") /\ mask' = amask \cup Bits /\ amask' = {}
             /\ UNCHANGED <<txVars, rxVars, stat, isrVars, softVars, opened, hwOn, envVars>>

OpenEnd == Adm("o_hw", "up") /\ hwOn' = TRUE /\ opened' = TRUE
           /\ UNCHANGED <<txVars, rxVars, mask, stat, isrVars, softVars, amask, envVars>>

Stop == Adm("up", "s_read") /\ hwOn' = FALSE /\ opened' = FALSE
        /\ Tolerated /\ stops' = stops + 1
        /\ UNCHANGED <<txVars, rxVars, mask, stat, isrVars, softVars, amask, work, errs>>

StopRead == Adm("s_read", "s_write") /\ amask' = mask
            /\ UNCHANGED <<txVars, rxVars, mask, stat, isrVars, softVars, opened, hwOn, envVars>>

StopWrite == Adm("s_write", "s_tasklet") /\ mask' = amask \ {"rx"} /\ amask' = {}
             /\ UNCHANGED <<txVars, rxVars, stat, isrVars, softVars, opened, hwOn, envVars>>

(* tasklet_disable forbids the tasklet, then waits for a running one. *)
StopTasklet == Adm("s_tasklet", "s_run") /\ tdis' = TRUE
               /\ UNCHANGED <<txVars, rxVars, mask, stat, isrVars, tsched, tcpu,
                              napi, missed, ncpu, opened, hwOn, amask, envVars>>

StopTaskletWait == Adm("s_run", "s_napi") /\ tpc = "idle"
                   /\ UNCHANGED <<txVars, rxVars, mask, stat, isrVars, softVars,
                                  opened, hwOn, amask, envVars>>

(* napi_disable waits for napi_complete, not for the end of the poll. *)
StopNapi == Adm("s_napi", "down") /\ napi = "idle" /\ napi' = "off"
            /\ UNCHANGED <<txVars, rxVars, mask, stat, isrVars, tsched, tdis,
                           tcpu, missed, ncpu, opened, hwOn, amask, envVars>>

Admin == \/ Open \/ OpenRead \/ OpenWrite \/ OpenEnd \/ Stop \/ StopRead
         \/ StopWrite \/ StopTasklet \/ StopTaskletWait \/ StopNapi

-----------------------------------------------------------------------------
(* The chip: a descriptor fetched makes room (the "tx waterline"           *)
(* interrupt), a packet stored raises the receive interrupt.               *)
Raise(bit) == /\ stat' = stat \cup {bit}
              /\ UNCHANGED <<mask, isrVars, softVars, admVars>>

ChipFetch == hwOn /\ TxFetch /\ Raise("tx") /\ UNCHANGED <<rxVars, envVars>>
ChipDone  == TxDone /\ UNCHANGED <<rxVars, mask, stat, isrVars, softVars, admVars, envVars>>
ChipStore == \E kind \in {"good", "bad"} :
               /\ hwOn /\ RxArrive(kind) /\ Raise("rx")
               /\ work < MaxWork /\ work' = work + 1
               /\ UNCHANGED <<txVars, errs, stops>>
ChipError == \E err \in Errors :
               /\ hwOn /\ Raise(err)
               /\ Tolerated /\ errs' = errs + 1
               /\ UNCHANGED <<txVars, rxVars, work, stops>>

Next == \/ Isr \/ Tasklet \/ Napi \/ Admin
        \/ \E s \in Senders : Xmit(s)
        \/ ChipFetch \/ ChipDone \/ ChipStore \/ ChipError

(* The kernel runs what is pending, a call under way goes on, the chip     *)
(* works on what it was given.  Nobody has to send, to store a packet or   *)
(* to stop the device.                                                     *)
Fairness ==
    /\ WF_vars(Isr) /\ WF_vars(Tasklet) /\ WF_vars(Napi)
    /\ WF_vars(Admin /\ apc \notin {"up", "down"})
    /\ \A s \in Senders : WF_vars(Xmit(s) /\ xm[s].pc # "idle")
    /\ WF_vars(ChipFetch) /\ WF_vars(ChipDone)

Spec == Init /\ [][Next]_vars
FairSpec == Spec /\ Fairness

-----------------------------------------------------------------------------
(* While the device is up and neither the handler nor the deferred work of *)
(* a source is pending, the interrupt of that source is enabled: what the  *)
(* handler masked, the tasklet and the poll have enabled again.            *)
IrqEnabled ==
    (apc = "up" /\ isr = "idle") =>
      /\ napi = "idle" /\ rpc = "idle" => "rx" \in mask
      /\ ~tsched /\ tpc = "idle" => "tx" \in mask

(* Senders that find every descriptor node in use get nodes again: the     *)
(* interrupt, the tasklet and the chip do not wait on each other.          *)
TxProgress == (opened /\ unused = <<>>) ~> (unused # <<>> \/ ~opened)

(* A packet whose interrupt the chip has raised is consumed, whatever else *)
(* goes on, unless the device is stopped.                                  *)
RxServed ==
    \A s \in Slots :
      (opened /\ "rx" \in stat /\ rxCurr = s /\ ring[s] \in {"good", "bad"})
        ~> (rxCurr # s \/ ~opened)
=============================================================================
