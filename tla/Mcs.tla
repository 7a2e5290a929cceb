-------------------------------- MODULE Mcs --------------------------------
(***************************************************************************)
(* The channel of the mixed deployment between Linux and a baremetal core: *)
(* the process that uses the MCS library (open_source/mcs/library) with    *)
(* its receive thread, the kernel module mcs_km, and the client core with  *)
(* src/real_time/baremetal/mcs/mcs.c, its loader and its application.      *)
(*                                                                         *)
(* Both sides keep messages in a ring of shared memory and announce them   *)
(* by an inter-processor interrupt.  Ring operations of open-amp are one   *)
(* step each; the announcement is a step of its own.  On c2h a name stands *)
(* for the name-service announcement of that endpoint.                     *)
(***************************************************************************)
EXTENDS Integers, Sequences

CONSTANTS Stop, App,  \* the endpoints: for the shutdown, of the application
          Data,     \* a message of the application
          Halt,     \* "stop"
          None,     \* NULL
          NBuf,     \* buffers of each ring, VRING_SIZE
          MaxSend,  \* bound: messages the Linux application sends in one run
          MaxRuns   \* bound: times the process is started

(* Both sides create them in this order. *)
Order == <<Stop, App>>
Names == {Stop, App}

ASSUME McsAssumption ==
    /\ Stop # App /\ Data \notin Names \cup {Halt} /\ None \notin Names \cup {Data, Halt}
    /\ {NBuf, MaxSend, MaxRuns} \subseteq Nat /\ NBuf >= 2

VARIABLES hpc, reg, told,     \* main thread: place, endpoints registered, the
          hsent, runs,        \* client was told to stop; messages, runs so far
          exiting, live, mapped,  \* openamp_exiting, the queues are allocated,
                              \* the ranges are in phy_list
          named, ready, bound,\* endpoints[]: those with a name, with a callback
                              \* too, and those bound to an endpoint of the client
          rx, rmsg, spin,     \* receive thread: place, message, poll_timeout = 0
          ipiH, irq, irqAck, woken,  \* Linux: interrupt pending, its handler,
                              \* irq_ack, the polling thread is woken up
          c2h, h2c,           \* the rings: client to host, host to client
          cpc, made, halted,  \* client: place, endpoints created, g_shutdown_flag
          ipiC, cirq, cmsg    \* client: interrupt pending, its handler, message

mainVars   == <<hpc, reg, told, hsent, runs, exiting, live, mapped>>
eptVars    == <<named, ready, bound>>
rxVars     == <<rx, rmsg, spin>>
kernVars   == <<ipiH, irq, irqAck, woken>>
clientVars == <<cpc, made, halted, cirq, cmsg>>
vars == <<mainVars, eptVars, rxVars, kernVars, c2h, h2c, clientVars, ipiC>>

TypeOK ==
    /\ hpc \in {"off", "start", "thread", "name", "cb", "ready", "app", "put", "kick",
                "d_buf", "d_put", "d_kick", "d_virtio", "d_mem", "d_end", "killed"}
    /\ reg \in 0 .. Len(Order) /\ hsent \in 0 .. MaxSend /\ runs \in 0 .. MaxRuns
    /\ {told, exiting, live, mapped, spin, ipiH, irqAck, woken, halted, ipiC} \subseteq BOOLEAN
    /\ named \subseteq Names /\ ready \subseteq named /\ bound \subseteq ready
    /\ rx \in {"none", "check", "poll", "test", "sleep", "first", "serve", "next", "gone"}
    /\ rmsg \in Names \cup {Data, None} /\ irq \in {"idle", "wake"}
    /\ c2h \in Seq(Names \cup {Data}) /\ Len(c2h) <= NBuf
    /\ h2c \in Seq({Data, Halt}) /\ Len(h2c) <= NBuf
    /\ cpc \in {"off", "boot", "create", "put", "kick", "loop"} /\ made \in 0 .. Len(Order)
    /\ cirq \in {"idle", "first", "serve", "put", "kick", "next"}
    /\ cmsg \in {Data, Halt, None}

Init ==
    /\ hpc = "off" /\ reg = 0 /\ told = FALSE /\ hsent = 0 /\ runs = 0
    /\ exiting = FALSE /\ live = FALSE /\ mapped = FALSE
    /\ named = {} /\ ready = {} /\ bound = {}
    /\ rx = "none" /\ rmsg = None /\ spin = FALSE
    /\ ipiH = FALSE /\ irq = "idle" /\ irqAck = FALSE /\ woken = FALSE
    /\ c2h = <<>> /\ h2c = <<>>
    /\ cpc = "off" /\ made = 0 /\ halted = FALSE
    /\ ipiC = FALSE /\ cirq = "idle" /\ cmsg = None

One(b) == IF b THEN 1 ELSE 0

(* A buffer is in the ring, with its reader, with its writer, or free. *)
ClientHasBuffer ==
    Len(c2h) + One(rmsg # None) + One(cpc = "put") + One(cirq = "put") < NBuf

(* Mutant: one buffer too many. *)
HostHasBufferTooMany ==
    Len(h2c) + One(cmsg # None) + One(hpc \in {"put", "d_put"}) <= NBuf

HostHasBuffer ==
    Len(h2c) + One(cmsg # None) + One(hpc \in {"put", "d_put"}) < NBuf

-----------------------------------------------------------------------------
(* The main thread of the process *)

Main(from, to) == hpc = from /\ hpc' = to

(* openamp_init up to rpmsg_sys_service_init: refused while the core is on *)
(* or the ranges are still in the list; the shared memory is zeroed.       *)
HostInit ==
    /\ Main("off", "start") \/ Main("killed", "start")
    /\ cpc = "off" /\ ~mapped /\ runs < MaxRuns
    /\ reg' = 0 /\ told' = FALSE /\ hsent' = 0 /\ runs' = runs + 1
    /\ exiting' = FALSE /\ live' = TRUE /\ mapped' = TRUE
    /\ named' = {} /\ ready' = {} /\ bound' = {}
    /\ rx' = "none" /\ rmsg' = None /\ spin' = FALSE
    /\ c2h' = <<>> /\ h2c' = <<>>
    /\ UNCHANGED <<kernVars, clientVars, ipiC>>

(* remoteproc_start: IOC_CPUON *)
HostStart ==
    /\ Main("start", "thread")
    /\ cpc' = "boot" /\ made' = 0 /\ halted' = FALSE
    /\ UNCHANGED <<reg, told, hsent, runs, exiting, live, mapped, eptVars, rxVars, kernVars,
                   c2h, h2c, cirq, cmsg, ipiC>>

(* "start processor failed", or no memory for the thread, with the client  *)
(* running: rpmsg_release_sources.                                         *)
HostInitFails ==
    /\ Main("start", "d_virtio") \/ Main("thread", "d_virtio")
    /\ UNCHANGED <<reg, told, hsent, runs, exiting, live, mapped, eptVars, rxVars, kernVars,
                   c2h, h2c, clientVars, ipiC>>

(* create_openamp_thread *)
HostThread ==
    /\ Main("thread", "name") /\ rx' = "check"
    /\ UNCHANGED <<reg, told, hsent, runs, exiting, live, mapped, eptVars, rmsg, spin, kernVars,
                   c2h, h2c, clientVars, ipiC>>

(* rpmsg_service_register_endpoint: the name first, then the callback.     *)
HostName ==
    /\ Main("name", "cb") /\ named' = named \cup {Order[reg + 1]}
    /\ UNCHANGED <<reg, told, hsent, runs, exiting, live, mapped, ready, bound, rxVars, kernVars,
                   c2h, h2c, clientVars, ipiC>>

HostCallback ==
    /\ hpc = "cb" /\ ready' = ready \cup {Order[reg + 1]} /\ reg' = reg + 1
    /\ hpc' = IF reg' = Len(Order) THEN "ready" ELSE "name"
    /\ UNCHANGED <<told, hsent, runs, exiting, live, mapped, named, bound, rxVars, kernVars,
                   c2h, h2c, clientVars, ipiC>>

(* rpmsg_app_master waits until the endpoint is bound, or gives up.        *)
HostReady ==
    /\ Main("ready", "app") /\ App \in bound
    /\ UNCHANGED <<reg, told, hsent, runs, exiting, live, mapped, eptVars, rxVars, kernVars,
                   c2h, h2c, clientVars, ipiC>>

(* get_zero_cpy_data_addr, openamp_send_message, virtio_notify *)
HostGet ==
    /\ Main("app", "put") /\ hsent < MaxSend /\ HostHasBuffer
    /\ hsent' = hsent + 1
    /\ UNCHANGED <<reg, told, runs, exiting, live, mapped, eptVars, rxVars, kernVars,
                   c2h, h2c, clientVars, ipiC>>

HostPut ==
    /\ \/ Main("put", "kick") /\ h2c' = Append(h2c, Data)
       \/ Main("d_put", "d_kick") /\ h2c' = Append(h2c, Halt)
    /\ UNCHANGED <<reg, told, hsent, runs, exiting, live, mapped, eptVars, rxVars, kernVars,
                   c2h, clientVars, ipiC>>

HostKick ==
    /\ \/ Main("kick", "app") /\ UNCHANGED told
       \/ Main("d_kick", "d_virtio") /\ told' = TRUE
    /\ ipiC' = TRUE
    /\ UNCHANGED <<reg, hsent, runs, exiting, live, mapped, eptVars, rxVars, kernVars,
                   c2h, h2c, clientVars>>

(* openamp_deinit, after the signal or because the endpoint is not ready.  *)
HostDeinit ==
    /\ Main("app", "d_buf") \/ Main("ready", "d_buf")
    /\ exiting' = TRUE
    /\ UNCHANGED <<reg, told, hsent, runs, live, mapped, eptVars, rxVars, kernVars,
                   c2h, h2c, clientVars, ipiC>>

HostDeinitGet ==
    /\ Main("d_buf", "d_put") /\ Stop \in bound /\ HostHasBuffer
    /\ UNCHANGED <<reg, told, hsent, runs, exiting, live, mapped, eptVars, rxVars, kernVars,
                   c2h, h2c, clientVars, ipiC>>

(* The endpoint was never bound, or no buffer came free: the client is not *)
(* told, and the resources are released all the same.                      *)
HostDeinitNone ==
    /\ Main("d_buf", "d_virtio") /\ (Stop \notin bound \/ ~HostHasBuffer)
    /\ UNCHANGED <<reg, told, hsent, runs, exiting, live, mapped, eptVars, rxVars, kernVars,
                   c2h, h2c, clientVars, ipiC>>

(* openamp_release_resource: virtio_deinit; what destory_remoteproc sends  *)
(* before it needs an endpoint the baremetal client does not have.         *)
HostVirtioDeinit ==
    /\ Main("d_virtio", "d_mem") /\ live' = FALSE
    /\ UNCHANGED <<reg, told, hsent, runs, exiting, mapped, eptVars, rxVars, kernVars,
                   c2h, h2c, clientVars, ipiC>>

(* reserved_mem_release: IOC_CLOSE_OPENAMP empties the list of ranges. *)
HostMemRelease ==
    /\ Main("d_mem", "d_end") /\ mapped' = FALSE
    /\ UNCHANGED <<reg, told, hsent, runs, exiting, live, eptVars, rxVars, kernVars,
                   c2h, h2c, clientVars, ipiC>>

(* openamp_destroy_endpoint and the end of the process, which ends the     *)
(* receive thread wherever it is.                                          *)
HostExit ==
    /\ Main("d_end", "off")
    /\ rx' = "gone" /\ rmsg' = None /\ bound' = bound \ {Stop}
    /\ UNCHANGED <<reg, told, hsent, runs, exiting, live, mapped, named, ready, spin, kernVars,
                   c2h, h2c, clientVars, ipiC>>

(* After a stop without a buffer the endpoint still has its name, so that  *)
(* rpmsg_destroy_ept sends a name-service message through the queues that  *)
(* were freed: the process ends there, or gets over it (HostExit).         *)
HostExitCrash ==
    /\ Main("d_end", "killed") /\ ~told /\ Stop \in bound
    /\ rx' = "gone" /\ rmsg' = None
    /\ UNCHANGED <<reg, told, hsent, runs, exiting, live, mapped, eptVars, spin, kernVars,
                   c2h, h2c, clientVars, ipiC>>

(* The process is killed: nothing is undone, mcs_km has no release. *)
HostKill ==
    /\ hpc \notin {"off", "killed"} /\ hpc' = "killed"
    /\ live' = FALSE /\ rx' = "gone" /\ rmsg' = None
    /\ UNCHANGED <<reg, told, hsent, runs, exiting, mapped, eptVars, spin, kernVars,
                   c2h, h2c, clientVars, ipiC>>

HostStep ==
    \/ HostInit \/ HostStart \/ HostInitFails \/ HostThread \/ HostName \/ HostCallback
    \/ HostReady \/ HostGet \/ HostPut \/ HostKick \/ HostDeinit \/ HostDeinitGet
    \/ HostDeinitNone \/ HostVirtioDeinit \/ HostMemRelease
    \/ HostExit \/ HostExitCrash

-----------------------------------------------------------------------------
(* rpmsg_service_receive_loop, and mcs_poll below it *)

Rx(from, to) == rx = from /\ rx' = to

RxCheck ==
    /\ rx = "check" /\ rx' = IF exiting THEN "gone" ELSE "poll"
    /\ UNCHANGED <<mainVars, eptVars, rmsg, spin, kernVars, c2h, h2c, clientVars, ipiC>>

(* Mutant: an old irq_ack is forgotten before the wait. *)
RxRegisterResets ==
    /\ Rx("poll", "test") /\ woken' = FALSE /\ irqAck' = FALSE
    /\ UNCHANGED <<mainVars, eptVars, rmsg, spin, ipiH, irq, c2h, h2c, clientVars, ipiC>>

(* poll_wait: from here on a wake-up reaches the thread. *)
RxRegister ==
    /\ Rx("poll", "test") /\ woken' = FALSE
    /\ UNCHANGED <<mainVars, eptVars, rmsg, spin, ipiH, irq, irqAck, c2h, h2c, clientVars, ipiC>>

(* The exchange of irq_ack: POLLIN, and the queue is looked at. *)
RxReadable ==
    /\ Rx("test", "first") /\ irqAck
    /\ irqAck' = FALSE /\ spin' = TRUE
    /\ UNCHANGED <<mainVars, eptVars, rmsg, ipiH, irq, woken, c2h, h2c, clientVars, ipiC>>

(* Nothing: the thread sleeps, or tries again until 20 us have passed.     *)
RxNothing ==
    /\ rx = "test" /\ ~irqAck
    /\ IF spin THEN rx' = "check" /\ spin' \in BOOLEAN ELSE rx' = "sleep" /\ UNCHANGED spin
    /\ UNCHANGED <<mainVars, eptVars, rmsg, kernVars, c2h, h2c, clientVars, ipiC>>

(* A signal the process handles (SIGINT) ends the wait: poll fails, and     *)
(* with it the loop, unless there is something to read by now.             *)
RxSignal ==
    /\ rx \in {"test", "sleep"} /\ rx' = IF irqAck THEN "test" ELSE "gone"
    /\ UNCHANGED <<mainVars, eptVars, rmsg, spin, kernVars, c2h, h2c, clientVars, ipiC>>

RxWake ==
    /\ Rx("sleep", "test") /\ woken /\ woken' = FALSE
    /\ UNCHANGED <<mainVars, eptVars, rmsg, spin, ipiH, irq, irqAck, c2h, h2c, clientVars, ipiC>>

(* virtqueue_notification, rpmsg_virtio_rx_callback: the first buffer ...  *)
RxFirst ==
    /\ rx = "first" /\ live
    /\ IF c2h = <<>> THEN rx' = "check" /\ UNCHANGED <<rmsg, c2h>>
                     ELSE rx' = "serve" /\ rmsg' = Head(c2h) /\ c2h' = Tail(c2h)
    /\ UNCHANGED <<mainVars, eptVars, spin, kernVars, h2c, clientVars, ipiC>>

(* ... its callback.  ns_bind_cb binds an endpoint that has been           *)
(* registered; any other announcement is dropped.                          *)
RxServe ==
    /\ Rx("serve", "next")
    /\ bound' = bound \cup ({rmsg} \cap ready)
    /\ UNCHANGED <<mainVars, named, ready, rmsg, spin, kernVars, c2h, h2c, clientVars, ipiC>>

(* ... and the next one, until there is none.  The writer is not told that *)
(* buffers are back: it has suppressed that interrupt (virtqueue_disable_cb). *)
RxNext ==
    /\ rx = "next"
    /\ IF c2h = <<>> THEN rx' = "check" /\ rmsg' = None /\ UNCHANGED c2h
                     ELSE rx' = "serve" /\ rmsg' = Head(c2h) /\ c2h' = Tail(c2h)
    /\ UNCHANGED <<mainVars, eptVars, spin, kernVars, h2c, clientVars, ipiC>>

(* The queues were freed under the thread (client->vq[0] is NULL, or the   *)
(* queue in its hands is gone): the process ends.                          *)
RxCrash ==
    /\ rx \in {"first", "serve", "next"} /\ ~live
    /\ hpc' = "killed" /\ rx' = "gone" /\ rmsg' = None
    /\ UNCHANGED <<reg, told, hsent, runs, exiting, live, mapped, eptVars, spin, kernVars,
                   c2h, h2c, clientVars, ipiC>>

Receive == \/ RxCheck \/ RxRegister \/ RxReadable \/ RxNothing \/ RxWake
           \/ RxFirst \/ RxServe \/ RxNext \/ RxCrash

(* handle_clientos_ipi: the flag, then the wait queue. *)
IrqFlag ==
    /\ irq = "idle" /\ ipiH
    /\ ipiH' = FALSE /\ irqAck' = TRUE /\ irq' = "wake"
    /\ UNCHANGED <<mainVars, eptVars, rxVars, woken, c2h, h2c, clientVars, ipiC>>

IrqWake ==
    /\ irq = "wake" /\ irq' = "idle"
    /\ woken' = (woken \/ rx \in {"test", "sleep"})
    /\ UNCHANGED <<mainVars, eptVars, rxVars, ipiH, irqAck, c2h, h2c, clientVars, ipiC>>

-----------------------------------------------------------------------------
(* The client core: its main context runs while no handler does.           *)
Client(from, to) == cirq = "idle" /\ cpc = from /\ cpc' = to

(* app_startup, bm_loader, mcs_init: the host has set the device status.   *)
ClientBoot ==
    /\ Client("boot", "create")
    /\ UNCHANGED <<mainVars, eptVars, rxVars, kernVars, c2h, h2c, made, halted, cirq, cmsg, ipiC>>

(* bm_mcs_create_ept: the announcement needs a buffer. *)
ClientCreate ==
    /\ Client("create", "put") /\ ClientHasBuffer
    /\ UNCHANGED <<mainVars, eptVars, rxVars, kernVars, c2h, h2c, made, halted, cirq, cmsg, ipiC>>

ClientPut ==
    /\ Client("put", "kick") /\ c2h' = Append(c2h, Order[made + 1])
    /\ UNCHANGED <<mainVars, eptVars, rxVars, kernVars, h2c, made, halted, cirq, cmsg, ipiC>>

ClientKick ==
    /\ cirq = "idle" /\ cpc = "kick" /\ made' = made + 1
    /\ cpc' = IF made' = Len(Order) THEN "loop" ELSE "create"
    /\ ipiH' = TRUE
    /\ UNCHANGED <<mainVars, eptVars, rxVars, irq, irqAck, woken, c2h, h2c, halted, cirq, cmsg, ipiC>>

(* The application has seen g_shutdown_flag: bm_mcs_shutdown.  The         *)
(* interrupts of the core are masked until its next start.                 *)
ClientShutdown ==
    /\ Client("loop", "off") /\ halted
    /\ UNCHANGED <<mainVars, eptVars, rxVars, kernVars, c2h, h2c, made, halted, cirq, cmsg, ipiC>>

ClientStep == ClientBoot \/ ClientCreate \/ ClientPut \/ ClientKick \/ ClientShutdown

(* rpmsg_hwi_handler.  Interrupts are unmasked after the first endpoint    *)
(* (bm_loader).                                                            *)
CirqEnter ==
    /\ cirq = "idle" /\ cirq' = "first" /\ ipiC
    /\ cpc \notin {"off", "boot"} /\ made >= 1
    /\ ipiC' = FALSE
    /\ UNCHANGED <<mainVars, eptVars, rxVars, kernVars, c2h, h2c, cpc, made, halted, cmsg>>

CirqFirst ==
    /\ cirq = "first"
    /\ IF h2c = <<>> THEN cirq' = "idle" /\ UNCHANGED <<cmsg, h2c>>
                     ELSE cirq' = "serve" /\ cmsg' = Head(h2c) /\ h2c' = Tail(h2c)
    /\ UNCHANGED <<mainVars, eptVars, rxVars, kernVars, c2h, cpc, made, halted, ipiC>>

(* mcs_shutdown_cb.  The interrupt it disables (IPI_INT_NO) is not the one *)
(* of the channel.                                                         *)
CirqHalt ==
    /\ cirq = "serve" /\ cmsg = Halt
    /\ cirq' = "next" /\ halted' = TRUE
    /\ UNCHANGED <<mainVars, eptVars, rxVars, kernVars, c2h, h2c, cpc, made, cmsg, ipiC>>

(* The application's callback answers, or finds no buffer. *)
CirqData ==
    /\ cirq = "serve" /\ cmsg = Data
    /\ cirq' = IF ClientHasBuffer THEN "put" ELSE "next"
    /\ UNCHANGED <<mainVars, eptVars, rxVars, kernVars, c2h, h2c, cpc, made, halted, cmsg, ipiC>>

CirqPut ==
    /\ cirq = "put" /\ cirq' = "kick" /\ c2h' = Append(c2h, Data)
    /\ UNCHANGED <<mainVars, eptVars, rxVars, kernVars, h2c, cpc, made, halted, cmsg, ipiC>>

CirqKick ==
    /\ cirq = "kick" /\ cirq' = "next" /\ ipiH' = TRUE
    /\ UNCHANGED <<mainVars, eptVars, rxVars, irq, irqAck, woken, c2h, h2c, cpc, made, halted, cmsg, ipiC>>

(* Mutant: one message for each interrupt. *)
CirqNextOne ==
    /\ cirq = "next" /\ cirq' = "idle" /\ cmsg' = None
    /\ UNCHANGED <<mainVars, eptVars, rxVars, kernVars, c2h, h2c, cpc, made, halted, ipiC>>

CirqNext ==
    /\ cirq = "next"
    /\ IF h2c = <<>> THEN cirq' = "idle" /\ cmsg' = None /\ UNCHANGED h2c
                     ELSE cirq' = "serve" /\ cmsg' = Head(h2c) /\ h2c' = Tail(h2c)
    /\ UNCHANGED <<mainVars, eptVars, rxVars, kernVars, c2h, cpc, made, halted, ipiC>>

ClientIrq == CirqEnter \/ CirqFirst \/ CirqHalt \/ CirqData \/ CirqPut \/ CirqKick \/ CirqNext

-----------------------------------------------------------------------------
Next == HostStep \/ HostKill \/ Receive \/ RxSignal \/ IrqFlag \/ IrqWake \/ ClientStep \/ ClientIrq

(* Threads are scheduled, interrupts taken, the client's core executes.    *)
(* Nobody has to start the process, to send, to signal or to kill it.      *)
Fairness ==
    /\ WF_vars(HostStep /\ hpc \notin {"off", "killed", "app"}) /\ WF_vars(Receive)
    /\ WF_vars(IrqFlag) /\ WF_vars(IrqWake)
    /\ WF_vars(ClientStep) /\ WF_vars(ClientIrq)

Spec == Init /\ [][Next]_vars
FairSpec == Spec /\ Fairness

-----------------------------------------------------------------------------
ClientAnnounces == cpc = "kick" \/ cirq = "kick"

(* Nothing in the rings is forgotten.  A message for Linux has its         *)
(* interrupt on the way, or irq_ack is set and a thread that sleeps in     *)
(* poll is woken, or the receive thread looks at the ring again before it  *)
(* polls; a message for the client has its interrupt on the way or its     *)
(* handler looks at the ring again before it returns.                      *)
NoLostMessage ==
    /\ live /\ rx # "gone" /\ c2h # <<>> =>
         \/ ClientAnnounces \/ ipiH
         \/ irqAck /\ (rx = "sleep" => woken \/ irq = "wake")
         \/ rx \in {"first", "serve", "next"}
    /\ hpc # "killed" /\ h2c # <<>> =>
         \/ hpc \in {"kick", "d_kick"} \/ ipiC
         \/ cirq \notin {"idle"}

(* An openamp_deinit that has sent "stop" turns the client core off,       *)
(* although the process releases its queues and memory and ends without    *)
(* waiting for it.                                                         *)
StopReaches == (told /\ hpc = "d_virtio") ~> (cpc = "off")
=============================================================================
