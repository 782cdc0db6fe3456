----------------------------- MODULE I10HostCtrl -----------------------------
(***************************************************************************)
(* The life of one i10 controller on the host: host/PINoF.c from           *)
(* i10_host_create_ctrl to i10_host_free_ctrl, with the state machine, the *)
(* keep-alive and the delete work of host/core.c.  Five contexts share the *)
(* controller: the task that creates it and the four works that recover,   *)
(* reset, reconnect and delete it.  Each context has a program counter; a  *)
(* step is one call that may sleep, and any other context may run between  *)
(* two steps.                                                              *)
(*                                                                         *)
(* Queue 0 is the admin queue, the others are I/O queues.  What travels on *)
(* a queue is the matter of I10HostQueue; here a request is only waiting   *)
(* in the block layer, past the readiness test, or with the transport.     *)
(***************************************************************************)
EXTENDS Naturals

CONSTANTS
  NrIoQueues,     \* opts->nr_io_queues
  Reqs,           \* requests of the controller's namespaces
  MaxReconnects   \* opts->max_reconnects

ASSUME CtrlAssumption ==
  NrIoQueues \in Nat \ {0} /\ MaxReconnects \in Nat

IoQueues == 1..NrIoQueues
Queues == 0..NrIoQueues
Works == {"err", "reset", "connect", "delete"}
Contexts == Works \cup {"create"}

VARIABLES
  state,          \* ctrl->state
  queue,          \* per queue: free, I10_HOST_Q_ALLOCATED or also I10_HOST_Q_LIVE
  quiesced,       \* the namespaces' request queues are quiesced
  ns,             \* the namespaces: none, up, dying, removed
  ka,             \* keep-alive: ka_work armed, its command sent
  nr_reconnects,  \* ctrl->nr_reconnects
  raised,         \* works whose caller has changed the state, not yet queued them
  queued,         \* works on their workqueue
  pc,             \* the step each context is about to take
  rq,             \* requests: idle, waiting, checked, inflight
  icdoff,         \* the target reports a non-zero in-capsule data offset
  gone            \* the last reference is dropped

vars == <<state, queue, quiesced, ns, ka, nr_reconnects, raised, queued, pc,
          rq, icdoff, gone>>

States == {"NEW", "LIVE", "ADMIN_ONLY", "RESETTING", "CONNECTING",
           "DELETING", "DEAD"}

-----------------------------------------------------------------------------
(***************************************************************************)
(* nvme_change_ctrl_state: the states each state may be entered from.      *)
(***************************************************************************)

EntryStates(new) ==
  CASE new = "ADMIN_ONLY" -> {"CONNECTING"}
    [] new = "LIVE"       -> {"NEW", "RESETTING", "CONNECTING"}
    [] new = "RESETTING"  -> {"NEW", "LIVE", "ADMIN_ONLY"}
    [] new = "CONNECTING" -> {"NEW", "RESETTING"}
    [] new = "DELETING"   -> {"LIVE", "ADMIN_ONLY", "RESETTING", "CONNECTING"}
    [] new = "DEAD"       -> {"DELETING"}
    [] OTHER              -> {}

CanEnterLiveWhileDeleting(new) ==
  state \in EntryStates(new) \/ (new = "LIVE" /\ state = "DELETING")
CanEnterResettingTwice(new) ==
  state \in EntryStates(new) \/ (new = "RESETTING" /\ state = "CONNECTING")

CanEnter(new) == state \in EntryStates(new)

\* i10_host_error_recovery, nvme_reset_ctrl and nvme_delete_ctrl change the
\* state and then queue a work; the two calls are not one atomic step.
RaiseUnchecked(new, work) ==
  /\ state' = new
  /\ raised' = raised \cup {work}

Raise(new, work) ==
  /\ CanEnter(new)
  /\ state' = new
  /\ raised' = raised \cup {work}

QueueWork(w) ==
  /\ w \in raised
  /\ raised' = raised \ {w}
  /\ queued' = queued \cup {w}
  /\ UNCHANGED <<state, queue, quiesced, ns, ka, nr_reconnects, pc, rq,
                 icdoff, gone>>

-----------------------------------------------------------------------------
(***************************************************************************)
(* The contexts and their steps.                                           *)
(***************************************************************************)

At(c, step) == pc[c] = step
Goto(c, step) == pc' = [pc EXCEPT ![c] = step]

\* Where the function of a work starts.
Entry(w) ==
  CASE w = "connect" -> "admin_alloc"
    [] w = "delete"  -> "flush_reset"
    [] OTHER         -> "stop_ka"

\* A worker takes a queued work; the same work never runs twice at once.
Begin(w) ==
  /\ w \in queued
  /\ At(w, "idle")
  /\ queued' = queued \ {w}
  /\ Goto(w, Entry(w))
  /\ nr_reconnects' = IF w = "connect" THEN nr_reconnects + 1 ELSE nr_reconnects
  /\ UNCHANGED <<state, queue, quiesced, ns, ka, raised, rq, icdoff, gone>>

-----------------------------------------------------------------------------
(***************************************************************************)
(* i10_host_setup_ctrl.  Every command it sends either succeeds or fails,  *)
(* at the latest when i10_host_timeout ends it.                            *)
(***************************************************************************)

\* What the caller does when i10_host_setup_ctrl returns an error.
SetupFails(c) ==
  /\ Goto(c, IF c = "create" THEN "idle" ELSE "decide")
  /\ gone' = (gone \/ c = "create")
  /\ nr_reconnects' = IF c = "reset" THEN nr_reconnects + 1 ELSE nr_reconnects

Passes(c, step) == Goto(c, step) /\ UNCHANGED <<gone, nr_reconnects>>

SetQueues(qs, s) == queue' = [i \in Queues |-> IF i \in qs THEN s ELSE queue[i]]

AllocAdminQueue(c) ==
  /\ At(c, "admin_alloc")
  /\ \/ SetQueues({0}, "allocated") /\ Passes(c, "admin_start")
     \/ UNCHANGED queue /\ SetupFails(c)
  /\ UNCHANGED <<state, quiesced, ns, ka, raised, queued, rq, icdoff>>

StartAdminQueue(c) ==
  /\ At(c, "admin_start")
  /\ \/ SetQueues({0}, "live") /\ Passes(c, "admin_init")
     \/ SetQueues({0}, "free") /\ SetupFails(c)
  /\ UNCHANGED <<state, quiesced, ns, ka, raised, queued, rq, icdoff>>

InitAdminQueue(c) ==
  /\ At(c, "admin_init")
  /\ \/ UNCHANGED queue /\ Passes(c, "icdoff")
     \/ SetQueues({0}, "free") /\ SetupFails(c)
  /\ UNCHANGED <<state, quiesced, ns, ka, raised, queued, rq, icdoff>>

\* An unsupported ICDOFF destroys the admin queue, but ret still holds the 0
\* that i10_host_configure_admin_queue returned: the caller sees a success.
CheckIcdoff(c) ==
  /\ At(c, "icdoff")
  /\ \/ ~icdoff /\ UNCHANGED queue /\ Passes(c, "io_alloc")
     \/ /\ icdoff
        /\ SetQueues({0}, "free")
        /\ Goto(c, "idle")
        /\ nr_reconnects' = IF c = "connect" THEN 0 ELSE nr_reconnects
        /\ UNCHANGED gone
  /\ UNCHANGED <<state, quiesced, ns, ka, raised, queued, rq, icdoff>>

AllocIoQueues(c) ==
  /\ At(c, "io_alloc")
  /\ \/ SetQueues(IoQueues, "allocated") /\ Passes(c, "io_start")
     \/ SetQueues(Queues, "free") /\ SetupFails(c)
  /\ UNCHANGED <<state, quiesced, ns, ka, raised, queued, rq, icdoff>>

\* The queues are started in order; the first failure stops those already
\* started and frees all.
StartIoQueues(c) ==
  /\ At(c, "io_start")
  /\ \E i \in IoQueues :
       /\ queue[i] # "live"
       /\ \A j \in 1..(i - 1) : queue[j] = "live"
       /\ \/ /\ SetQueues({i}, "live")
             /\ IF i = NrIoQueues THEN Goto(c, "go_live") ELSE UNCHANGED pc
             /\ UNCHANGED <<gone, nr_reconnects>>
          \/ SetQueues(Queues, "free") /\ SetupFails(c)
  /\ UNCHANGED <<state, quiesced, ns, ka, raised, queued, rq, icdoff>>

GoLive(c) ==
  /\ At(c, "go_live")
  /\ \/ /\ CanEnter("LIVE")
        /\ state' = "LIVE"
        /\ UNCHANGED queue
        /\ Passes(c, "start_ka")
     \/ /\ ~CanEnter("LIVE")
        /\ SetQueues(Queues, "free")
        /\ SetupFails(c)
        /\ UNCHANGED state
  /\ UNCHANGED <<quiesced, ns, ka, raised, queued, rq, icdoff>>

\* nvme_start_ctrl, and the end of the work that called i10_host_setup_ctrl.
StartKeepAlive(c) ==
  /\ At(c, "start_ka")
  /\ ka' = ka \cup {"armed"}
  /\ Goto(c, "start_queues")
  /\ UNCHANGED <<state, queue, quiesced, ns, nr_reconnects, raised, queued, rq,
                 icdoff, gone>>

StartQueues(c) ==
  /\ At(c, "start_queues")
  /\ quiesced' = FALSE
  /\ nr_reconnects' = IF c = "connect" THEN 0 ELSE nr_reconnects
  /\ Goto(c, "idle")
  /\ UNCHANGED <<state, queue, ns, ka, raised, queued, rq, icdoff, gone>>

SetupStep(c) ==
  \/ AllocAdminQueue(c) \/ StartAdminQueue(c) \/ InitAdminQueue(c)
  \/ CheckIcdoff(c) \/ AllocIoQueues(c) \/ StartIoQueues(c)
  \/ GoLive(c) \/ StartKeepAlive(c) \/ StartQueues(c)

-----------------------------------------------------------------------------
(***************************************************************************)
(* Teardown: i10_host_error_recovery_work, nvme_reset_ctrl_work and        *)
(* nvme_delete_ctrl_work.                                                  *)
(***************************************************************************)

StopKeepAlive(c) ==
  /\ At(c, "stop_ka")
  /\ ka' = ka \ {"armed"}
  /\ Goto(c, IF c = "err" THEN "quiesce" ELSE "cancel_err")
  /\ UNCHANGED <<state, queue, quiesced, ns, nr_reconnects, raised, queued, rq,
                 icdoff, gone>>

\* flush_work waits until the work is neither queued nor running.
FlushReset(c) ==
  /\ At(c, "flush_reset")
  /\ At("reset", "idle") /\ "reset" \notin queued
  /\ Goto(c, "stop_ka")
  /\ UNCHANGED <<state, queue, quiesced, ns, ka, nr_reconnects, raised, queued,
                 rq, icdoff, gone>>

\* cancel_work_sync drops a queued work and waits for a running one.
CancelErr(c) ==
  /\ At(c, "cancel_err")
  /\ At("err", "idle")
  /\ queued' = queued \ {"err"}
  /\ Goto(c, "cancel_connect")
  /\ UNCHANGED <<state, queue, quiesced, ns, ka, nr_reconnects, raised, rq,
                 icdoff, gone>>

CancelConnect(c) ==
  /\ At(c, "cancel_connect")
  /\ At("connect", "idle")
  /\ queued' = queued \ {"connect"}
  /\ Goto(c, IF c = "delete" THEN "ns_dying" ELSE "quiesce")
  /\ UNCHANGED <<state, queue, quiesced, ns, ka, nr_reconnects, raised, rq,
                 icdoff, gone>>

\* nvme_remove_namespaces: no new request enters a dying queue, and
\* blk_cleanup_queue waits for those inside.
NsDying(c) ==
  /\ At(c, "ns_dying")
  /\ ns' = "dying"
  /\ Goto(c, "ns_drain")
  /\ UNCHANGED <<state, queue, quiesced, ka, nr_reconnects, raised, queued, rq,
                 icdoff, gone>>

NsDrain(c) ==
  /\ At(c, "ns_drain")
  /\ \A r \in Reqs : rq[r] = "idle"
  /\ ns' = "removed"
  /\ Goto(c, "quiesce")
  /\ UNCHANGED <<state, queue, quiesced, ka, nr_reconnects, raised, queued, rq,
                 icdoff, gone>>

\* i10_host_teardown_io_queues.  nvme_stop_queues waits for the dispatches in
\* progress; a cancelled request is retried or ended.
QuiesceNoWait(c) ==
  /\ At(c, "quiesce")
  /\ quiesced' = TRUE
  /\ Goto(c, "io_stop")
  /\ UNCHANGED <<state, queue, ns, ka, nr_reconnects, raised, queued, rq,
                 icdoff, gone>>

Quiesce(c) ==
  /\ At(c, "quiesce")
  /\ \A r \in Reqs : rq[r] # "checked"
  /\ quiesced' = TRUE
  /\ Goto(c, "io_stop")
  /\ UNCHANGED <<state, queue, ns, ka, nr_reconnects, raised, queued, rq,
                 icdoff, gone>>

StopIoQueues(c) ==
  /\ At(c, "io_stop")
  /\ queue' = [i \in Queues |->
                 IF i \in IoQueues /\ queue[i] = "live" THEN "allocated" ELSE queue[i]]
  /\ Goto(c, "io_free")
  /\ UNCHANGED <<state, quiesced, ns, ka, nr_reconnects, raised, queued, rq,
                 icdoff, gone>>

Ended(r) == rq'[r] \in IF ns = "dying" THEN {"idle"} ELSE {"idle", "waiting"}

FreeIoQueues(c) ==
  /\ At(c, "io_free")
  /\ rq' \in [Reqs -> {"idle", "waiting", "checked", "inflight"}]
  /\ \A r \in Reqs : IF rq[r] = "inflight" THEN Ended(r) ELSE rq'[r] = rq[r]
  /\ quiesced' = (quiesced /\ c # "delete")
  /\ SetQueues(IoQueues, "free")
  /\ Goto(c, IF c = "err" THEN "unquiesce" ELSE "disable")
  /\ UNCHANGED <<state, ns, ka, nr_reconnects, raised, queued, icdoff, gone>>

Unquiesce(c) ==
  /\ At(c, "unquiesce")
  /\ quiesced' = FALSE
  /\ Goto(c, "admin_down")
  /\ UNCHANGED <<state, queue, ns, ka, nr_reconnects, raised, queued, rq,
                 icdoff, gone>>

\* nvme_disable_ctrl and nvme_shutdown_ctrl only send property commands.
DisableCtrl(c) ==
  /\ At(c, "disable")
  /\ Goto(c, "admin_down")
  /\ UNCHANGED <<state, queue, quiesced, ns, ka, nr_reconnects, raised, queued,
                 rq, icdoff, gone>>

\* A keep-alive command that reached the transport is cancelled (and then not
\* re-armed); one still in the block layer stays there.
TeardownAdminQueue(c) ==
  /\ At(c, "admin_down")
  /\ SetQueues({0}, "free")
  /\ ka' \in {ka, ka \ {"sent"}}
  /\ Goto(c, IF c = "delete" THEN "put" ELSE "go_connecting")
  /\ UNCHANGED <<state, quiesced, ns, nr_reconnects, raised, queued, rq,
                 icdoff, gone>>

GoConnecting(c) ==
  /\ At(c, "go_connecting")
  /\ \/ /\ CanEnter("CONNECTING")
        /\ state' = "CONNECTING"
        /\ Goto(c, IF c = "err" THEN "decide" ELSE "admin_alloc")
        /\ UNCHANGED gone
     \/ /\ ~CanEnter("CONNECTING")
        /\ Goto(c, "idle")
        /\ gone' = (gone \/ c = "create")
        /\ UNCHANGED state
  /\ UNCHANGED <<queue, quiesced, ns, ka, nr_reconnects, raised, queued, rq,
                 icdoff>>

\* i10_host_reconnect_or_remove and nvmf_should_reconnect.
ReconnectOnceMore(c) ==
  /\ At(c, "decide")
  /\ IF state = "CONNECTING" /\ nr_reconnects <= MaxReconnects
     THEN queued' = queued \cup {"connect"}
     ELSE UNCHANGED queued
  /\ Goto(c, "idle")
  /\ UNCHANGED <<state, raised, queue, quiesced, ns, ka, nr_reconnects, rq,
                 icdoff, gone>>

ReconnectOnly(c) ==
  /\ At(c, "decide")
  /\ IF state = "CONNECTING" /\ nr_reconnects < MaxReconnects
     THEN queued' = queued \cup {"connect"}
     ELSE UNCHANGED queued
  /\ Goto(c, "idle")
  /\ UNCHANGED <<state, raised, queue, quiesced, ns, ka, nr_reconnects, rq,
                 icdoff, gone>>

ReconnectOrRemove(c) ==
  /\ At(c, "decide")
  /\ \/ /\ state # "CONNECTING"
        /\ UNCHANGED <<state, raised, queued>>
     \/ /\ state = "CONNECTING"
        /\ nr_reconnects < MaxReconnects
        /\ queued' = queued \cup {"connect"}
        /\ UNCHANGED <<state, raised>>
     \/ /\ state = "CONNECTING"
        /\ nr_reconnects >= MaxReconnects
        /\ Raise("DELETING", "delete")
        /\ UNCHANGED queued
  /\ Goto(c, "idle")
  /\ UNCHANGED <<queue, quiesced, ns, ka, nr_reconnects, rq, icdoff, gone>>

PutCtrl(c) ==
  /\ At(c, "put")
  /\ gone' = TRUE
  /\ Goto(c, "idle")
  /\ UNCHANGED <<state, queue, quiesced, ns, ka, nr_reconnects, raised, queued,
                 rq, icdoff>>

TeardownStep(c) ==
  \/ StopKeepAlive(c) \/ FlushReset(c)
  \/ CancelErr(c) \/ CancelConnect(c)
  \/ NsDying(c) \/ NsDrain(c)
  \/ Quiesce(c) \/ StopIoQueues(c) \/ FreeIoQueues(c) \/ Unquiesce(c)
  \/ DisableCtrl(c) \/ TeardownAdminQueue(c)
  \/ GoConnecting(c) \/ ReconnectOrRemove(c) \/ PutCtrl(c)

Step(c) == SetupStep(c) \/ TeardownStep(c)

-----------------------------------------------------------------------------
(***************************************************************************)
(* Requests: i10_host_queue_rq, its completion, and i10_host_timeout.      *)
(***************************************************************************)

SetRq(r, s) == rq' = [rq EXCEPT ![r] = s]
OnlyRq == UNCHANGED <<state, queue, quiesced, ns, ka, nr_reconnects, raised,
                      queued, pc, icdoff, gone>>

Submit(r) == rq[r] = "idle" /\ ns = "up" /\ SetRq(r, "waiting") /\ OnlyRq

\* nvmf_check_ready lets a namespace request through only when the controller
\* is live.  Otherwise nvmf_fail_nonready_command leaves it to the block layer
\* (no step) or, when it must not be retried, ends it.
Ready(r) ==
  /\ rq[r] = "waiting" /\ ~quiesced
  /\ state \in {"LIVE", "ADMIN_ONLY"}
  /\ SetRq(r, "checked")
  /\ OnlyRq

FailNonready(r) ==
  /\ rq[r] = "waiting" /\ ~quiesced
  /\ state \in {"DELETING", "DEAD"}
  /\ SetRq(r, "idle")
  /\ OnlyRq

FailNoRetry(r) ==
  /\ rq[r] = "waiting" /\ ~quiesced
  /\ state \in {"NEW", "RESETTING", "CONNECTING"}
  /\ SetRq(r, "idle")
  /\ OnlyRq

\* blk_mq_start_request and i10_host_queue_request.
QueueRequest(r) == rq[r] = "checked" /\ SetRq(r, "inflight") /\ OnlyRq

Complete(r) ==
  /\ rq[r] = "inflight"
  /\ \A i \in IoQueues : queue[i] = "live"
  /\ SetRq(r, "idle")
  /\ OnlyRq

TimeoutRecovers(r) ==
  /\ rq[r] = "inflight"
  /\ state = "LIVE"
  /\ Raise("RESETTING", "err")
  /\ UNCHANGED <<queue, quiesced, ns, ka, nr_reconnects, queued, pc, rq,
                 icdoff, gone>>

TimeoutEnds(r) ==
  /\ rq[r] = "inflight"
  /\ state # "LIVE"
  /\ \E s \in IF ns = "dying" THEN {"idle"} ELSE {"idle", "waiting"} : SetRq(r, s)
  /\ OnlyRq

-----------------------------------------------------------------------------
(***************************************************************************)
(* Keep-alive, the sockets, the scan and the user.                         *)
(***************************************************************************)

OnlyKa == UNCHANGED <<state, queue, quiesced, ns, nr_reconnects, raised,
                      queued, pc, rq, icdoff, gone>>

KeepAliveWork ==
  /\ "armed" \in ka
  /\ ka' = (ka \ {"armed"}) \cup {"sent"}
  /\ OnlyKa

\* nvme_keep_alive_work when no request can be allocated.
KeepAliveFails ==
  /\ "armed" \in ka
  /\ ka' = ka \ {"armed"}
  /\ Raise("RESETTING", "reset")
  /\ UNCHANGED <<queue, quiesced, ns, nr_reconnects, queued, pc, rq, icdoff, gone>>

\* nvme_keep_alive_end_io re-arms the work after a success only.
KeepAliveNotRearmed ==
  /\ "sent" \in ka
  /\ queue[0] = "live"
  /\ ka' = ka \ {"sent"}
  /\ OnlyKa

KeepAliveEndIo ==
  /\ "sent" \in ka
  /\ queue[0] = "live"
  /\ ka' = (ka \ {"sent"}) \cup {"armed"}
  /\ OnlyKa

KeepAliveTimeout ==
  /\ "sent" \in ka
  /\ state = "LIVE"
  /\ Raise("RESETTING", "err")
  /\ UNCHANGED <<queue, quiesced, ns, ka, nr_reconnects, queued, pc, rq,
                 icdoff, gone>>

\* i10_host_state_change and the receive errors: the socket of an allocated
\* queue still has the driver's callbacks.
SocketError(i) ==
  /\ queue[i] # "free"
  /\ Raise("RESETTING", "err")
  /\ UNCHANGED <<queue, quiesced, ns, ka, nr_reconnects, queued, pc, rq,
                 icdoff, gone>>

\* nvme_scan_work finds the namespaces of a live controller.
ScanWork ==
  /\ state = "LIVE"
  /\ ns = "none"
  /\ ns' = "up"
  /\ UNCHANGED <<state, queue, quiesced, ka, nr_reconnects, raised, queued, pc,
                 rq, icdoff, gone>>

\* The reset_controller and delete_controller attributes, written once the
\* connect command has returned.
SysfsReset ==
  /\ At("create", "idle") /\ ~gone
  /\ Raise("RESETTING", "reset")
  /\ UNCHANGED <<queue, quiesced, ns, ka, nr_reconnects, queued, pc, rq,
                 icdoff, gone>>

SysfsDelete ==
  /\ At("create", "idle") /\ ~gone
  /\ Raise("DELETING", "delete")
  /\ UNCHANGED <<queue, quiesced, ns, ka, nr_reconnects, queued, pc, rq,
                 icdoff, gone>>

-----------------------------------------------------------------------------
Init ==
  /\ state = "NEW"
  /\ queue = [i \in Queues |-> "free"]
  /\ quiesced = FALSE
  /\ ns = "none"
  /\ ka = {}
  /\ nr_reconnects = 0
  /\ raised = {}
  /\ queued = {}
  /\ pc = [c \in Contexts |-> IF c = "create" THEN "go_connecting" ELSE "idle"]
  /\ rq = [r \in Reqs |-> "idle"]
  /\ icdoff \in BOOLEAN
  /\ gone = FALSE

Next ==
  \/ \E c \in Contexts : Step(c)
  \/ \E w \in Works : QueueWork(w) \/ Begin(w)
  \/ \E r \in Reqs :
       \/ Submit(r) \/ Ready(r) \/ FailNonready(r) \/ FailNoRetry(r)
       \/ QueueRequest(r) \/ Complete(r) \/ TimeoutRecovers(r) \/ TimeoutEnds(r)
  \/ KeepAliveWork \/ KeepAliveFails \/ KeepAliveEndIo \/ KeepAliveTimeout
  \/ \E i \in Queues : SocketError(i)
  \/ ScanWork \/ SysfsReset \/ SysfsDelete

Spec == Init /\ [][Next]_vars

\* A worker that can go on does: the kernel schedules every runnable context,
\* the block layer dispatches what it may and fires the timer of a request the
\* transport holds.  Errors, completions and the user owe nothing.
Fairness ==
  /\ \A c \in Contexts : WF_vars(Step(c))
  /\ \A w \in Works : WF_vars(QueueWork(w)) /\ WF_vars(Begin(w))
  /\ \A r \in Reqs : /\ WF_vars(FailNonready(r))
                     /\ WF_vars(QueueRequest(r))
                     /\ WF_vars(TimeoutEnds(r))

FairSpec == Spec /\ Fairness

-----------------------------------------------------------------------------
(***************************************************************************)
(* Properties.                                                             *)
(***************************************************************************)

Tail == {"idle", "start_ka", "start_queues"}
SetupSteps == {"admin_alloc", "admin_start", "admin_init", "icdoff", "io_alloc",
               "io_start", "go_live", "decide"}
TeardownSteps == {"flush_reset", "stop_ka", "cancel_err", "cancel_connect",
                  "ns_dying", "ns_drain", "quiesce", "io_stop", "io_free",
                  "unquiesce", "disable", "admin_down", "go_connecting", "put"}

\* The type of every variable of the controller; opts->max_reconnects bounds
\* the attempts, a failed reset counting as one.
TypeOK ==
  /\ state \in States
  /\ queue \in [Queues -> {"free", "allocated", "live"}]
  /\ quiesced \in BOOLEAN
  /\ ns \in {"none", "up", "dying", "removed"}
  /\ ka \subseteq {"armed", "sent"}
  /\ nr_reconnects \in 0..(IF MaxReconnects = 0 THEN 1 ELSE MaxReconnects)
  /\ raised \subseteq Works
  /\ queued \subseteq Works
  /\ pc \in [Contexts -> Tail \cup SetupSteps \cup TeardownSteps]
  /\ rq \in [Reqs -> {"idle", "waiting", "checked", "inflight"}]
  /\ icdoff \in BOOLEAN
  /\ gone \in BOOLEAN

\* None of the WARN_ON_ONCE assertions can fire: a context about to enter LIVE
\* or CONNECTING fails to only when the controller is being deleted, and
\* i10_host_reconnect_or_remove never finds the controller new or live.
WarningsSilent ==
  \A c \in Contexts :
    /\ At(c, "go_live") => CanEnter("LIVE") \/ state = "DELETING"
    /\ At(c, "go_connecting") => CanEnter("CONNECTING") \/ state = "DELETING"
    /\ At(c, "decide") => state \notin {"NEW", "LIVE"}

\* A live controller has every queue connected: whoever takes a queue down has
\* first moved the controller out of LIVE, and LIVE is entered last.
LiveMeansConnected == state = "LIVE" => \A i \in Queues : queue[i] = "live"

\* Once nvme_start_ctrl is over, a live controller sends keep-alives and its
\* namespaces' queues run: no teardown that overlapped the start undid it.
LiveMeansServing ==
  state = "LIVE" /\ (\A c \in Contexts : pc[c] \notin {"start_ka", "start_queues"})
    => ka # {} /\ ~quiesced

\* A request the transport holds has its queues: the readiness test of
\* i10_host_queue_rq is not stale when the request reaches the queue, because
\* nvme_stop_queues waits for the dispatches that passed it.
InflightHasQueues ==
  \A r \in Reqs : rq[r] \in {"checked", "inflight"} =>
    \A i \in IoQueues : queue[i] # "free"

\* The steps that allocate, start, stop or free queues.
TouchesQueues(c) ==
  pc[c] \in {"admin_alloc", "admin_start", "admin_init", "icdoff", "io_alloc",
             "io_start", "go_live", "quiesce", "io_stop", "io_free", "disable",
             "admin_down"}

\* Creation, error recovery, reset and reconnect never work on the queues at
\* the same time: the state machine admits one of them, and reset cancels the
\* works of nvme_wq first.
RecoverySerialized ==
  \A c, d \in Contexts \ {"delete"} :
    c # d => ~(TouchesQueues(c) /\ TouchesQueues(d))

\* nvme_delete_ctrl_work owns the queues it takes down: the works it flushed
\* or cancelled do not run beside it ("for serialization").
DeleteSerialized ==
  TouchesQueues("delete") =>
    \A c \in Contexts \ {"delete"} : ~TouchesQueues(c)

\* nvme_remove_namespaces waits for requests that sit behind the quiesced
\* queues nvme_reset_ctrl_work left: nothing will dispatch them.
RemovalBlocked ==
  /\ At("delete", "ns_drain") /\ quiesced
  /\ At("err", "idle") /\ "err" \notin queued \cup raised
  /\ \E r \in Reqs : rq[r] = "waiting"

\* Recovery ends: a controller that is not live gets live again or is freed,
\* however often its connection breaks and whatever the user asks for.  Two
\* cases of the code are outside the promise: a target with a non-zero ICDOFF,
\* and a removal that waits for requests behind queues a reset left quiesced.
RecoveryEnds ==
  state \in {"RESETTING", "CONNECTING", "DELETING"} /\ ~icdoff
    ~> state = "LIVE" \/ gone \/ RemovalBlocked

-----------------------------------------------------------------------------
(***************************************************************************)
(* The argument behind the safety properties.  A context other than the    *)
(* delete work holds the controller from the state change that calls for   *)
(* it until it is done with the queues; nvme_start_ctrl, which follows, is *)
(* not part of that.  The state machine hands the controller from one      *)
(* holder to the next.                                                     *)
(***************************************************************************)

Recoverers == Contexts \ {"delete"}

Holds(c) == c \in raised \/ c \in queued \/ pc[c] \notin Tail

\* At most one context holds the controller, and only once.
OneHolder ==
  /\ \A c, d \in Recoverers : Holds(c) /\ Holds(d) => c = d
  /\ \A c \in Recoverers :
       /\ ~(c \in raised /\ c \in queued)
       /\ c \in raised \cup queued => pc[c] \in Tail

\* What the state says of the holder: none when LIVE, the create task alone
\* when NEW, a teardown when RESETTING, a set-up or a pending reconnect when
\* CONNECTING.  Nothing is known when DELETING.
HolderFitsState ==
  /\ state \in {"NEW", "LIVE", "RESETTING", "CONNECTING", "DELETING"}
  /\ state = "NEW" => /\ pc["create"] = "go_connecting"
                      /\ \A c \in Works : pc[c] = "idle"
                      /\ \A i \in Queues : queue[i] = "free"
                      /\ ka = {}
  /\ state = "LIVE" => \A c \in Recoverers : ~Holds(c)
  /\ state = "RESETTING" =>
       \A c \in Recoverers : Holds(c) =>
         c \in {"err", "reset"} /\ pc[c] \in Tail \cup TeardownSteps
  /\ state = "CONNECTING" =>
       \A c \in Recoverers : Holds(c) =>
         /\ c \notin raised
         /\ c \in queued => c = "connect"
         /\ pc[c] \in Tail \cup SetupSteps

\* Only a controller that is being deleted has its delete work called for.
DeleteOnlyDeleting ==
  pc["delete"] # "idle" \/ "delete" \in raised \cup queued => state = "DELETING"

\* How far the queues are when set-up is at a step, unless deletion interferes.
SetupProgress ==
  state # "DELETING" =>
    /\ state = "LIVE" => \A i \in Queues : queue[i] = "live"
    /\ \A c \in Recoverers :
         /\ pc[c] \in {"admin_init", "icdoff", "io_alloc", "io_start", "go_live"}
              => queue[0] = "live"
         /\ pc[c] = "go_live" => \A i \in Queues : queue[i] = "live"

\* The types the argument needs.
HolderType ==
  /\ pc \in [Contexts -> Tail \cup SetupSteps \cup TeardownSteps]
  /\ queue \in [Queues -> {"free", "allocated", "live"}]
  /\ raised \subseteq Works
  /\ queued \subseteq Works

HolderInv ==
  HolderType /\ OneHolder /\ HolderFitsState /\ DeleteOnlyDeleting /\ SetupProgress

\* Where a context is once it has ended every request of the I/O queues.
Cleared == SetupSteps \cup {"unquiesce", "disable", "admin_down", "go_connecting", "put"}

NoneChecked == \A r \in Reqs : rq[r] # "checked"
NoneHeld == \A r \in Reqs : rq[r] \notin {"checked", "inflight"}

\* Why no request is left on a queue that goes away: the teardown waits for the
\* dispatches before it stops the queues and ends the rest before it frees
\* them, and requests pass the readiness test again only when LIVE.
RequestsFitTeardown ==
  /\ rq \in [Reqs -> {"idle", "waiting", "checked", "inflight"}]
  /\ \A c \in Contexts : pc[c] \in {"io_stop", "io_free"} => NoneChecked
  /\ \A c \in Contexts : pc[c] \in Cleared => NoneHeld
  /\ "connect" \in queued => NoneHeld
  /\ "connect" \notin raised

RequestInv == RequestsFitTeardown /\ InflightHasQueues

=============================================================================
