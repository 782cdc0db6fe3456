-------------------------- MODULE I10HostCtrl_proof --------------------------
(***************************************************************************)
(* Proofs about I10HostCtrl, for every number of I/O queues, requests and  *)
(* reconnect attempts.  The inductive invariant is HolderInv.  An action   *)
(* of a context is one of four kinds for the argument: it moves on inside  *)
(* the set-up or the teardown (Advance), it enters LIVE or CONNECTING, it  *)
(* queues the reconnect, or it calls for a work (Raise); every other       *)
(* action leaves the holder alone (Quiet).                                 *)
(***************************************************************************)
EXTENDS I10HostCtrl, TLAPS

Places == Tail \cup SetupSteps \cup TeardownSteps

\* The initial state satisfies the invariant: the create task holds the
\* controller.
LEMMA HolderInit == Init => HolderInv
<1> SUFFICES ASSUME Init PROVE HolderInv
  OBVIOUS
<1>1. HolderType
  BY DEF Init, HolderType, Tail, SetupSteps, TeardownSteps, Contexts, Works
<1>2. OneHolder
  BY DEF Init, OneHolder, Holds, Recoverers, Contexts, Works, Tail
<1>3. HolderFitsState
  BY DEF Init, HolderFitsState, Contexts, Works
<1>4. DeleteOnlyDeleting
  BY DEF Init, DeleteOnlyDeleting, Contexts, Works
<1>5. SetupProgress
  BY DEF Init, SetupProgress, Recoverers, Contexts, Works
<1> QED
  BY <1>1, <1>2, <1>3, <1>4, <1>5 DEF HolderInv

\* A context that moves on inside the set-up or inside the teardown, or ends,
\* keeps what it holds or gives it up.
LEMMA Advance ==
  ASSUME HolderInv,
         NEW c \in Contexts, NEW s \in Places,
         pc[c] # "idle",
         pc[c] # "go_connecting" \/ state = "DELETING",
         pc' = [pc EXCEPT ![c] = s],
         s \in Tail \/ (pc[c] \in SetupSteps /\ s \in SetupSteps)
                    \/ (pc[c] \in TeardownSteps /\ s \in TeardownSteps),
         state' = state, raised' = raised, queued' \subseteq queued
  PROVE  OneHolder' /\ HolderFitsState' /\ DeleteOnlyDeleting'
<1> USE DEF HolderInv, HolderType
<1>0. state # "NEW"
  BY DEF HolderFitsState, Contexts, Works
<1>1. \A d \in Contexts : pc'[d] = IF d = c THEN s ELSE pc[d]
  OBVIOUS
<1>2. \A d \in Recoverers : Holds(d)' => Holds(d) \/ (d = c /\ pc[c] \in Tail)
  BY <1>1 DEF Holds, Recoverers
<1>3. pc[c] \in Tail => s \in Tail
  BY DEF Tail, SetupSteps, TeardownSteps
<1>4. \A d \in Recoverers : Holds(d)' => Holds(d)
  BY <1>1, <1>3 DEF Holds, Recoverers
<1>5. OneHolder'
  BY <1>1, <1>3, <1>4 DEF OneHolder, Recoverers, Holds
<1>6. HolderFitsState'
  <2>1. CASE state = "LIVE"
    BY <2>1, <1>4 DEF HolderFitsState
  <2>2. CASE state = "RESETTING"
    BY <2>2, <1>1, <1>4 DEF HolderFitsState, Recoverers, Tail, SetupSteps, TeardownSteps, Holds
  <2>3. CASE state = "CONNECTING"
    BY <2>3, <1>1, <1>4 DEF HolderFitsState, Recoverers, Tail, SetupSteps, TeardownSteps, Holds
  <2>4. CASE state = "DELETING"
    BY <2>4 DEF HolderFitsState
  <2> QED
    BY <2>1, <2>2, <2>3, <2>4, <1>0 DEF HolderFitsState
<1>7. DeleteOnlyDeleting'
  BY <1>1 DEF DeleteOnlyDeleting, Contexts, Works
<1> QED
  BY <1>5, <1>6, <1>7

\* Only the holder works on the queues, so the queues are as far as the step
\* it moves to requires.
LEMMA Progress ==
  ASSUME HolderInv,
         NEW c \in Contexts, NEW s \in Places,
         pc[c] \notin Tail,
         pc' = [pc EXCEPT ![c] = s],
         state' = state,
         state # "DELETING" /\ s \in {"admin_init", "icdoff", "io_alloc",
                                      "io_start", "go_live"}
           => queue'[0] = "live",
         state # "DELETING" /\ s = "go_live" => \A i \in Queues : queue'[i] = "live"
  PROVE  SetupProgress'
<1> SUFFICES ASSUME state # "DELETING" PROVE SetupProgress'
  BY DEF SetupProgress
<1> USE DEF HolderInv, HolderType
<1>1. c \in Recoverers
  BY DEF DeleteOnlyDeleting, Recoverers, Tail
<1>2. Holds(c) /\ state # "LIVE"
  BY <1>1 DEF Holds, HolderFitsState
<1>3. \A d \in Recoverers : d # c => pc[d] \in Tail
  BY <1>1, <1>2 DEF OneHolder, Holds
<1>4. \A d \in Recoverers : d # c => pc'[d] \in Tail
  BY <1>3 DEF Recoverers
<1>5. pc'[c] = s
  OBVIOUS
<1> QED
  BY <1>2, <1>4, <1>5 DEF SetupProgress, Tail

\* The types the argument needs survive every step of one context.
LEMMA Types ==
  ASSUME HolderType,
         NEW c \in Contexts, NEW s \in Places,
         pc' = [pc EXCEPT ![c] = s],
         queue' \in [Queues -> {"free", "allocated", "live"}],
         raised' = raised, queued' \subseteq queued
  PROVE  HolderType'
BY DEF HolderType, Places

\* Setting some queues keeps the type of queue.
LEMMA SetQueuesType ==
  ASSUME HolderType, NEW qs, NEW s \in {"free", "allocated", "live"}, SetQueues(qs, s)
  PROVE  /\ queue' \in [Queues -> {"free", "allocated", "live"}]
         /\ \A i \in Queues : queue'[i] = IF i \in qs THEN s ELSE queue[i]
BY DEF HolderType, SetQueues

\* The set of queues holds the admin queue and every I/O queue.
LEMMA QueueSets ==
  0 \in Queues /\ 0 \notin IoQueues /\ Queues = {0} \cup IoQueues
BY CtrlAssumption DEF Queues, IoQueues

\* The three parts of a step that advances, together.
LEMMA Moves ==
  ASSUME HolderInv,
         NEW c \in Contexts, NEW s \in Places,
         pc[c] \notin Tail,
         pc[c] # "go_connecting" \/ state = "DELETING",
         pc' = [pc EXCEPT ![c] = s],
         s \in Tail \/ (pc[c] \in SetupSteps /\ s \in SetupSteps)
                    \/ (pc[c] \in TeardownSteps /\ s \in TeardownSteps),
         state' = state, raised' = raised, queued' \subseteq queued,
         queue' \in [Queues -> {"free", "allocated", "live"}],
         state # "DELETING" /\ s \in {"admin_init", "icdoff", "io_alloc",
                                      "io_start", "go_live"}
           => queue'[0] = "live",
         state # "DELETING" /\ s = "go_live" => \A i \in Queues : queue'[i] = "live"
  PROVE  HolderInv'
<1>1. pc[c] # "idle"
  BY DEF Tail
<1>2. OneHolder' /\ HolderFitsState' /\ DeleteOnlyDeleting'
  BY <1>1, Advance
<1>3. SetupProgress'
  BY Progress
<1>4. HolderType'
  BY Types DEF HolderInv
<1> QED
  BY <1>2, <1>3, <1>4 DEF HolderInv

\* What the steps of the set-up need to know of the queues.
LEMMA AtSetup ==
  ASSUME HolderInv, NEW c \in Contexts, state # "DELETING"
  PROVE  /\ pc[c] \in {"admin_init", "icdoff", "io_alloc", "io_start", "go_live"}
              => queue[0] = "live"
         /\ pc[c] = "go_live" => \A i \in Queues : queue[i] = "live"
BY DEF HolderInv, SetupProgress, DeleteOnlyDeleting, Recoverers

\* The steps of the set-up preserve the invariant.
LEMMA SetupStepHolds ==
  ASSUME HolderInv, NEW c \in Contexts, SetupStep(c)
  PROVE  HolderInv'
<1> DEFINE Fail == IF c = "create" THEN "idle" ELSE "decide"
<1>0. Fail \in Places /\ Fail \notin {"admin_init", "icdoff", "io_alloc", "io_start", "go_live"}
  BY DEF Places, Tail, SetupSteps
<1>t. HolderType
  BY DEF HolderInv
<1>1. CASE AllocAdminQueue(c)
  <2>1. pc[c] = "admin_alloc" /\ state' = state /\ raised' = raised /\ queued' = queued
    BY <1>1 DEF AllocAdminQueue, At
  <2>2. CASE SetQueues({0}, "allocated") /\ pc' = [pc EXCEPT ![c] = "admin_start"]
    <3>1. queue' \in [Queues -> {"free", "allocated", "live"}]
      BY <2>2, <1>t, SetQueuesType
    <3>2. state # "DELETING" /\ "admin_start" \in {"admin_init", "icdoff", "io_alloc", "io_start", "go_live"}
            => queue'[0] = "live"
      BY <2>2, <2>1, <1>t, AtSetup, QueueSets, SetQueuesType
    <3> QED
      BY <3>1, <3>2, <2>2, <2>1, Moves
      DEF SetupSteps, TeardownSteps, Tail, Places
  <2>3. CASE UNCHANGED queue /\ pc' = [pc EXCEPT ![c] = Fail]
    <3>1. queue' \in [Queues -> {"free", "allocated", "live"}]
      BY <2>3, <1>t DEF HolderType
    <3> QED
      BY <3>1, <1>0, <2>3, <2>1, Moves
      DEF SetupSteps, TeardownSteps, Tail, Places
  <2> QED
    BY <1>1, <2>2, <2>3 DEF AllocAdminQueue, Passes, SetupFails, Goto
<1>2. CASE StartAdminQueue(c)
  <2>1. pc[c] = "admin_start" /\ state' = state /\ raised' = raised /\ queued' = queued
    BY <1>2 DEF StartAdminQueue, At
  <2>2. CASE SetQueues({0}, "live") /\ pc' = [pc EXCEPT ![c] = "admin_init"]
    <3>1. queue' \in [Queues -> {"free", "allocated", "live"}]
      BY <2>2, <1>t, SetQueuesType
    <3>2. state # "DELETING" /\ "admin_init" \in {"admin_init", "icdoff", "io_alloc", "io_start", "go_live"}
            => queue'[0] = "live"
      BY <2>2, <2>1, <1>t, AtSetup, QueueSets, SetQueuesType
    <3> QED
      BY <3>1, <3>2, <2>2, <2>1, Moves
      DEF SetupSteps, TeardownSteps, Tail, Places
  <2>3. CASE SetQueues({0}, "free") /\ pc' = [pc EXCEPT ![c] = Fail]
    <3>1. queue' \in [Queues -> {"free", "allocated", "live"}]
      BY <2>3, <1>t, SetQueuesType
    <3> QED
      BY <3>1, <1>0, <2>3, <2>1, Moves
      DEF SetupSteps, TeardownSteps, Tail, Places
  <2> QED
    BY <1>2, <2>2, <2>3 DEF StartAdminQueue, Passes, SetupFails, Goto
<1>3. CASE InitAdminQueue(c)
  <2>1. pc[c] = "admin_init" /\ state' = state /\ raised' = raised /\ queued' = queued
    BY <1>3 DEF InitAdminQueue, At
  <2>2. CASE UNCHANGED queue /\ pc' = [pc EXCEPT ![c] = "icdoff"]
    <3>1. queue' \in [Queues -> {"free", "allocated", "live"}]
      BY <2>2, <1>t DEF HolderType
    <3>2. state # "DELETING" /\ "icdoff" \in {"admin_init", "icdoff", "io_alloc", "io_start", "go_live"}
            => queue'[0] = "live"
      BY <2>2, <2>1, <1>t, AtSetup, QueueSets
    <3> QED
      BY <3>1, <3>2, <2>2, <2>1, Moves
      DEF SetupSteps, TeardownSteps, Tail, Places
  <2>3. CASE SetQueues({0}, "free") /\ pc' = [pc EXCEPT ![c] = Fail]
    <3>1. queue' \in [Queues -> {"free", "allocated", "live"}]
      BY <2>3, <1>t, SetQueuesType
    <3> QED
      BY <3>1, <1>0, <2>3, <2>1, Moves
      DEF SetupSteps, TeardownSteps, Tail, Places
  <2> QED
    BY <1>3, <2>2, <2>3 DEF InitAdminQueue, Passes, SetupFails, Goto
<1>4. CASE CheckIcdoff(c)
  <2>1. pc[c] = "icdoff" /\ state' = state /\ raised' = raised /\ queued' = queued
    BY <1>4 DEF CheckIcdoff, At
  <2>2. CASE UNCHANGED queue /\ pc' = [pc EXCEPT ![c] = "io_alloc"]
    <3>1. queue' \in [Queues -> {"free", "allocated", "live"}]
      BY <2>2, <1>t DEF HolderType
    <3>2. state # "DELETING" => queue'[0] = "live"
      BY <2>2, <2>1, AtSetup
    <3> QED
      BY <3>1, <3>2, <2>2, <2>1, Moves DEF SetupSteps, TeardownSteps, Tail, Places
  <2>3. CASE SetQueues({0}, "free") /\ pc' = [pc EXCEPT ![c] = "idle"]
    <3>1. queue' \in [Queues -> {"free", "allocated", "live"}]
      BY <2>3, <1>t, SetQueuesType
    <3> QED
      BY <3>1, <2>3, <2>1, Moves DEF SetupSteps, TeardownSteps, Tail, Places
  <2> QED
    BY <1>4, <2>2, <2>3 DEF CheckIcdoff, Passes, Goto
<1>5. CASE AllocIoQueues(c)
  <2>1. pc[c] = "io_alloc" /\ state' = state /\ raised' = raised /\ queued' = queued
    BY <1>5 DEF AllocIoQueues, At
  <2>2. CASE SetQueues(IoQueues, "allocated") /\ pc' = [pc EXCEPT ![c] = "io_start"]
    <3>1. queue' \in [Queues -> {"free", "allocated", "live"}]
      BY <2>2, <1>t, SetQueuesType
    <3>2. state # "DELETING" /\ "io_start" \in {"admin_init", "icdoff", "io_alloc", "io_start", "go_live"}
            => queue'[0] = "live"
      BY <2>2, <2>1, <1>t, AtSetup, QueueSets, SetQueuesType
    <3> QED
      BY <3>1, <3>2, <2>2, <2>1, Moves
      DEF SetupSteps, TeardownSteps, Tail, Places
  <2>3. CASE SetQueues(Queues, "free") /\ pc' = [pc EXCEPT ![c] = Fail]
    <3>1. queue' \in [Queues -> {"free", "allocated", "live"}]
      BY <2>3, <1>t, SetQueuesType
    <3> QED
      BY <3>1, <1>0, <2>3, <2>1, Moves
      DEF SetupSteps, TeardownSteps, Tail, Places
  <2> QED
    BY <1>5, <2>2, <2>3 DEF AllocIoQueues, Passes, SetupFails, Goto
<1>6. CASE StartIoQueues(c)
  <2>1. pc[c] = "io_start" /\ state' = state /\ raised' = raised /\ queued' = queued
    BY <1>6 DEF StartIoQueues, At
  <2>2. PICK i \in IoQueues :
          /\ \A j \in 1..(i - 1) : queue[j] = "live"
          /\ \/ /\ SetQueues({i}, "live")
                /\ IF i = NrIoQueues THEN Goto(c, "go_live") ELSE UNCHANGED pc
             \/ SetQueues(Queues, "free") /\ SetupFails(c)
    BY <1>6 DEF StartIoQueues
  <2>3. CASE SetQueues({i}, "live") /\ i = NrIoQueues /\ Goto(c, "go_live")
    <3>1. queue' \in [Queues -> {"free", "allocated", "live"}]
      BY <2>3, <1>t, SetQueuesType
    <3>2. \A j \in Queues : queue'[j] = IF j = i THEN "live" ELSE queue[j]
      BY <2>3, <1>t, SetQueuesType
    <3>3. \A j \in Queues : j = 0 \/ j = i \/ j \in 1..(i - 1)
      BY <2>3, CtrlAssumption DEF Queues
    <3>4. state # "DELETING" => \A j \in Queues : queue'[j] = "live"
      BY <3>2, <3>3, <2>1, <2>2, AtSetup
    <3> QED
      BY <3>1, <3>4, <2>3, <2>1, QueueSets, Moves
      DEF Goto, SetupSteps, TeardownSteps, Tail, Places
  <2>4. CASE SetQueues({i}, "live") /\ UNCHANGED pc
    <3>1. queue' \in [Queues -> {"free", "allocated", "live"}]
      BY <2>4, <1>t, SetQueuesType
    <3>2. pc' = [pc EXCEPT ![c] = "io_start"]
      BY <2>4, <2>1, <1>t DEF HolderType
    <3>3. state # "DELETING" => queue'[0] = "live"
      BY <2>4, <2>1, <1>t, AtSetup, QueueSets, SetQueuesType
    <3> QED
      BY <3>1, <3>2, <3>3, <2>1, Moves DEF SetupSteps, TeardownSteps, Tail, Places
  <2>5. CASE SetQueues(Queues, "free") /\ pc' = [pc EXCEPT ![c] = Fail]
    <3>1. queue' \in [Queues -> {"free", "allocated", "live"}]
      BY <2>5, <1>t, SetQueuesType
    <3> QED
      BY <3>1, <1>0, <2>5, <2>1, Moves
      DEF SetupSteps, TeardownSteps, Tail, Places
  <2> QED
    BY <2>2, <2>3, <2>4, <2>5 DEF SetupFails, Goto
<1>7. CASE GoLive(c)
  <2>1. pc[c] = "go_live" /\ raised' = raised /\ queued' = queued /\ ka' = ka
    BY <1>7 DEF GoLive, At
  <2>2. CASE CanEnter("LIVE") /\ state' = "LIVE" /\ UNCHANGED queue
             /\ pc' = [pc EXCEPT ![c] = "start_ka"]
    <3>1. state # "DELETING"
      BY <2>2 DEF CanEnter, EntryStates
    <3>2. c \in Recoverers /\ Holds(c)
      BY <3>1, <2>1 DEF HolderInv, DeleteOnlyDeleting, Recoverers, Holds, Tail
    <3>3. c \notin raised /\ c \notin queued
      BY <3>2, <2>1 DEF HolderInv, OneHolder, Tail
    <3>4. \A d \in Recoverers : d # c => ~Holds(d)
      BY <3>2 DEF HolderInv, OneHolder
    <3>5. \A d \in Contexts : pc'[d] = IF d = c THEN "start_ka" ELSE pc[d]
      BY <2>2, <1>t DEF HolderType
    <3>6. \A d \in Recoverers : ~Holds(d)' /\ pc'[d] \in Tail
      BY <3>3, <3>4, <3>5, <2>1 DEF Holds, Recoverers, Tail
    <3>7. HolderType'
      BY <2>1, <2>2, <1>t, Types DEF Places, Tail, HolderType
    <3>8. OneHolder'
      BY <3>6 DEF OneHolder, Holds
    <3>9. HolderFitsState'
      BY <3>6, <2>2 DEF HolderFitsState
    <3>10. DeleteOnlyDeleting'
      BY <3>1, <3>5, <2>1, <3>2 DEF HolderInv, DeleteOnlyDeleting, Recoverers, Contexts, Works
    <3>11. SetupProgress'
      BY <3>1, <3>6, <2>1, <2>2, AtSetup DEF SetupProgress, Tail
    <3> QED
      BY <3>7, <3>8, <3>9, <3>10, <3>11 DEF HolderInv
  <2>3. CASE SetQueues(Queues, "free") /\ UNCHANGED state /\ pc' = [pc EXCEPT ![c] = Fail]
    <3>1. queue' \in [Queues -> {"free", "allocated", "live"}]
      BY <2>3, <1>t, SetQueuesType
    <3> QED
      BY <3>1, <1>0, <2>3, <2>1, Moves DEF SetupSteps, TeardownSteps, Tail, Places
  <2> QED
    BY <1>7, <2>2, <2>3 DEF GoLive, Passes, SetupFails, Goto
<1>8. CASE StartKeepAlive(c) \/ StartQueues(c)
  <2>1. PICK s \in {"start_queues", "idle"} : pc' = [pc EXCEPT ![c] = s]
    BY <1>8 DEF StartKeepAlive, StartQueues, Goto
  <2>2. /\ pc[c] \in {"start_ka", "start_queues"}
        /\ state' = state /\ raised' = raised /\ queued' = queued /\ queue' = queue
    BY <1>8 DEF StartKeepAlive, StartQueues, At
  <2>3. HolderType'
    BY <2>1, <2>2, <1>t, Types DEF Places, Tail, HolderType
  <2>4. OneHolder' /\ HolderFitsState' /\ DeleteOnlyDeleting'
    BY <2>1, <2>2, Advance DEF Places, Tail
  <2>5. \A d \in Contexts : pc'[d] = pc[d] \/ pc'[d] \in {"start_queues", "idle"}
    BY <2>1, <1>t DEF HolderType
  <2>6. SetupProgress'
    BY <2>5, <2>2 DEF HolderInv, SetupProgress, Recoverers
  <2> QED
    BY <2>3, <2>4, <2>6 DEF HolderInv
<1> QED
  BY <1>1, <1>2, <1>3, <1>4, <1>5, <1>6, <1>7, <1>8 DEF SetupStep

\* The steps of the teardown preserve the invariant.
LEMMA TeardownStepHolds ==
  ASSUME HolderInv, NEW c \in Contexts, TeardownStep(c)
  PROVE  HolderInv'
<1>t. HolderType
  BY DEF HolderInv
<1> DEFINE Plain == \/ StopKeepAlive(c) \/ FlushReset(c) \/ CancelErr(c)
                    \/ CancelConnect(c) \/ NsDying(c) \/ NsDrain(c)
                    \/ Quiesce(c) \/ Unquiesce(c) \/ DisableCtrl(c)
                    \/ StopIoQueues(c) \/ FreeIoQueues(c)
                    \/ TeardownAdminQueue(c) \/ PutCtrl(c)
<1>1. CASE Plain
  <2>1. /\ pc[c] \in TeardownSteps \ {"go_connecting"}
        /\ state' = state /\ raised' = raised
    BY <1>1 DEF StopKeepAlive, FlushReset, CancelErr, CancelConnect, NsDying,
       NsDrain, Quiesce, Unquiesce, DisableCtrl, StopIoQueues, FreeIoQueues,
       TeardownAdminQueue, PutCtrl, At, TeardownSteps
  <2>2. queued' \subseteq queued
    BY <1>1 DEF StopKeepAlive, FlushReset, CancelErr, CancelConnect, NsDying,
       NsDrain, Quiesce, Unquiesce, DisableCtrl, StopIoQueues, FreeIoQueues,
       TeardownAdminQueue, PutCtrl
  <2>3. PICK s \in {"idle"} \cup TeardownSteps : pc' = [pc EXCEPT ![c] = s]
    BY <1>1 DEF StopKeepAlive, FlushReset, CancelErr, CancelConnect, NsDying,
       NsDrain, Quiesce, Unquiesce, DisableCtrl, StopIoQueues, FreeIoQueues,
       TeardownAdminQueue, PutCtrl, Goto, TeardownSteps
  <2>4. \/ queue' = queue
        \/ \E qs : SetQueues(qs, "free")
        \/ queue' = [i \in Queues |-> IF i \in IoQueues /\ queue[i] = "live"
                                      THEN "allocated" ELSE queue[i]]
    BY <1>1 DEF StopKeepAlive, FlushReset, CancelErr, CancelConnect, NsDying,
       NsDrain, Quiesce, Unquiesce, DisableCtrl, StopIoQueues, FreeIoQueues,
       TeardownAdminQueue, PutCtrl
  <2>5. queue' \in [Queues -> {"free", "allocated", "live"}]
    BY <2>4, <1>t, SetQueuesType DEF HolderType
  <2> QED
    BY <2>1, <2>2, <2>3, <2>5, Moves DEF Places, Tail, SetupSteps, TeardownSteps
<1>2. CASE GoConnecting(c)
  <2>1. /\ pc[c] = "go_connecting" /\ raised' = raised /\ queued' = queued
        /\ queue' = queue /\ ka' = ka
    BY <1>2 DEF GoConnecting, At
  <2>2. CASE /\ ~CanEnter("CONNECTING") /\ UNCHANGED state
             /\ pc' = [pc EXCEPT ![c] = "idle"]
    <3>1. state = "DELETING"
      <4> SUFFICES ASSUME state # "DELETING" PROVE FALSE
        OBVIOUS
      <4>1. c \in Recoverers /\ Holds(c)
        BY <2>1 DEF HolderInv, DeleteOnlyDeleting, Recoverers, Holds, Tail
      <4>2. state \in {"LIVE", "CONNECTING"}
        BY <2>2 DEF HolderInv, HolderFitsState, CanEnter, EntryStates
      <4> QED
        BY <4>1, <4>2, <2>1 DEF HolderInv, HolderFitsState, Tail, SetupSteps
    <3>2. queue' \in [Queues -> {"free", "allocated", "live"}]
      BY <2>1, <1>t DEF HolderType
    <3> QED
      BY <3>1, <3>2, <2>1, <2>2, Moves DEF Places, Tail, SetupSteps, TeardownSteps
  <2>3. ASSUME CanEnter("CONNECTING"), state' = "CONNECTING",
               NEW s \in {"decide", "admin_alloc"}, pc' = [pc EXCEPT ![c] = s]
        PROVE  HolderInv'
    <3>1. state # "DELETING"
      BY <2>3 DEF CanEnter, EntryStates
    <3>2. c \in Recoverers /\ Holds(c)
      BY <3>1, <2>1 DEF HolderInv, DeleteOnlyDeleting, Recoverers, Holds, Tail
    <3>3. c \notin raised /\ c \notin queued
      BY <3>2, <2>1 DEF HolderInv, OneHolder, Tail
    <3>4. \A d \in Recoverers : d # c => ~Holds(d)
      BY <3>2 DEF HolderInv, OneHolder
    <3>5. \A d \in Contexts : pc'[d] = IF d = c THEN s ELSE pc[d]
      BY <2>3, <1>t DEF HolderType
    <3>6. \A d \in Recoverers : d # c => ~Holds(d)' /\ pc'[d] \in Tail
      BY <3>4, <3>5, <2>1 DEF Holds, Recoverers
    <3>7. HolderType'
      BY <2>1, <2>3, <1>t, Types DEF Places, SetupSteps, HolderType
    <3>8. OneHolder'
      BY <3>3, <3>5, <3>6, <2>1 DEF OneHolder, Holds
    <3>9. HolderFitsState'
      BY <3>2, <3>3, <3>5, <3>6, <2>1, <2>3 DEF HolderFitsState, SetupSteps, Recoverers
    <3>10. DeleteOnlyDeleting'
      BY <3>1, <3>5, <2>1, <3>2 DEF HolderInv, DeleteOnlyDeleting, Recoverers, Contexts, Works
    <3>11. SetupProgress'
      BY <3>2, <3>5, <3>6, <2>3 DEF SetupProgress, Tail, Recoverers
    <3> QED
      BY <3>7, <3>8, <3>9, <3>10, <3>11 DEF HolderInv
  <2> QED
    BY <1>2, <2>2, <2>3 DEF GoConnecting, Goto
<1>3. CASE ReconnectOrRemove(c)
  <2>1. /\ pc[c] = "decide" /\ queue' = queue /\ ka' = ka
        /\ pc' = [pc EXCEPT ![c] = "idle"]
    BY <1>3 DEF ReconnectOrRemove, At, Goto
  <2>2. queue' \in [Queues -> {"free", "allocated", "live"}]
    BY <2>1, <1>t DEF HolderType
  <2>3. CASE UNCHANGED <<state, raised, queued>>
    BY <2>1, <2>2, <2>3, Moves DEF Places, Tail, SetupSteps, TeardownSteps
  <2>4. ASSUME state = "CONNECTING" PROVE c \in Recoverers /\ Holds(c)
    BY <2>4, <2>1 DEF HolderInv, DeleteOnlyDeleting, Recoverers, Holds, Tail
  <2>5. \A d \in Contexts : pc'[d] = IF d = c THEN "idle" ELSE pc[d]
    BY <2>1, <1>t DEF HolderType
  <2>6. CASE /\ state = "CONNECTING" /\ queued' = queued \cup {"connect"}
             /\ UNCHANGED <<state, raised>>
    <3>1. c \in Recoverers /\ Holds(c) /\ c \notin raised /\ c \notin queued
      BY <2>4, <2>6, <2>1 DEF HolderInv, OneHolder, Tail
    <3>2. \A d \in Recoverers : d # c => ~Holds(d)
      BY <3>1 DEF HolderInv, OneHolder
    <3>3. \A d \in Recoverers :
            /\ pc'[d] \in Tail /\ d \notin raised'
            /\ d \in queued' => d = "connect"
      BY <3>1, <3>2, <2>5, <2>6 DEF Holds, Recoverers, Tail
    <3>4. HolderType'
      BY <2>1, <2>2, <2>6, <1>t DEF HolderType, Tail, Works
    <3>5. OneHolder'
      BY <3>3 DEF OneHolder, Holds
    <3>6. HolderFitsState'
      BY <3>3, <2>6 DEF HolderFitsState
    <3>7. DeleteOnlyDeleting'
      BY <2>5, <2>6, <3>1 DEF HolderInv, DeleteOnlyDeleting, Recoverers, Contexts, Works
    <3>8. SetupProgress'
      BY <3>3, <2>6 DEF SetupProgress, Tail
    <3> QED
      BY <3>4, <3>5, <3>6, <3>7, <3>8 DEF HolderInv
  <2>7. CASE state = "CONNECTING" /\ Raise("DELETING", "delete") /\ UNCHANGED queued
    <3>0. state' = "DELETING" /\ raised' = raised \cup {"delete"} /\ queued' = queued
      BY <2>7 DEF Raise
    <3>1. \A d \in Recoverers : (d \in raised' <=> d \in raised) /\ (Holds(d)' => Holds(d))
      BY <2>5, <3>0 DEF Holds, Recoverers, Tail
    <3>2. \A d \in Recoverers : pc'[d] = pc[d] \/ pc'[d] \in Tail
      BY <2>5 DEF Tail, Recoverers
    <3>3. HolderType'
      BY <2>1, <2>2, <3>0, <1>t DEF HolderType, Tail, Works
    <3>4. OneHolder'
      BY <3>0, <3>1, <3>2 DEF HolderInv, OneHolder
    <3>5. HolderFitsState' /\ DeleteOnlyDeleting' /\ SetupProgress'
      BY <3>0 DEF HolderFitsState, DeleteOnlyDeleting, SetupProgress
    <3> QED
      BY <3>3, <3>4, <3>5 DEF HolderInv
  <2> QED
    BY <1>3, <2>3, <2>6, <2>7 DEF ReconnectOrRemove
<1> QED
  BY <1>1, <1>2, <1>3 DEF TeardownStep

\* Calling for a work moves a live controller to RESETTING, with the caller's
\* work as its holder, or any controller to DELETING.
LEMMA RaiseHolds ==
  ASSUME HolderInv, UNCHANGED <<queue, queued, pc>>,
         NEW w \in {"err", "reset", "delete"}, NEW new,
         Raise(new, w),
         \/ w = "delete" /\ new = "DELETING"
         \/ w # "delete" /\ new = "RESETTING" /\ state # "NEW"
  PROVE  HolderInv'
<1>t. HolderType
  BY DEF HolderInv
<1>0. state' = new /\ raised' = raised \cup {w}
  BY DEF Raise
<1>1. HolderType'
  BY <1>t, <1>0 DEF HolderType, Works
<1>2. CASE w = "delete"
  <2>1. \A d \in Recoverers : (d \in raised' <=> d \in raised) /\ (Holds(d)' <=> Holds(d))
    BY <1>0, <1>2 DEF Holds, Recoverers
  <2>2. OneHolder'
    BY <2>1 DEF HolderInv, OneHolder
  <2>3. HolderFitsState' /\ DeleteOnlyDeleting' /\ SetupProgress'
    BY <1>0, <1>2 DEF HolderFitsState, DeleteOnlyDeleting, SetupProgress
  <2> QED
    BY <1>1, <2>2, <2>3 DEF HolderInv
<1>3. CASE w # "delete"
  <2>1. state = "LIVE"
    BY <1>3 DEF Raise, CanEnter, EntryStates, HolderInv, HolderFitsState
  <2>2. \A d \in Recoverers : ~Holds(d)
    BY <2>1 DEF HolderInv, HolderFitsState
  <2>3. \A d \in Recoverers : pc'[d] \in Tail /\ d \notin queued' /\ (d \in raised' => d = w)
    BY <2>2, <1>0 DEF Holds
  <2>4. OneHolder'
    BY <2>3 DEF OneHolder, Holds
  <2>5. HolderFitsState'
    BY <2>3, <1>0, <1>3 DEF HolderFitsState, Holds
  <2>6. DeleteOnlyDeleting'
    BY <2>1, <1>0, <1>3 DEF HolderInv, DeleteOnlyDeleting
  <2>7. SetupProgress'
    BY <2>3, <1>0, <1>3 DEF SetupProgress, Tail
  <2> QED
    BY <1>1, <2>4, <2>5, <2>6, <2>7 DEF HolderInv
<1> QED
  BY <1>2, <1>3

\* Queueing and starting a called-for work leaves the holder the same.
LEMMA WorkHolds ==
  ASSUME HolderInv, NEW w \in Works, QueueWork(w) \/ Begin(w)
  PROVE  HolderInv'
<1>t. HolderType
  BY DEF HolderInv
<1>0. w \in Contexts /\ (w \in Recoverers <=> w # "delete")
  BY DEF Works, Contexts, Recoverers
<1>1. state' = state /\ queue' = queue /\ ka' = ka
  BY DEF QueueWork, Begin
<1>2. CASE QueueWork(w)
  <2>1. w \in raised /\ raised' = raised \ {w} /\ queued' = queued \cup {w} /\ pc' = pc
    BY <1>2 DEF QueueWork
  <2>2. \A d \in Recoverers : Holds(d)' <=> Holds(d)
    BY <2>1 DEF Holds
  <2>3. HolderType'
    BY <1>t, <1>1, <2>1 DEF HolderType
  <2>4. OneHolder'
    BY <2>1, <2>2 DEF HolderInv, OneHolder
  <2>5. state = "CONNECTING" => w = "delete"
    BY <2>1, <1>0 DEF HolderInv, HolderFitsState, Holds
  <2>6. HolderFitsState'
    BY <2>1, <2>2, <2>5, <1>0, <1>1 DEF HolderInv, HolderFitsState
  <2>7. DeleteOnlyDeleting' /\ SetupProgress'
    BY <2>1, <1>1 DEF HolderInv, DeleteOnlyDeleting, SetupProgress
  <2> QED
    BY <2>3, <2>4, <2>6, <2>7 DEF HolderInv
<1>3. CASE Begin(w)
  <2>1. /\ w \in queued /\ pc[w] = "idle" /\ raised' = raised
        /\ queued' = queued \ {w} /\ pc' = [pc EXCEPT ![w] = Entry(w)]
    BY <1>3 DEF Begin, At, Goto
  <2>2. /\ Entry(w) \in Places \ Tail
        /\ w = "connect" => Entry(w) = "admin_alloc"
        /\ w \in {"err", "reset"} => Entry(w) = "stop_ka"
    BY DEF Entry, Works, Places, Tail, SetupSteps, TeardownSteps
  <2>3. \A d \in Contexts : pc'[d] = IF d = w THEN Entry(w) ELSE pc[d]
    BY <2>1, <1>t DEF HolderType
  <2>4. \A d \in Recoverers : Holds(d)' <=> Holds(d)
    BY <2>1, <2>2, <2>3 DEF Holds, Recoverers
  <2>5. HolderType'
    BY <1>t, <1>0, <1>1, <2>1, <2>2, Types DEF HolderType
  <2>6. OneHolder'
    BY <2>1, <2>3, <2>4 DEF HolderInv, OneHolder, Recoverers
  <2>7. DeleteOnlyDeleting'
    BY <2>1, <2>3, <1>0, <1>1 DEF HolderInv, DeleteOnlyDeleting, Contexts, Works
  <2>8. CASE w = "delete"
    <3>1. state = "DELETING"
      BY <2>8, <2>1 DEF HolderInv, DeleteOnlyDeleting
    <3> QED
      BY <3>1, <1>1, <2>5, <2>6, <2>7 DEF HolderInv, HolderFitsState, SetupProgress
  <2>9. CASE w # "delete"
    <3>1. w \in Recoverers /\ Holds(w)
      BY <2>9, <1>0, <2>1 DEF Holds
    <3>2. state # "LIVE" /\ state # "NEW"
      <4>1. state = "NEW" => w = "create"
        <5>1. state = "NEW" => Holds("create") /\ "create" \in Recoverers
          BY DEF HolderInv, HolderFitsState, Holds, Tail, Recoverers, Contexts, Works
        <5> QED
          BY <5>1, <3>1 DEF HolderInv, OneHolder
      <4> QED
        BY <4>1, <3>1 DEF HolderInv, HolderFitsState, Works
    <3>3. state \in {"RESETTING", "CONNECTING"} =>
            Entry(w) \in IF state = "RESETTING" THEN TeardownSteps ELSE SetupSteps
      BY <3>1, <2>1, <2>2 DEF HolderInv, HolderFitsState, SetupSteps, TeardownSteps
    <3>4. HolderFitsState'
      <4>1. CASE state = "RESETTING"
        BY <4>1, <3>1, <3>3, <2>3, <2>4, <1>1 DEF HolderInv, HolderFitsState, Recoverers
      <4>2. CASE state = "CONNECTING"
        BY <4>2, <3>1, <3>3, <2>1, <2>3, <2>4, <1>1 DEF HolderInv, HolderFitsState, Recoverers
      <4>3. CASE state = "DELETING"
        BY <4>3, <1>1 DEF HolderFitsState
      <4> QED
        BY <4>1, <4>2, <4>3, <3>2 DEF HolderInv, HolderFitsState
    <3>5. SetupProgress'
      BY <2>2, <2>3, <1>1, <3>1, <3>2 DEF HolderInv, SetupProgress, Recoverers, Entry, Works
    <3> QED
      BY <2>5, <2>6, <2>7, <3>4, <3>5 DEF HolderInv
  <2> QED
    BY <2>8, <2>9
<1> QED
  BY <1>2, <1>3

\* A step that touches neither the state, the queues, the works nor the
\* program counters preserves the invariant.
LEMMA QuietHolds ==
  ASSUME HolderInv, UNCHANGED <<state, queue, raised, queued, pc>>,
         state = "NEW" => ka' = ka
  PROVE  HolderInv'
<1>1. HolderFitsState'
  <2>1. \A c \in Recoverers : Holds(c)' <=> Holds(c)
    BY DEF Holds
  <2> QED
    BY <2>1 DEF HolderInv, HolderFitsState
<1>2. HolderType' /\ OneHolder' /\ DeleteOnlyDeleting' /\ SetupProgress'
  BY DEF HolderInv, HolderType, OneHolder, Holds, DeleteOnlyDeleting, SetupProgress
<1> QED
  BY <1>1, <1>2 DEF HolderInv

\* The invariant is inductive.
LEMMA HolderNext == HolderInv /\ [Next]_vars => HolderInv'
<1> SUFFICES ASSUME HolderInv, [Next]_vars PROVE HolderInv'
  OBVIOUS
<1>k. state = "NEW" => ka = {} /\ pc["create"] # "idle" /\ \A i \in Queues : queue[i] = "free"
  BY DEF HolderInv, HolderFitsState
<1>1. ASSUME NEW c \in Contexts, Step(c) PROVE HolderInv'
  BY <1>1, SetupStepHolds, TeardownStepHolds DEF Step
<1>2. ASSUME NEW w \in Works, QueueWork(w) \/ Begin(w) PROVE HolderInv'
  BY <1>2, WorkHolds
<1>3. ASSUME NEW r \in Reqs,
             \/ Submit(r) \/ Ready(r) \/ FailNonready(r) \/ FailNoRetry(r)
             \/ QueueRequest(r) \/ Complete(r) \/ TimeoutEnds(r)
      PROVE  HolderInv'
  <2>1. OnlyRq
    BY <1>3 DEF Submit, Ready, FailNonready, FailNoRetry, QueueRequest, Complete, TimeoutEnds
  <2> QED
    BY <2>1, QuietHolds DEF OnlyRq
<1>4. ASSUME NEW r \in Reqs, TimeoutRecovers(r) PROVE HolderInv'
  BY <1>4, RaiseHolds DEF TimeoutRecovers
<1>5. CASE KeepAliveWork \/ KeepAliveEndIo
  BY <1>5, <1>k, QuietHolds DEF KeepAliveWork, KeepAliveEndIo, OnlyKa
<1>6. CASE KeepAliveFails
  BY <1>6, <1>k, RaiseHolds DEF KeepAliveFails
<1>7. CASE KeepAliveTimeout
  BY <1>7, RaiseHolds DEF KeepAliveTimeout
<1>8. ASSUME NEW i \in Queues, SocketError(i) PROVE HolderInv'
  BY <1>8, <1>k, RaiseHolds DEF SocketError
<1>9. CASE ScanWork
  BY <1>9, QuietHolds DEF ScanWork
<1>10. CASE SysfsReset
  BY <1>10, <1>k, RaiseHolds DEF SysfsReset, At
<1>11. CASE SysfsDelete
  BY <1>11, RaiseHolds DEF SysfsDelete
<1>12. CASE UNCHANGED vars
  BY <1>12, QuietHolds DEF vars
<1> QED
  BY <1>1, <1>2, <1>3, <1>4, <1>5, <1>6, <1>7, <1>8, <1>9, <1>10, <1>11, <1>12 DEF Next

\* The holder argument is invariant.
LEMMA HolderInvariant == Spec => []HolderInv
BY HolderInit, HolderNext, PTL DEF Spec

\* The WARN_ON_ONCE assertions of i10_host_setup_ctrl, the recovery, reset and
\* create paths and i10_host_reconnect_or_remove never fire.
THEOREM WarningsNeverFire == Spec => []WarningsSilent
<1>1. HolderInv => WarningsSilent
  <2> SUFFICES ASSUME HolderInv, NEW c \in Contexts
               PROVE  /\ At(c, "go_live") => CanEnter("LIVE") \/ state = "DELETING"
                      /\ At(c, "go_connecting") => CanEnter("CONNECTING") \/ state = "DELETING"
                      /\ At(c, "decide") => state \notin {"NEW", "LIVE"}
    BY DEF WarningsSilent
  <2>1. CASE state = "DELETING"
    BY <2>1
  <2>2. CASE state # "DELETING" /\ pc[c] \in {"go_live", "go_connecting", "decide"}
    <3>1. c \in Recoverers /\ Holds(c)
      BY <2>2 DEF HolderInv, DeleteOnlyDeleting, Recoverers, Holds, Tail
    <3>2. state = "NEW" => pc[c] = "go_connecting"
      BY <3>1, <2>2 DEF HolderInv, HolderFitsState, Recoverers, Contexts
    <3>3. state # "LIVE"
      BY <3>1 DEF HolderInv, HolderFitsState
    <3>4. state = "RESETTING" => pc[c] = "go_connecting"
      BY <3>1, <2>2 DEF HolderInv, HolderFitsState, Tail, TeardownSteps
    <3>5. state = "CONNECTING" => pc[c] # "go_connecting"
      BY <3>1, <2>2 DEF HolderInv, HolderFitsState, Tail, SetupSteps
    <3>6. state \in {"NEW", "RESETTING", "CONNECTING"}
      BY <2>2, <3>3 DEF HolderInv, HolderFitsState
    <3> QED
      BY <3>2, <3>4, <3>5, <3>6 DEF At, CanEnter, EntryStates
  <2> QED
    BY <2>1, <2>2 DEF At
<1> QED
  BY <1>1, HolderInvariant, PTL

\* A controller whose state is LIVE has its admin queue and every I/O queue
\* connected.
THEOREM LiveIsConnected == Spec => []LiveMeansConnected
<1>1. HolderInv => LiveMeansConnected
  BY DEF HolderInv, SetupProgress, LiveMeansConnected
<1> QED
  BY <1>1, HolderInvariant, PTL

\* The create task, error recovery, reset and reconnect never work on the
\* queues at the same time.
THEOREM RecoveryIsSerialized == Spec => []RecoverySerialized
<1>1. HolderInv => RecoverySerialized
  <2>1. \A c \in Contexts : TouchesQueues(c) => Holds(c)
    BY DEF TouchesQueues, Holds, Tail
  <2> QED
    BY <2>1 DEF HolderInv, OneHolder, RecoverySerialized, Recoverers
<1> QED
  BY <1>1, HolderInvariant, PTL

-----------------------------------------------------------------------------
\* Requests and teardown.

LEMMA RequestInit == Init => RequestInv
BY QueueSets DEF Init, RequestInv, RequestsFitTeardown, InflightHasQueues, NoneChecked,
   NoneHeld, Contexts, Works, IoQueues, Queues

\* While a context is past the point where it ended the requests, or on its
\* way there, the controller is not LIVE.
LEMMA LiveIsQuiet ==
  ASSUME HolderInv, state \in {"LIVE", "ADMIN_ONLY"}
  PROVE  /\ state = "LIVE"
         /\ \A c \in Contexts : pc[c] \notin Cleared \cup {"io_stop", "io_free"}
         /\ "connect" \notin queued
         /\ \A i \in IoQueues : queue[i] = "live"
<1>1. state = "LIVE"
  BY DEF HolderInv, HolderFitsState
<1>2. \A c \in Recoverers : ~Holds(c)
  BY <1>1 DEF HolderInv, HolderFitsState
<1>3. pc["delete"] = "idle"
  BY <1>1 DEF HolderInv, DeleteOnlyDeleting
<1>4. \A c \in Contexts : pc[c] \in Tail
  BY <1>2, <1>3 DEF Holds, Recoverers, Tail
<1>5. "connect" \notin queued
  BY <1>2 DEF Holds, Recoverers, Contexts, Works
<1>6. \A i \in IoQueues : queue[i] = "live"
  BY <1>1, QueueSets DEF HolderInv, SetupProgress
<1> QED
  BY <1>1, <1>4, <1>5, <1>6 DEF Tail, Cleared, SetupSteps

\* A context moves and no request changes: the invariant survives when the
\* step it goes to is justified and the queues stay or nothing is held.
LEMMA MoveKeepsRequests ==
  ASSUME HolderInv, RequestInv, NEW c \in Contexts, NEW s, Goto(c, s),
         UNCHANGED rq,
         s \in {"io_stop", "io_free"} => NoneChecked,
         s \in Cleared => NoneHeld,
         "connect" \in queued' => "connect" \in queued \/ NoneHeld,
         "connect" \in raised' => "connect" \in raised,
         \/ NoneHeld
         \/ \A i \in IoQueues : queue[i] # "free" => queue'[i] # "free"
  PROVE  RequestInv'
<1>0. pc \in [Contexts -> Places]
  BY DEF HolderInv, HolderType, Places
<1>1. \A d \in Contexts : pc'[d] = IF d = c THEN s ELSE pc[d]
  BY <1>0 DEF Goto
<1>2. /\ NoneHeld <=> NoneHeld'
      /\ NoneChecked <=> NoneChecked'
  BY DEF NoneHeld, NoneChecked
<1>3. RequestsFitTeardown'
  BY <1>1, <1>2 DEF RequestInv, RequestsFitTeardown
<1>4. InflightHasQueues'
  BY <1>2 DEF RequestInv, InflightHasQueues, NoneHeld
<1> QED
  BY <1>3, <1>4 DEF RequestInv

LEMMA SetupKeepsRequests ==
  ASSUME HolderInv, RequestInv, NEW c \in Contexts, SetupStep(c)
  PROVE  RequestInv'
<1>0. UNCHANGED <<raised, queued, rq>>
  BY DEF SetupStep, AllocAdminQueue, StartAdminQueue, InitAdminQueue, CheckIcdoff,
     AllocIoQueues, StartIoQueues, GoLive, StartKeepAlive, StartQueues
<1>1. CASE StartKeepAlive(c) \/ StartQueues(c)
  <2>1. UNCHANGED queue /\ (Goto(c, "start_queues") \/ Goto(c, "idle"))
    BY <1>1 DEF StartKeepAlive, StartQueues
  <2> QED
    BY <2>1, <1>0, MoveKeepsRequests DEF Cleared, SetupSteps
<1>2. CASE ~(StartKeepAlive(c) \/ StartQueues(c))
  <2>1. pc[c] \in SetupSteps
    BY <1>2 DEF SetupStep, AllocAdminQueue, StartAdminQueue, InitAdminQueue, CheckIcdoff,
       AllocIoQueues, StartIoQueues, GoLive, At, SetupSteps
  <2>2. NoneHeld /\ NoneChecked
    BY <2>1 DEF RequestInv, RequestsFitTeardown, Cleared, NoneHeld, NoneChecked
  <2>3. (\E s \in Places : Goto(c, s)) \/ UNCHANGED pc
    BY <1>2 DEF SetupStep, AllocAdminQueue, StartAdminQueue, InitAdminQueue, CheckIcdoff,
       AllocIoQueues, StartIoQueues, GoLive, Passes, SetupFails, Places, Tail, SetupSteps
  <2>4. CASE \E s \in Places : Goto(c, s)
    BY <2>4, <2>2, <1>0, MoveKeepsRequests
  <2>5. CASE UNCHANGED pc
    <3>1. NoneHeld' /\ NoneChecked'
      BY <2>2, <1>0 DEF NoneHeld, NoneChecked
    <3> QED
      BY <2>5, <3>1, <1>0 DEF RequestInv, RequestsFitTeardown, InflightHasQueues, NoneHeld
  <2> QED
    BY <2>3, <2>4, <2>5
<1> QED
  BY <1>1, <1>2

LEMMA TeardownKeepsRequests ==
  ASSUME HolderInv, RequestInv, NEW c \in Contexts, TeardownStep(c)
  PROVE  RequestInv'
<1>0. \A s : pc[c] = s /\ s \in Cleared => NoneHeld
  BY DEF RequestInv, RequestsFitTeardown
<1>1. CASE StopKeepAlive(c) \/ FlushReset(c) \/ CancelErr(c) \/ CancelConnect(c)
           \/ NsDying(c) \/ NsDrain(c)
  <2>1. /\ UNCHANGED <<queue, raised, rq>> /\ queued' \subseteq queued
        /\ \E s \in {"quiesce", "cancel_err", "stop_ka", "cancel_connect", "ns_dying",
                     "ns_drain"} : Goto(c, s)
    BY <1>1 DEF StopKeepAlive, FlushReset, CancelErr, CancelConnect, NsDying, NsDrain
  <2> QED
    BY <2>1, MoveKeepsRequests DEF Cleared, SetupSteps
<1>2. CASE Quiesce(c)
  <2>1. UNCHANGED <<queue, raised, queued, rq>> /\ NoneChecked /\ Goto(c, "io_stop")
    BY <1>2 DEF Quiesce, NoneChecked
  <2> QED
    BY <2>1, MoveKeepsRequests DEF Cleared, SetupSteps
<1>3. CASE StopIoQueues(c)
  <2>1. UNCHANGED <<raised, queued, rq>> /\ Goto(c, "io_free") /\ pc[c] = "io_stop"
    BY <1>3 DEF StopIoQueues, At
  <2>2. NoneChecked
    BY <2>1 DEF RequestInv, RequestsFitTeardown
  <2>3. \A i \in IoQueues : queue[i] # "free" => queue'[i] # "free"
    BY <1>3, QueueSets DEF StopIoQueues
  <2> QED
    BY <2>1, <2>2, <2>3, MoveKeepsRequests DEF Cleared, SetupSteps
<1>4. CASE FreeIoQueues(c)
  <2>1. NoneChecked
    BY <1>4 DEF FreeIoQueues, At, RequestInv, RequestsFitTeardown
  <2>2. NoneHeld' /\ NoneChecked'
    BY <1>4, <2>1 DEF FreeIoQueues, NoneHeld, NoneChecked, Ended, RequestInv, RequestsFitTeardown
  <2>3. UNCHANGED <<raised, queued>> /\ rq' \in [Reqs -> {"idle", "waiting", "checked", "inflight"}]
    BY <1>4 DEF FreeIoQueues
  <2> QED
    BY <2>2, <2>3 DEF RequestInv, RequestsFitTeardown, InflightHasQueues, NoneHeld
<1>5. CASE Unquiesce(c) \/ DisableCtrl(c) \/ TeardownAdminQueue(c) \/ GoConnecting(c)
           \/ PutCtrl(c)
  <2>1. UNCHANGED <<raised, queued, rq>> /\ pc[c] \in Cleared /\ \E s \in Places : Goto(c, s)
    BY <1>5 DEF Unquiesce, DisableCtrl, TeardownAdminQueue, GoConnecting, PutCtrl, At, Cleared,
       Places, Tail, SetupSteps, TeardownSteps
  <2>2. NoneHeld /\ NoneChecked
    BY <2>1, <1>0 DEF NoneHeld, NoneChecked
  <2> QED
    BY <2>1, <2>2, MoveKeepsRequests
<1>6. CASE ReconnectOrRemove(c)
  <2>1. UNCHANGED rq /\ pc[c] \in Cleared /\ Goto(c, "idle")
    BY <1>6 DEF ReconnectOrRemove, At, Cleared, SetupSteps
  <2>2. "connect" \in raised' => "connect" \in raised
    BY <1>6 DEF ReconnectOrRemove, Raise
  <2>3. NoneHeld /\ NoneChecked
    BY <2>1, <1>0 DEF NoneHeld, NoneChecked
  <2> QED
    BY <2>1, <2>2, <2>3, MoveKeepsRequests
<1> QED
  BY <1>1, <1>2, <1>3, <1>4, <1>5, <1>6 DEF TeardownStep

\* A step that leaves the program counters, the queues and the requests alone
\* and calls for no reconnect.
LEMMA QuietKeepsRequests ==
  ASSUME RequestInv, UNCHANGED <<queue, queued, pc, rq>>,
         "connect" \in raised' => "connect" \in raised
  PROVE  RequestInv'
BY DEF RequestInv, RequestsFitTeardown, InflightHasQueues, NoneHeld, NoneChecked

\* A request that takes a step passes the readiness test, reaches the
\* transport after it, or is given back.
LEMMA RequestKeepsRequests ==
  ASSUME HolderInv, RequestInv, NEW r \in Reqs,
         \/ Submit(r) \/ Ready(r) \/ FailNonready(r) \/ FailNoRetry(r)
         \/ QueueRequest(r) \/ Complete(r) \/ TimeoutEnds(r)
  PROVE  RequestInv'
<1>0. OnlyRq /\ rq \in [Reqs -> {"idle", "waiting", "checked", "inflight"}]
  BY DEF Submit, Ready, FailNonready, FailNoRetry, QueueRequest, Complete, TimeoutEnds,
     RequestInv, RequestsFitTeardown
<1>1. PICK s \in {"idle", "waiting", "checked", "inflight"} : SetRq(r, s)
  BY DEF Submit, Ready, FailNonready, FailNoRetry, QueueRequest, Complete, TimeoutEnds
<1>2. \A q \in Reqs : rq'[q] = IF q = r THEN s ELSE rq[q]
  BY <1>0, <1>1 DEF SetRq
<1>3. rq' \in [Reqs -> {"idle", "waiting", "checked", "inflight"}]
  BY <1>0, <1>1 DEF SetRq
<1>4. CASE s \in {"idle", "waiting"}
  <2>1. (NoneHeld => NoneHeld') /\ (NoneChecked => NoneChecked')
    BY <1>2, <1>4 DEF NoneHeld, NoneChecked
  <2>2. RequestsFitTeardown'
    BY <2>1, <1>0, <1>3 DEF RequestInv, RequestsFitTeardown, OnlyRq
  <2>3. InflightHasQueues'
    BY <1>0, <1>2, <1>4 DEF RequestInv, InflightHasQueues, OnlyRq
  <2> QED
    BY <2>2, <2>3 DEF RequestInv
<1>5. CASE s = "inflight"
  <2>1. rq[r] = "checked"
    BY <1>0, <1>2, <1>5 DEF Submit, Ready, FailNonready, FailNoRetry, QueueRequest, Complete,
       TimeoutEnds, SetRq
  <2>2. ~NoneHeld /\ (NoneChecked => NoneChecked')
    BY <2>1, <1>2 DEF NoneHeld, NoneChecked
  <2>3. RequestsFitTeardown'
    BY <2>2, <1>0, <1>3 DEF RequestInv, RequestsFitTeardown, OnlyRq
  <2>4. InflightHasQueues'
    BY <2>1, <1>0, <1>2, <1>5 DEF RequestInv, InflightHasQueues, OnlyRq
  <2> QED
    BY <2>3, <2>4 DEF RequestInv
<1>6. CASE s = "checked"
  <2>1. state \in {"LIVE", "ADMIN_ONLY"}
    BY <1>0, <1>2, <1>6 DEF Submit, Ready, FailNonready, FailNoRetry, QueueRequest, Complete,
       TimeoutEnds, SetRq
  <2>2. /\ \A c \in Contexts : pc[c] \notin Cleared \cup {"io_stop", "io_free"}
        /\ "connect" \notin queued
        /\ \A i \in IoQueues : queue[i] = "live"
    BY <2>1, LiveIsQuiet
  <2>3. RequestsFitTeardown'
    BY <2>2, <1>0, <1>3 DEF RequestInv, RequestsFitTeardown, OnlyRq
  <2>4. InflightHasQueues'
    BY <2>2, <1>0 DEF InflightHasQueues, OnlyRq
  <2> QED
    BY <2>3, <2>4 DEF RequestInv
<1> QED
  BY <1>4, <1>5, <1>6

LEMMA WorkKeepsRequests ==
  ASSUME HolderInv, RequestInv, NEW w \in Works, QueueWork(w) \/ Begin(w)
  PROVE  RequestInv'
<1>0. w \in Contexts
  BY DEF Works, Contexts
<1>1. CASE QueueWork(w)
  <2>1. w # "connect" /\ UNCHANGED <<queue, pc, rq>> /\ raised' = raised \ {w}
        /\ queued' = queued \cup {w}
    BY <1>1 DEF QueueWork, RequestInv, RequestsFitTeardown
  <2> QED
    BY <2>1 DEF RequestInv, RequestsFitTeardown, InflightHasQueues, NoneHeld, NoneChecked
<1>2. CASE Begin(w)
  <2>1. /\ UNCHANGED <<queue, raised, rq>> /\ queued' = queued \ {w} /\ w \in queued
        /\ Goto(w, Entry(w))
    BY <1>2 DEF Begin
  <2>2. Entry(w) \notin {"io_stop", "io_free"} /\ (Entry(w) \in Cleared => w = "connect")
    BY DEF Entry, Works, Cleared, SetupSteps
  <2>3. Entry(w) \in Cleared => NoneHeld
    BY <2>1, <2>2 DEF RequestInv, RequestsFitTeardown
  <2> QED
    BY <1>0, <2>1, <2>2, <2>3, MoveKeepsRequests
<1> QED
  BY <1>1, <1>2

LEMMA RequestNext == HolderInv /\ RequestInv /\ [Next]_vars => RequestInv'
<1> SUFFICES ASSUME HolderInv, RequestInv, [Next]_vars PROVE RequestInv'
  OBVIOUS
<1>1. ASSUME NEW c \in Contexts, Step(c) PROVE RequestInv'
  BY <1>1, SetupKeepsRequests, TeardownKeepsRequests DEF Step
<1>2. ASSUME NEW w \in Works, QueueWork(w) \/ Begin(w) PROVE RequestInv'
  BY <1>2, WorkKeepsRequests
<1>3. ASSUME NEW r \in Reqs,
             \/ Submit(r) \/ Ready(r) \/ FailNonready(r) \/ FailNoRetry(r)
             \/ QueueRequest(r) \/ Complete(r) \/ TimeoutEnds(r)
      PROVE  RequestInv'
  BY <1>3, RequestKeepsRequests
<1>4. ASSUME NEW r \in Reqs, TimeoutRecovers(r) PROVE RequestInv'
  BY <1>4, QuietKeepsRequests DEF TimeoutRecovers, Raise
<1>5. CASE KeepAliveWork \/ KeepAliveEndIo
  BY <1>5, QuietKeepsRequests DEF KeepAliveWork, KeepAliveEndIo, OnlyKa
<1>6. CASE KeepAliveFails \/ KeepAliveTimeout
  BY <1>6, QuietKeepsRequests DEF KeepAliveFails, KeepAliveTimeout, Raise
<1>7. ASSUME NEW i \in Queues, SocketError(i) PROVE RequestInv'
  BY <1>7, QuietKeepsRequests DEF SocketError, Raise
<1>8. CASE ScanWork
  BY <1>8, QuietKeepsRequests DEF ScanWork
<1>9. CASE SysfsReset \/ SysfsDelete
  BY <1>9, QuietKeepsRequests DEF SysfsReset, SysfsDelete, Raise
<1>10. CASE UNCHANGED vars
  BY <1>10, QuietKeepsRequests DEF vars
<1> QED
  BY <1>1, <1>2, <1>3, <1>4, <1>5, <1>6, <1>7, <1>8, <1>9, <1>10 DEF Next

\* No request is past the readiness test of i10_host_queue_rq or with the
\* transport while an I/O queue is free, however recovery and removal
\* interleave with dispatch.
THEOREM HeldRequestsHaveQueues == Spec => []InflightHasQueues
<1>1. RequestInv => InflightHasQueues
  BY DEF RequestInv
<1> QED
  BY <1>1, RequestInit, RequestNext, HolderInvariant, PTL DEF Spec

=============================================================================
