--------------------------- MODULE I10TargetQueue ---------------------------
(***************************************************************************)
(* One queue of the i10 (PINoF) target, PINoF/target/PINoF.c, while it is  *)
(* live: io_work alternates between receiving up to RecvBudget PDUs and    *)
(* sending up to SendBudget commands; commands are executed by a backend   *)
(* that completes them from its own context through the lock-free          *)
(* resp_list.  C2H data and the responses of reads are packed into caravan *)
(* 1, R2Ts and the responses of writes into caravan 2, and both caravans   *)
(* are written to the same socket.                                         *)
(*                                                                         *)
(* The host is external: it keeps at most one command per tag outstanding, *)
(* sends whole PDUs whose chunks arrive one by one, and sends the data of  *)
(* a write after the R2T when it is not in the command capsule.            *)
(*                                                                         *)
(* PDUs are sequences of chunks, as in I10HostQueue; here a chunk also     *)
(* names the command slot (ttag) it belongs to.                            *)
(***************************************************************************)
EXTENDS Integers, Sequences, FiniteSets, SequencesExt

CONSTANTS
  Tags,         \* command identifiers the host may use at the same time
  Cmds,         \* command slots of the queue, cmds[0 .. nr_cmds - 1]
  Kinds,        \* commands the host sends: [write, pages]
  FailKinds,    \* kinds nvmet_req_init may reject
  NULL,
  RecvBudget,   \* I10_TARGET_RECV_BUDGET
  SendBudget,   \* I10_TARGET_SEND_BUDGET
  Capacity,     \* I10_CARAVAN_CAPACITY, I10_CARAVAN2_CAPACITY
  HdrLen, PageLen,
  InlinePages,  \* inline_data_size of the port, in pages
  SndBuf,       \* bytes of the socket's send buffer
  DataDigest,   \* digest negotiated in the icreq
  IsAdmin,      \* i10_target_is_admin_queue
  Faults        \* may the connection break and received PDUs be bad?

Doors == {1, 2}

KindType == [write : BOOLEAN, pages : Nat]

ASSUME TargetAssumption ==
  /\ Kinds \subseteq KindType
  /\ FailKinds \subseteq Kinds
  /\ NULL \notin Tags \cup Cmds
  /\ IsFiniteSet(Tags) /\ IsFiniteSet(Cmds)
  /\ RecvBudget \in Nat \ {0}
  /\ SendBudget \in Nat \ {0}
  /\ Capacity \in [Doors -> Nat \ {0}]
  /\ HdrLen \in Nat \ {0} /\ PageLen \in Nat \ {0}
  /\ InlinePages \in Nat /\ SndBuf \in Nat
  /\ DataDigest \in BOOLEAN /\ IsAdmin \in BOOLEAN /\ Faults \in BOOLEAN

VARIABLES
  (* struct i10_target_cmd, by slot *)
  cmd,          \* [tag, write, pages]: what req.cmd says
  rbytes_left,  \* transfer_len - rbytes_done, in pages
  wbytes_left,  \* pages of the read data from cur_sg on
  status,       \* rsp->status is an error
  init_failed,  \* I10_TARGET_F_INIT_FAILED
  cstate,       \* send state
  (* struct i10_target_queue *)
  free_list,
  resp_list,    \* llist: the newest completion first
  resp_send_list,
  snd_cmd,
  iovs, caravan_cmds, nr_mapped, caravan_len, send_now,
  rcv_state,    \* "pdu", "data", "ddgst" or "err"
  rcv_cmd,      \* queue->cmd
  rcv_left,     \* msg_data_left of the command's recv_msg, in pages
  (* io_work and the backend *)
  work, pc, i, ret, pending,
  exec,         \* slots that the backend executes
  (* the socket and, external, the host *)
  rx, tx, nospace,
  conn,         \* "up", "fatal" (nvmet_ctrl_fatal_error has been called) or
                \* "down" (state_change has set Q_DISCONNECTING)
  host,         \* [Tags -> {"free", "sent"}]
  hkind,        \* [Tags -> Kinds]
  hpdu,         \* last chunk the host has sent
  r2ts,         \* <<tag, slot>>: R2Ts the host has not served yet
  hread         \* last chunk the host has read

cmdVars     == <<cmd, rbytes_left, wbytes_left, status, init_failed>>
listVars    == <<free_list, resp_list, resp_send_list>>
caravanVars == <<iovs, caravan_cmds, nr_mapped, caravan_len, send_now>>
rcvVars     == <<rcv_state, rcv_cmd, rcv_left>>
loopVars    == <<pc, i, ret, pending>>
sockVars    == <<rx, tx, nospace, conn>>
hostVars    == <<host, hkind, hpdu, r2ts, hread>>
vars == <<cmd, rbytes_left, wbytes_left, status, init_failed, cstate,
          free_list, resp_list, resp_send_list, snd_cmd, iovs, caravan_cmds,
          nr_mapped, caravan_len, send_now, rcv_state, rcv_cmd, rcv_left,
          work, pc, i, ret, pending, exec, rx, tx, nospace, conn, host, hkind,
          hpdu, r2ts, hread>>

TxKinds == {"c2h", "rdata", "rddgst", "r2t", "rsp"}
RxKinds == {"cmd", "h2c", "data", "ddgst"}
Chunk(k, t, l, c) == [kind |-> k, tag |-> t, left |-> l, ttag |-> c]
NoChunk == Chunk("none", NULL, 0, NULL)

DdgstLen == IF DataDigest THEN 1 ELSE 0
Inline(k) == k.write /\ k.pages # 0 /\ k.pages <= InlinePages
ChunkLen(x) == IF x.kind = "rdata" THEN PageLen ELSE HdrLen
Headers(s) == Cardinality({j \in DOMAIN s : s[j].kind # "rdata"})
Queued(s) == Headers(s) * HdrLen + (Len(s) - Headers(s)) * PageLen
Wspace == SndBuf - Queued(tx)

\* i10_target_need_data_in, i10_target_need_data_out
NeedDataIn(c) == cmd[c].write /\ rbytes_left[c] # 0 /\ ~status[c]
NeedDataOut(c) == ~cmd[c].write /\ cmd[c].pages # 0 /\ ~status[c]

IsCaravanFullIgnoringPages(d) ==                 \* mutant: a test is missing
  \/ caravan_len[d] >= Capacity[d]
  \/ Len(iovs[d]) >= 3 * SendBudget
  \/ Len(caravan_cmds[d]) >= SendBudget

\* i10_target_is_caravan_full, i10_target_is_caravan2_full
IsCaravanFull(d) ==
  \/ caravan_len[d] >= Capacity[d]
  \/ Len(iovs[d]) >= 3 * SendBudget
  \/ Len(caravan_cmds[d]) >= SendBudget
  \/ nr_mapped[d] >= SendBudget

FlushPc == <<"flush1", "flush2">>

NoCmd == [tag |-> NULL, write |-> FALSE, pages |-> 0]
NoKind == [write |-> FALSE, pages |-> 0]

-----------------------------------------------------------------------------
(***************************************************************************)
(* i10_target_io_work, the receive half: i10_target_try_recv calls         *)
(* i10_target_try_recv_one until nothing is left to read (ret = 0), the    *)
(* budget is used up (pending) or an error makes io_work return.           *)
(***************************************************************************)

IoStart ==
  /\ pc = "idle"
  /\ work
  /\ work' = FALSE
  /\ pc' = "recv"
  /\ pending' = FALSE
  /\ UNCHANGED <<cmdVars, cstate, listVars, snd_cmd, caravanVars, rcvVars, i,
                 ret, exec, sockVars, hostVars>>

\* try_recv_one returned 1
RecvOk ==
  IF i + 1 = RecvBudget
  THEN pc' = "fetch" /\ i' = 0 /\ pending' = TRUE
  ELSE pc' = "recv" /\ i' = i + 1 /\ UNCHANGED pending

\* try_recv_one returned 0
RecvStop == pc' = "fetch" /\ i' = 0 /\ UNCHANGED pending

\* i10_target_fatal_error, and io_work returns
FatalError ==
  /\ rcv_state' = "err"
  /\ conn' = IF conn = "up" THEN "fatal" ELSE conn
  /\ pc' = "idle"
  /\ i' = 0

PrepareReceivePduKeepingCmd ==                   \* mutant: queue->cmd stays
  rcv_state' = "pdu" /\ rcv_left' = 0 /\ UNCHANGED rcv_cmd

\* i10_target_prepare_receive_pdu
PrepareReceivePdu == rcv_state' = "pdu" /\ rcv_cmd' = NULL /\ rcv_left' = 0

\* The data of command c, of n pages, is received next.
ReceiveData(c, n) == rcv_state' = "data" /\ rcv_cmd' = c /\ rcv_left' = n

\* i10_target_queue_response
QueueResponse(c) ==
  /\ resp_list' = <<c>> \o resp_list
  /\ work' = TRUE

\* i10_target_get_cmd and nvmet_req_init set up slot c for command k of tag t;
\* n pages are mapped by i10_target_map_data.
SetupCmd(c, t, k, n, failed) ==
  /\ cmd' = [cmd EXCEPT ![c] = [tag |-> t, write |-> k.write,
                                pages |-> k.pages]]
  /\ rbytes_left' = [rbytes_left EXCEPT ![c] = n]
  /\ wbytes_left' = [wbytes_left EXCEPT ![c] = n]
  /\ status' = [status EXCEPT ![c] = failed]
  /\ free_list' = Tail(free_list)

\* The header of a command capsule is at the head of the socket.  The fatal
\* error for an empty free list "should never happen", and never does: see
\* NeverOutOfCommands.
CmdHeader ==
  /\ pc = "recv"
  /\ rcv_state = "pdu"
  /\ rx # <<>>
  /\ Head(rx).kind = "cmd"
  /\ free_list # <<>>
  /\ rx' = Tail(rx)

DispatchWithoutR2t(c, k) ==                      \* mutant: no R2T
  \/ /\ Inline(k)
     /\ ReceiveData(c, k.pages)
     /\ UNCHANGED <<resp_list, work, exec, pc, i, pending>>
  \/ /\ ~Inline(k)
     /\ exec' = exec \cup {c}
     /\ PrepareReceivePdu
     /\ RecvOk
     /\ UNCHANGED <<resp_list, work>>

\* What follows the header: inline data, an R2T, or nothing at all.
Dispatch(c, k) ==
  \/ /\ Inline(k)
     /\ ReceiveData(c, k.pages)
     /\ UNCHANGED <<resp_list, work, exec, pc, i, pending>>
  \/ /\ k.write /\ k.pages > InlinePages
     /\ QueueResponse(c)                         \* send back R2T
     /\ PrepareReceivePdu
     /\ RecvOk
     /\ UNCHANGED exec
  \/ /\ ~k.write \/ k.pages = 0
     /\ exec' = exec \cup {c}                    \* nvmet_req_execute
     /\ PrepareReceivePdu
     /\ RecvOk
     /\ UNCHANGED <<resp_list, work>>

\* i10_target_done_recv_pdu, nvmet_req_init succeeds
RecvCmd ==
  /\ CmdHeader
  /\ LET t == Head(rx).tag
         k == hkind[t]
         c == Head(free_list)
     IN  /\ SetupCmd(c, t, k, k.pages, FALSE)
         /\ init_failed' = [init_failed EXCEPT ![c] = FALSE]
         /\ Dispatch(c, k)
  /\ UNCHANGED <<cstate, resp_send_list, snd_cmd, caravanVars, ret, tx,
                 nospace, conn, hostVars>>

\* nvmet_req_init rejects the command and queues its response, then
\* i10_target_handle_req_failure receives the inline data, if there may be
\* any, only to drop it.
RecvCmdInitFails ==
  /\ CmdHeader
  /\ LET t == Head(rx).tag
         k == hkind[t]
         c == Head(free_list)
         drop == k.write /\ k.pages <= InlinePages
     IN  /\ k \in FailKinds
         /\ SetupCmd(c, t, k, IF drop THEN k.pages ELSE 0, TRUE)
         /\ init_failed' = [init_failed EXCEPT ![c] = drop]
         /\ QueueResponse(c)
         /\ IF drop THEN ReceiveData(c, k.pages) ELSE PrepareReceivePdu
         /\ RecvStop
  /\ UNCHANGED <<cstate, resp_send_list, snd_cmd, caravanVars, ret, exec, tx,
                 nospace, conn, hostVars>>

\* i10_target_map_data has no memory: fatal when data follows the header,
\* otherwise the command is completed with an error.
RecvCmdMapFails ==
  /\ Faults
  /\ CmdHeader
  /\ LET t == Head(rx).tag
         k == hkind[t]
         c == Head(free_list)
     IN  /\ k.pages # 0
         /\ SetupCmd(c, t, k, k.pages, ~Inline(k))
         /\ init_failed' = [init_failed EXCEPT ![c] = FALSE]
         /\ \/ /\ Inline(k)
               /\ conn' = IF conn = "up" THEN "fatal" ELSE conn
               /\ UNCHANGED <<resp_list, work>>
            \/ /\ ~Inline(k)
               /\ QueueResponse(c)
               /\ UNCHANGED conn
         /\ PrepareReceivePdu
         /\ RecvStop
  /\ UNCHANGED <<cstate, resp_send_list, snd_cmd, caravanVars, ret, exec, tx,
                 nospace, hostVars>>

\* i10_target_handle_h2c_data_pdu: the ttag indexes queue->cmds.
RecvH2cData ==
  /\ pc = "recv"
  /\ rcv_state = "pdu"
  /\ rx # <<>>
  /\ Head(rx).kind = "h2c"
  /\ rx' = Tail(rx)
  /\ ReceiveData(Head(rx).ttag, Head(rx).left - DdgstLen)
  /\ UNCHANGED <<cmdVars, cstate, listVars, snd_cmd, caravanVars, loopVars,
                 work, exec, tx, nospace, conn, hostVars>>

\* What is taken for a header is none, or its header digest is wrong.
RecvBadPdu ==
  /\ pc = "recv"
  /\ rcv_state = "pdu"
  /\ rx # <<>>
  /\ Faults \/ Head(rx).kind \notin {"cmd", "h2c"}
  /\ rx' = Tail(rx)
  /\ FatalError
  /\ UNCHANGED <<cmdVars, cstate, listVars, snd_cmd, caravanVars, rcv_cmd,
                 rcv_left, work, ret, pending, exec, tx, nospace, hostVars>>

\* i10_target_try_recv_data, one page of it
RecvData ==
  /\ pc = "recv"
  /\ rcv_state = "data"
  /\ rcv_left # 0
  /\ rx # <<>>
  /\ rx' = Tail(rx)
  /\ rcv_left' = rcv_left - 1
  /\ rbytes_left' = [rbytes_left EXCEPT ![rcv_cmd] = @ - 1]
  /\ UNCHANGED <<cmd, wbytes_left, status, init_failed, cstate, listVars,
                 snd_cmd, caravanVars, rcv_state, rcv_cmd, loopVars, work,
                 exec, tx, nospace, conn, hostVars>>

\* ... and its end: the digest follows, or the command is executed.
RecvDataDone ==
  /\ pc = "recv"
  /\ rcv_state = "data"
  /\ rcv_left = 0
  /\ LET complete == ~init_failed[rcv_cmd] /\ rbytes_left[rcv_cmd] = 0
     IN  \/ /\ complete /\ DataDigest
            /\ rcv_state' = "ddgst"
            /\ UNCHANGED <<rcv_cmd, rcv_left, pc, i, pending, exec>>
         \/ /\ ~(complete /\ DataDigest)
            /\ exec' = IF complete THEN exec \cup {rcv_cmd} ELSE exec
            /\ PrepareReceivePdu
            /\ RecvOk
  /\ UNCHANGED <<cmdVars, cstate, listVars, snd_cmd, caravanVars, ret, work,
                 sockVars, hostVars>>

\* i10_target_try_recv_ddgst.  A wrong digest finishes the command without a
\* response; fatal_error is called a second time by io_work, after
\* prepare_receive_pdu, and is what remains.
RecvDdgst ==
  /\ pc = "recv"
  /\ rcv_state = "ddgst"
  /\ rx # <<>>
  /\ rx' = Tail(rx)
  /\ \/ /\ exec' = exec \cup {rcv_cmd}
        /\ PrepareReceivePdu
        /\ RecvOk
        /\ UNCHANGED conn
     \/ /\ Faults
        /\ FatalError
        /\ rcv_cmd' = NULL
        /\ rcv_left' = 0
        /\ UNCHANGED <<exec, pending>>
  /\ UNCHANGED <<cmdVars, cstate, listVars, snd_cmd, caravanVars, ret, work,
                 tx, nospace, hostVars>>

\* Nothing to read: -EAGAIN, or rcv_state is RECV_ERR.
RecvNothing ==
  /\ pc = "recv"
  /\ \/ rcv_state = "err"
     \/ /\ rx = <<>>
        /\ ~(rcv_state = "data" /\ rcv_left = 0)
  /\ RecvStop
  /\ UNCHANGED <<cmdVars, cstate, listVars, snd_cmd, caravanVars, rcvVars,
                 work, ret, exec, sockVars, hostVars>>

\* On a dead connection recvmsg returns an error, and io_work returns, or 0,
\* which i10_target_try_recv_data passes on as if it had received something.
RecvDead ==
  /\ pc = "recv"
  /\ conn = "down"
  /\ rcv_state # "err"
  /\ rx = <<>>
  /\ \/ /\ pc' = "idle"
        /\ i' = 0
        /\ UNCHANGED pending
     \/ /\ rcv_state = "data"
        /\ rcv_left # 0
        /\ RecvOk
  /\ UNCHANGED <<cmdVars, cstate, listVars, snd_cmd, caravanVars, rcvVars,
                 work, ret, exec, sockVars, hostVars>>

-----------------------------------------------------------------------------
(***************************************************************************)
(* The send half: i10_target_try_send.  Each turn i of its loop is         *)
(* i10_target_try_send_one ("fetch", "one"), then the two caravans         *)
(* ("flush1", "flush2").                                                   *)
(***************************************************************************)

SendState(c) ==
  IF NeedDataOut(c) THEN "data_pdu"
  ELSE IF NeedDataIn(c) THEN "r2t"
  ELSE "response"

KeepsCmdNever == FALSE                           \* mutant: always refetch

\* i10_target_try_send_one goes on with the command in hand.
KeepsCmd == snd_cmd # NULL /\ conn # "down"

\* i10_target_fetch_cmd, i10_target_process_resp_list: llist_del_all yields
\* the newest completion first, and list_add reverses them again.  While
\* disconnecting, the command in hand is dropped for the next one.
FetchCmd ==
  /\ pc = "fetch"
  /\ LET arrived == IF resp_send_list = <<>> THEN Reverse(resp_list) ELSE <<>>
         list == resp_send_list \o arrived
     IN  \/ /\ KeepsCmd
            /\ pc' = "one"
            /\ UNCHANGED <<resp_list, resp_send_list, snd_cmd, cstate, ret>>
         \/ /\ ~KeepsCmd
            /\ resp_list' = IF resp_send_list = <<>> THEN <<>> ELSE resp_list
            /\ IF list = <<>>
               THEN /\ snd_cmd' = NULL
                    /\ ret' = 0
                    /\ pc' = "flush1"
                    /\ UNCHANGED <<resp_send_list, cstate>>
               ELSE /\ snd_cmd' = Head(list)
                    /\ resp_send_list' = Tail(list)
                    /\ cstate' = [cstate EXCEPT ![Head(list)] =
                                    SendState(Head(list))]
                    /\ pc' = "one"
                    /\ UNCHANGED ret
  /\ UNCHANGED <<cmdVars, free_list, caravanVars, rcvVars, work, i, pending,
                 exec, sockVars, hostVars>>

\* The PDU header or page that command c sends next, ...
SndChunk(c) ==
  LET t == cmd[c].tag
  IN  CASE cstate[c] = "data_pdu" ->
             Chunk("c2h", t, cmd[c].pages + DdgstLen, c)
        [] cstate[c] = "data"     ->
             Chunk("rdata", t, wbytes_left[c] - 1 + DdgstLen, c)
        [] cstate[c] = "ddgst"    -> Chunk("rddgst", t, 0, c)
        [] cstate[c] = "r2t"      -> Chunk("r2t", t, 0, c)
        [] cstate[c] = "response" -> Chunk("rsp", t, 0, c)

\* ... the caravan it goes to, ...
CaravanOf(c) ==
  IF cstate[c] = "r2t" \/ (cstate[c] = "response" /\ cmd[c].write)
  THEN 2 ELSE 1

\* ... unless it bypasses the caravans.
Direct(c) == IsAdmin \/ cstate[c] = "ddgst"

InHand(s) == pc = "one" /\ cstate[snd_cmd] = s

Place(c) ==
  LET x == SndChunk(c)
      d == CaravanOf(c)
  IN  \/ /\ ~Direct(c)
         /\ ~IsCaravanFull(d)
         /\ iovs' = [iovs EXCEPT ![d] = Append(@, x)]
         /\ nr_mapped' = IF x.kind = "rdata"
                         THEN [nr_mapped EXCEPT ![d] = @ + 1] ELSE nr_mapped
         /\ caravan_len' = [caravan_len EXCEPT ![d] = @ + ChunkLen(x)]
         /\ UNCHANGED tx
      \/ /\ Direct(c)
         /\ conn # "down"
         /\ Wspace >= ChunkLen(x)
         /\ tx' = Append(tx, x)
         /\ UNCHANGED <<iovs, nr_mapped, caravan_len>>

\* Not placed: the caravan is full (send_now, return 1), the socket has no
\* room (-EAGAIN, so 0) or is dead.
NotPlaced ==
  /\ pc = "one"
  /\ pc' = "flush1"
  /\ LET c == snd_cmd
         d == CaravanOf(c)
     IN  \/ /\ ~Direct(c)
            /\ IsCaravanFull(d)
            /\ send_now' = [send_now EXCEPT ![d] = TRUE]
            /\ ret' = 1
            /\ UNCHANGED nospace
         \/ /\ Direct(c)
            /\ conn # "down"
            /\ Wspace < ChunkLen(SndChunk(c))
            /\ nospace' = TRUE
            /\ ret' = 0
            /\ UNCHANGED send_now
         \/ /\ Direct(c)
            /\ conn = "down"
            /\ ret' = -1
            /\ UNCHANGED <<send_now, nospace>>
  /\ UNCHANGED <<cmdVars, cstate, listVars, snd_cmd, iovs, caravan_cmds,
                 nr_mapped, caravan_len, rcvVars, work, i, pending, exec, rx,
                 tx, conn, hostVars>>

TrySendDataPdu ==
  /\ InHand("data_pdu")
  /\ Place(snd_cmd)
  /\ cstate' = [cstate EXCEPT ![snd_cmd] = "data"]
  /\ UNCHANGED <<cmdVars, listVars, snd_cmd, caravan_cmds, send_now, rcvVars,
                 loopVars, work, exec, rx, nospace, conn, hostVars>>

AfterDataSkipsDigest == "response"               \* mutant

\* What i10_target_try_send_data leaves to be sent after the last page
AfterData == IF DataDigest THEN "ddgst" ELSE "response"

\* One turn of the loop of i10_target_try_send_data
TrySendData ==
  /\ InHand("data")
  /\ Place(snd_cmd)
  /\ wbytes_left' = [wbytes_left EXCEPT ![snd_cmd] = @ - 1]
  /\ cstate' = IF wbytes_left[snd_cmd] > 1 THEN cstate
               ELSE [cstate EXCEPT ![snd_cmd] = AfterData]
  /\ UNCHANGED <<cmd, rbytes_left, status, init_failed, listVars, snd_cmd,
                 caravan_cmds, send_now, rcvVars, loopVars, work, exec, rx,
                 nospace, conn, hostVars>>

TrySendDdgst ==
  /\ InHand("ddgst")
  /\ Place(snd_cmd)
  /\ cstate' = [cstate EXCEPT ![snd_cmd] = "response"]
  /\ UNCHANGED <<cmdVars, listVars, snd_cmd, caravan_cmds, send_now, rcvVars,
                 loopVars, work, exec, rx, nospace, conn, hostVars>>

DoneSend == snd_cmd' = NULL /\ ret' = 1 /\ pc' = "flush1"

TrySendR2t ==
  /\ InHand("r2t")
  /\ Place(snd_cmd)
  /\ DoneSend
  /\ UNCHANGED <<cmdVars, cstate, listVars, caravan_cmds, send_now, rcvVars,
                 i, pending, work, exec, rx, nospace, conn, hostVars>>

DoneResponseFreesCmd ==                          \* mutant: put_cmd too early
  /\ free_list' = Append(free_list, snd_cmd)
  /\ caravan_cmds' = [caravan_cmds EXCEPT ![CaravanOf(snd_cmd)] =
                        Append(@, snd_cmd)]

\* The slot is freed with the caravan that carries its response; the admin
\* queue frees it here.
DoneResponse ==
  IF IsAdmin
  THEN /\ free_list' = Append(free_list, snd_cmd)
       /\ UNCHANGED caravan_cmds
  ELSE /\ caravan_cmds' = [caravan_cmds EXCEPT ![CaravanOf(snd_cmd)] =
                             Append(@, snd_cmd)]
       /\ UNCHANGED free_list

TrySendResponse ==
  /\ InHand("response")
  /\ Place(snd_cmd)
  /\ DoneResponse
  /\ DoneSend
  /\ UNCHANGED <<cmdVars, cstate, resp_list, resp_send_list, send_now,
                 rcvVars, i, pending, work, exec, rx, nospace, conn, hostVars>>

SendCaravanOnlyFull(d) ==                        \* mutant: only when full
  send_now[d] /\ caravan_len[d] # 0

\* The condition of the two send blocks of i10_target_try_send
SendCaravan(d) ==
  /\ send_now[d] \/ ret <= 0 \/ i = SendBudget - 1
  /\ caravan_len[d] # 0

\* After the block of caravan d: the other block, the next turn, or the end.
AfterFlush(d) ==
  IF d = 1 THEN pc' = "flush2" /\ UNCHANGED i
  ELSE IF ret <= 0 \/ i + 1 = SendBudget THEN pc' = "end" /\ i' = 0
  ELSE pc' = "fetch" /\ i' = i + 1

EmptyCaravanUncountsIovs(d) ==                   \* mutant: unmaps headers too
  /\ free_list' = free_list \o caravan_cmds[d]
  /\ iovs' = [iovs EXCEPT ![d] = <<>>]
  /\ caravan_cmds' = [caravan_cmds EXCEPT ![d] = <<>>]
  /\ nr_mapped' = [nr_mapped EXCEPT ![d] = @ - Len(iovs[d])]
  /\ caravan_len' = [caravan_len EXCEPT ![d] = 0]
  /\ send_now' = [send_now EXCEPT ![d] = FALSE]

EmptyCaravanLeaksCmds(d) ==                      \* mutant: no put_cmd
  /\ iovs' = [iovs EXCEPT ![d] = <<>>]
  /\ caravan_cmds' = [caravan_cmds EXCEPT ![d] = <<>>]
  /\ nr_mapped' = [nr_mapped EXCEPT ![d] = 0]
  /\ caravan_len' = [caravan_len EXCEPT ![d] = 0]
  /\ send_now' = [send_now EXCEPT ![d] = FALSE]
  /\ UNCHANGED free_list

EmptyCaravanKeepsIovs(d) ==                      \* mutant: nr_iovs not reset
  /\ free_list' = free_list \o caravan_cmds[d]
  /\ caravan_cmds' = [caravan_cmds EXCEPT ![d] = <<>>]
  /\ nr_mapped' = [nr_mapped EXCEPT ![d] = 0]
  /\ caravan_len' = [caravan_len EXCEPT ![d] = 0]
  /\ send_now' = [send_now EXCEPT ![d] = FALSE]
  /\ UNCHANGED iovs

\* put_cmd and kunmap for all of caravan d, and its counters back to zero
EmptyCaravan(d) ==
  /\ free_list' = free_list \o caravan_cmds[d]
  /\ iovs' = [iovs EXCEPT ![d] = <<>>]
  /\ caravan_cmds' = [caravan_cmds EXCEPT ![d] = <<>>]
  /\ nr_mapped' = [nr_mapped EXCEPT ![d] = 0]
  /\ caravan_len' = [caravan_len EXCEPT ![d] = 0]
  /\ send_now' = [send_now EXCEPT ![d] = FALSE]

\* The send block of caravan d.  Whatever sendmsg returns, the responses in
\* the caravan count as sent and their slots are freed.
Flush(d) ==
  /\ pc = FlushPc[d]
  /\ \/ /\ ~SendCaravan(d)
        /\ AfterFlush(d)
        /\ UNCHANGED <<caravanVars, free_list, tx, nospace, ret>>
     \/ /\ SendCaravan(d)
        /\ Wspace < caravan_len[d]             \* i10_target_sndbuf_nospace
        /\ nospace' = TRUE
        /\ ret' = 0
        /\ pc' = "end"
        /\ i' = 0
        /\ UNCHANGED <<caravanVars, free_list, tx>>
     \/ /\ SendCaravan(d)
        /\ Wspace >= caravan_len[d]
        /\ tx' = IF conn = "down" THEN tx ELSE tx \o iovs[d]
        /\ EmptyCaravan(d)
        /\ AfterFlush(d)
        /\ UNCHANGED <<nospace, ret>>
  /\ UNCHANGED <<cmdVars, cstate, resp_list, resp_send_list, snd_cmd, rcvVars,
                 work, pending, exec, rx, conn, hostVars>>

\* The end of an iteration of i10_target_io_work: an error returns, and when
\* there was progress it goes on, or requeues itself if the budget is used up.
EndIo ==
  /\ pc = "end"
  /\ \/ /\ ret >= 0
        /\ pending \/ ret > 0
        /\ \/ pc' = "recv" /\ UNCHANGED work
           \/ pc' = "idle" /\ work' = TRUE
     \/ /\ ret < 0 \/ ~(pending \/ ret > 0)
        /\ pc' = "idle"
        /\ UNCHANGED work
  /\ pending' = FALSE
  /\ ret' = 0
  /\ UNCHANGED <<cmdVars, cstate, listVars, snd_cmd, caravanVars, rcvVars, i,
                 exec, sockVars, hostVars>>

-----------------------------------------------------------------------------
(***************************************************************************)
(* The other contexts: the backend, the socket's callbacks, the host.      *)
(***************************************************************************)

\* __nvmet_req_complete, with or without an error
BackendComplete(c) ==
  /\ c \in exec
  /\ exec' = exec \ {c}
  /\ \E err \in BOOLEAN : status' = [status EXCEPT ![c] = err]
  /\ QueueResponse(c)
  /\ UNCHANGED <<cmd, rbytes_left, wbytes_left, init_failed, cstate,
                 free_list, resp_send_list, snd_cmd, caravanVars, rcvVars,
                 loopVars, sockVars, hostVars>>

\* i10_target_write_space, sk_stream_is_writeable
WriteSpace ==
  /\ nospace
  /\ conn # "down"
  /\ Wspace >= Queued(tx) \div 2
  /\ nospace' = FALSE
  /\ work' = TRUE
  /\ UNCHANGED <<cmdVars, cstate, listVars, snd_cmd, caravanVars, rcvVars,
                 loopVars, exec, rx, tx, conn, hostVars>>

\* i10_target_state_change: sk_user_data is cleared, the queue is
\* disconnecting.  What has arrived is still read, or purged by a reset.
StateChange ==
  /\ conn # "down"
  /\ conn' = "down"
  /\ tx' = <<>>
  /\ rx' \in {rx, <<>>}
  /\ UNCHANGED <<cmdVars, cstate, listVars, snd_cmd, caravanVars, rcvVars,
                 loopVars, work, exec, nospace, hostVars>>

\* nvmet_fatal_error_handler: i10_target_delete_ctrl shuts the socket down.
FatalErrorWork == conn = "fatal" /\ StateChange

\* The host or the network closes the connection.
ConnReset == Faults /\ conn = "up" /\ StateChange

\* A chunk x arrives: i10_target_data_ready.
Arrive(x) ==
  /\ conn # "down"
  /\ rx' = Append(rx, x)
  /\ hpdu' = x
  /\ work' = TRUE
  /\ UNCHANGED <<cmdVars, cstate, listVars, snd_cmd, caravanVars, rcvVars,
                 loopVars, exec, tx, nospace, conn, hread>>

\* The host starts a command capsule, ...
HostSubmit(t, k) ==
  /\ conn = "up"
  /\ host[t] = "free"
  /\ hpdu.left = 0
  /\ host' = [host EXCEPT ![t] = "sent"]
  /\ hkind' = [hkind EXCEPT ![t] = k]
  /\ Arrive(Chunk("cmd", t, IF Inline(k) THEN k.pages + DdgstLen ELSE 0, NULL))
  /\ UNCHANGED r2ts

\* ... or the data PDU that an R2T asked for, ...
HostH2c(t) ==
  /\ hpdu.left = 0
  /\ \E c \in Cmds :
       /\ <<t, c>> \in r2ts
       /\ r2ts' = r2ts \ {<<t, c>>}
       /\ Arrive(Chunk("h2c", t, hkind[t].pages + DdgstLen, c))
  /\ UNCHANGED <<host, hkind>>

\* ... and goes on with the PDU it has started.
HostData ==
  /\ hpdu.left # 0
  /\ Arrive(Chunk(IF hpdu.left = 1 /\ DataDigest THEN "ddgst" ELSE "data",
                  hpdu.tag, hpdu.left - 1, hpdu.ttag))
  /\ UNCHANGED <<host, hkind, r2ts>>

\* May chunk b come after chunk a on a stream of whole PDUs?
Follows(a, b) ==
  IF a.left = 0
  THEN b.kind \in {"c2h", "r2t", "rsp"}
  ELSE /\ b.kind = IF a.left = 1 /\ DataDigest THEN "rddgst" ELSE "rdata"
       /\ b.tag = a.tag
       /\ b.left = a.left - 1

\* The host reads a chunk.
HostRead ==
  /\ conn # "down"
  /\ tx # <<>>
  /\ Follows(hread, Head(tx))
  /\ LET x == Head(tx)
     IN  /\ hread' = x
         /\ r2ts' = IF x.kind = "r2t" THEN r2ts \cup {<<x.tag, x.ttag>>}
                    ELSE r2ts
         /\ host' = IF x.kind = "rsp" THEN [host EXCEPT ![x.tag] = "free"]
                    ELSE host
         /\ hkind' = IF x.kind = "rsp" THEN [hkind EXCEPT ![x.tag] = NoKind]
                     ELSE hkind
  /\ tx' = Tail(tx)
  /\ UNCHANGED <<cmdVars, cstate, listVars, snd_cmd, caravanVars, rcvVars,
                 loopVars, work, exec, rx, nospace, conn, hpdu>>

\* The host closes the connection because what it reads is no PDU.
HostReject == tx # <<>> /\ ~Follows(hread, Head(tx)) /\ StateChange

-----------------------------------------------------------------------------

\* The queue is live: icreq has been answered and the connect command has
\* been handled; i10_target_alloc_cmds has filled the free list.
Init ==
  /\ cmd = [c \in Cmds |-> NoCmd]
  /\ rbytes_left = [c \in Cmds |-> 0]
  /\ wbytes_left = [c \in Cmds |-> 0]
  /\ status = [c \in Cmds |-> FALSE]
  /\ init_failed = [c \in Cmds |-> FALSE]
  /\ cstate = [c \in Cmds |-> "response"]
  /\ free_list \in SetToSeqs(Cmds)
  /\ resp_list = <<>>
  /\ resp_send_list = <<>>
  /\ snd_cmd = NULL
  /\ iovs = [d \in Doors |-> <<>>]
  /\ caravan_cmds = [d \in Doors |-> <<>>]
  /\ nr_mapped = [d \in Doors |-> 0]
  /\ caravan_len = [d \in Doors |-> 0]
  /\ send_now = [d \in Doors |-> FALSE]
  /\ rcv_state = "pdu"
  /\ rcv_cmd = NULL
  /\ rcv_left = 0
  /\ work = FALSE
  /\ pc = "idle"
  /\ i = 0
  /\ ret = 0
  /\ pending = FALSE
  /\ exec = {}
  /\ rx = <<>>
  /\ tx = <<>>
  /\ nospace = FALSE
  /\ conn = "up"
  /\ host = [t \in Tags |-> "free"]
  /\ hkind = [t \in Tags |-> NoKind]
  /\ hpdu = NoChunk
  /\ r2ts = {}
  /\ hread = NoChunk

TryRecv ==
  \/ RecvCmd \/ RecvCmdInitFails \/ RecvCmdMapFails
  \/ RecvH2cData \/ RecvBadPdu \/ RecvData \/ RecvDataDone \/ RecvDdgst
  \/ RecvNothing \/ RecvDead

TrySend ==
  \/ FetchCmd \/ NotPlaced \/ TrySendDataPdu \/ TrySendData \/ TrySendDdgst
  \/ TrySendR2t \/ TrySendResponse \/ \E d \in Doors : Flush(d)

IoWork == IoStart \/ TryRecv \/ TrySend \/ EndIo

Host ==
  \/ \E t \in Tags : HostH2c(t) \/ \E k \in Kinds : HostSubmit(t, k)
  \/ HostData \/ HostRead \/ HostReject

Next ==
  \/ IoWork
  \/ \E c \in Cmds : BackendComplete(c)
  \/ WriteSpace \/ FatalErrorWork \/ ConnReset
  \/ Host

Spec == Init /\ [][Next]_vars

\* io_work runs when queued and goes on until it returns, the backend
\* completes what it executes, TCP reports room in the send buffer, and the
\* host finishes the PDUs it starts, serves R2Ts and reads what is sent.
Fairness ==
  /\ WF_vars(IoWork)
  /\ \A c \in Cmds : WF_vars(BackendComplete(c))
  /\ WF_vars(WriteSpace)
  /\ WF_vars(FatalErrorWork)
  /\ WF_vars(HostData)
  /\ WF_vars(HostRead \/ HostReject)
  /\ \A t \in Tags : SF_vars(HostH2c(t))

FairSpec == Spec /\ Fairness

-----------------------------------------------------------------------------
(***************************************************************************)
(* Properties.                                                             *)
(***************************************************************************)

ChunkType(kinds) ==
  [kind : kinds, tag : Tags \cup {NULL}, left : Int, ttag : Cmds \cup {NULL}]

PcType == {"idle", "recv", "fetch", "one", "flush1", "flush2", "end"}

\* The type of every variable of the queue, its socket and its host.
TypeOK ==
  /\ cmd \in [Cmds -> [tag : Tags \cup {NULL}, write : BOOLEAN, pages : Nat]]
  /\ rbytes_left \in [Cmds -> Int]
  /\ wbytes_left \in [Cmds -> Int]
  /\ status \in [Cmds -> BOOLEAN]
  /\ init_failed \in [Cmds -> BOOLEAN]
  /\ cstate \in [Cmds -> {"data_pdu", "data", "r2t", "ddgst", "response"}]
  /\ free_list \in Seq(Cmds)
  /\ resp_list \in Seq(Cmds)
  /\ resp_send_list \in Seq(Cmds)
  /\ snd_cmd \in Cmds \cup {NULL}
  /\ iovs \in [Doors -> Seq(ChunkType(TxKinds))]
  /\ caravan_cmds \in [Doors -> Seq(Cmds)]
  /\ nr_mapped \in [Doors -> Nat]
  /\ caravan_len \in [Doors -> Nat]
  /\ send_now \in [Doors -> BOOLEAN]
  /\ rcv_state \in {"pdu", "data", "ddgst", "err"}
  /\ rcv_cmd \in Cmds \cup {NULL}
  /\ rcv_left \in Int
  /\ work \in BOOLEAN
  /\ pc \in PcType
  /\ i \in Nat
  /\ ret \in {-1, 0, 1}
  /\ pending \in BOOLEAN
  /\ exec \in SUBSET Cmds
  /\ rx \in Seq(ChunkType(RxKinds))
  /\ tx \in Seq(ChunkType(TxKinds))
  /\ nospace \in BOOLEAN
  /\ conn \in {"up", "fatal", "down"}
  /\ host \in [Tags -> {"free", "sent"}]
  /\ hkind \in [Tags -> KindType]
  /\ hpdu \in ChunkType(RxKinds \cup {"none"})
  /\ r2ts \in SUBSET (Tags \X Cmds)
  /\ hread \in ChunkType(TxKinds \cup {"none"})

\* The arrays of a caravan, allocated by i10_target_alloc_queue with 3 * budget
\* iovecs and budget commands and pages, are never indexed out of bounds, and
\* caravan 2 never maps a page.
CaravanBounds ==
  /\ \A d \in Doors : /\ Len(iovs[d]) <= 3 * SendBudget
                      /\ Len(caravan_cmds[d]) <= SendBudget
                      /\ nr_mapped[d] <= SendBudget
  /\ nr_mapped[2] = 0

Lists == free_list \o resp_list \o resp_send_list
         \o caravan_cmds[1] \o caravan_cmds[2]

\* A command slot is owned by one party at a time: it is on one list, once, or
\* in hand, or at the backend.  Completions arrive on the lock-free list while
\* io_work moves slots between the others, and a caravan frees slots in bulk.
OneOwner ==
  /\ IsInjective(Lists)
  /\ \A c \in exec : c \notin ToSet(Lists) /\ c # snd_cmd
  /\ snd_cmd \notin ToSet(Lists)

\* No slot is reused while an iovec of a caravan still points to its PDUs or
\* to its data pages: put_cmd and sgl_free come after the sendmsg.
CaravanHoldsCmds ==
  \A d \in Doors : \A j \in 1..Len(iovs[d]) :
    iovs[d][j].ttag \notin ToSet(free_list)

\* The data of a write is received into the buffers of a slot that is in use
\* and that neither the backend nor the send side has been given yet.
ReceiverOwnsCmd ==
  rcv_cmd # NULL => /\ rcv_cmd \notin ToSet(Lists) \cup exec
                    /\ rcv_cmd # snd_cmd

\* "This should never happen": a slot is free whenever the header of a command
\* capsule is handled.  It holds with one slot per host tag because a slot is
\* freed before the host can read the response; the code allocates two.
NeverOutOfCommands == 
  (pc = "recv" /\ rcv_state = "pdu" /\ rx # <<>> /\ Head(rx).kind = "cmd") =>
    free_list # <<>>

\* The backend is given a write only when all of its data has been received,
\* and gets every command before the host can see an answer to it.
ExecutesCompleteWrites ==
  \A c \in exec : /\ cmd[c].write => rbytes_left[c] = 0
                  /\ host[cmd[c].tag] = "sent"

\* The responses that are on the way, in caravans or in the socket.
Responses ==
  LET s == iovs[1] \o iovs[2] \o tx
  IN  {j \in DOMAIN s : s[j].kind = "rsp"}

\* A command is answered once: among the caravans and the socket there is at
\* most one response for a tag, the command is outstanding, and its slot is
\* no longer executed or queued for another answer.
AnsweredOnce ==
  LET s == iovs[1] \o iovs[2] \o tx
  IN  /\ \A j, k \in Responses : s[j].tag = s[k].tag => j = k
      /\ \A j \in Responses : /\ host[s[j].tag] = "sent"
                              /\ \A c \in exec : cmd[c].tag # s[j].tag

\* What the host has read last and what is in the socket is a sequence of
\* whole PDUs: read data that is cut at the end of a full caravan is continued
\* before any other PDU is written, and digests come after their data.
StreamWellFormed ==
  LET s == <<hread>> \o tx
  IN  \A j \in 1..Len(tx) : Follows(s[j], s[j+1])

\* Inside a caravan PDUs are contiguous, and one that is cut at the end of it
\* is continued by the command in hand, unless the queue is disconnecting.
CaravanContiguous ==
  conn # "down" =>
    \A d \in Doors :
      /\ \A j \in 1..(Len(iovs[d]) - 1) : Follows(iovs[d][j], iovs[d][j+1])
      /\ (iovs[d] # <<>> /\ Last(iovs[d]).left # 0) =>
           (snd_cmd # NULL /\ Follows(Last(iovs[d]), SndChunk(snd_cmd)))

\* Every command is answered as long as the connection is up.
EveryCommandAnswered ==
  \A t \in Tags : (host[t] = "sent") ~> (host[t] = "free" \/ conn # "up")

=============================================================================
