---------------------------- MODULE I10HostQueue ----------------------------
(***************************************************************************)
(* The data path of one I/O queue of the i10 (PINoF) host,                 *)
(* PINoF/host/PINoF.c, while its connection is up: block-layer requests    *)
(* are put on send_list, two delayed doorbells (1 for writes, 2 for reads) *)
(* schedule io_work, and io_work packs command PDUs, data PDUs and data    *)
(* pages into two caravans that are handed to the socket in one sendmsg.   *)
(*                                                                         *)
(* The processes are the submitting CPUs, the two hrtimers, the io_work    *)
(* item (never reentered, so one program counter pc), the socket callbacks *)
(* and the peer.  The peer is external: it answers every command it has    *)
(* read in full, in any order.                                             *)
(*                                                                         *)
(* A PDU is a sequence of chunks, one per iovec the driver builds: a       *)
(* header, its data pages and its data digest.  A chunk carries left, the  *)
(* number of chunks of the same PDU that must follow it on the stream, so  *)
(* whether a stream is a sequence of whole PDUs is a property of adjacent  *)
(* chunks.                                                                 *)
(***************************************************************************)
EXTENDS Integers, Sequences, FiniteSets

CONSTANTS
  Tags,         \* blk-mq tags of the queue
  Cpus,         \* CPUs whose tasks run i10_host_queue_rq on this queue
  Kinds,        \* requests a task may submit: [write, pages, nodelay]
  NULL,
  Agg,          \* I10_AGGREGATION_SIZE, I10_AGGREGATION_SIZE2
  Capacity,     \* I10_CARAVAN_CAPACITY, I10_CARAVAN2_CAPACITY
  HdrLen,       \* bytes of a PDU header
  PageLen,      \* bytes of a data page
  InlinePages,  \* i10_host_inline_data_size, in pages
  BigPages,     \* pages of the 32768 byte limit of i10_host_try_send_data
  SndBuf,       \* bytes of the socket's send buffer
  DataDigest,   \* opts->data_digest
  Preemptible,  \* may others run between the statements of a submitter
                \* and of an hrtimer callback?
  ParamWrites,  \* is i10_delayed_doorbell_us written while I/O runs?
  Faults        \* may the connection break and received PDUs be bad?

Doors == {1, 2}

KindType == [write : BOOLEAN, pages : Nat, nodelay : BOOLEAN]

ASSUME ConstantsAssumption ==
  /\ Kinds \subseteq KindType
  /\ NULL \notin Tags
  /\ "io_work" \notin Cpus
  /\ Agg \in [Doors -> Nat \ {0}]
  /\ Capacity \in [Doors -> Nat \ {0}]
  /\ HdrLen \in Nat \ {0}
  /\ PageLen \in Nat \ {0}
  /\ InlinePages \in Nat
  /\ BigPages \in Nat
  /\ SndBuf \in Nat
  /\ DataDigest \in BOOLEAN
  /\ Preemptible \in BOOLEAN
  /\ ParamWrites \in BOOLEAN
  /\ Faults \in BOOLEAN

VARIABLES
  (* block layer *)
  rq,           \* [Tags -> {"free", "started"}]: blk-mq's view of the tag
  kind,         \* [Tags -> Kinds]: the request behind the tag
  (* struct i10_host_request *)
  state,        \* [Tags -> send state]
  pdu_left,     \* [Tags -> Nat]: pdu_len - pdu_sent, in pages
  (* struct i10_host_queue, send side *)
  send_list,
  request,
  iovs,         \* [Doors -> Seq(chunk)]: caravan_iovs, nr_iovs is its length
  nr_mapped,
  caravan_len,
  send_now,
  nr_req,
  timer,        \* [Doors -> {"off", "armed", "firing"}]: doorbell_timer
  legacy,       \* i10_delayed_doorbell_us < I10_MIN_DOORBELL_TIMEOUT
  (* io_work and the contexts inside i10_host_queue_request *)
  work,         \* io_work is queued on i10_host_wq
  pc,           \* where io_work is
  pending,      \* the local of i10_host_io_work
  sub,          \* [Ctx -> progress of i10_host_queue_request]
  (* the socket and, external, the peer *)
  tx,           \* chunks written to the socket and not yet read by the peer
  nospace,      \* SOCK_NOSPACE
  rx,           \* chunks that arrived and are not yet read by io_work
  rcv,          \* receive context: [mode, tag, left]
  conn,         \* "up", "rd_off" (rd_enabled cleared) or "down"
  peer,         \* last chunk the peer has read
  owed          \* <<tag, PDU>> pairs the peer still has to answer with

blkVars     == <<rq, kind>>
reqVars     == <<state, pdu_left>>
caravanVars == <<iovs, nr_mapped, caravan_len, send_now>>
bellVars    == <<nr_req, timer, work>>
workVars    == <<pc, pending>>
sockVars    == <<tx, nospace, rx, rcv, conn>>
peerVars    == <<peer, owed>>

vars == <<rq, kind, state, pdu_left, send_list, request, iovs, nr_mapped,
          caravan_len, send_now, nr_req, timer, legacy, work, pc, pending,
          sub, tx, nospace, rx, rcv, conn, peer, owed>>

Ctx == Cpus \cup {"io_work"}

TxKinds == {"cmd", "h2c", "data", "ddgst"}
RxKinds == {"c2h", "rdata", "r2t", "rsp"}
Chunk(k, t, l) == [kind |-> k, tag |-> t, left |-> l]
TxChunk == [kind : TxKinds, tag : Tags, left : Int]
RxChunk == [kind : RxKinds, tag : Tags, left : Nat]
NoChunk == [kind |-> "none", tag |-> NULL, left |-> 0]

SendPc == <<"send1", "send2">>
ResetPc == <<"reset1", "reset2">>

NoKind == [write |-> FALSE, pages |-> 0, nodelay |-> FALSE]
NoRcv == [mode |-> "pdu", tag |-> NULL, left |-> -1]   \* init_recv_ctx
NoSub == [pc |-> "idle", tag |-> NULL, n |-> 0]

(***************************************************************************)
(* Static helpers of the driver.                                           *)
(***************************************************************************)

\* i10_host_has_inline_data
HasInlineData(k) == k.write /\ k.pages # 0 /\ k.pages <= InlinePages

\* The doorbell, and the caravan of the command PDU, follow the direction.
Door(k) == IF k.write THEN 1 ELSE 2

\* i10_host_ddgst_len: one more chunk after the data
DdgstLen == IF DataDigest THEN 1 ELSE 0

\* plen of the command and of the H2C data PDU, as chunks after the header
CmdLeft(k) == IF HasInlineData(k) THEN k.pages + DdgstLen ELSE 0
H2cLeft(k) == k.pages + DdgstLen

IsCaravanFullOffByOne(d) ==                      \* mutant
  \/ caravan_len[d] > Capacity[d]
  \/ Len(iovs[d]) > 2 * Agg[d]
  \/ nr_mapped[d] > Agg[d]

\* i10_host_is_caravan_full, i10_host_is_caravan2_full
IsCaravanFull(d) ==
  \/ caravan_len[d] >= Capacity[d]
  \/ Len(iovs[d]) >= 2 * Agg[d]
  \/ nr_mapped[d] >= Agg[d]

ChunkLen(c) == IF c.kind = "data" THEN PageLen ELSE HdrLen

\* Bytes of the send buffer in use: headers and pages the peer has not read.
Headers(s) == Cardinality({i \in DOMAIN s : s[i].kind # "data"})
Queued(s) == Headers(s) * HdrLen + (Len(s) - Headers(s)) * PageLen

\* sk_stream_wspace; i10_host_sndbuf_nospace
Wspace == SndBuf - Queued(tx)
SndbufNospace(n) == Wspace < n

-----------------------------------------------------------------------------
(***************************************************************************)
(* i10_host_queue_request: list_add_tail under the lock, then, without it, *)
(* the doorbell.  When the caller can be preempted or runs on another CPU  *)
(* than io_work, nr_req++ is a load and a store with others in between.    *)
(***************************************************************************)

\* nr_req++.  The code compares the counter with 1 and with the aggregation
\* size only, so all values above the latter behave alike and are one here.
Incremented(d) ==
  IF nr_req[d] > Agg[d] THEN nr_req[d] ELSE nr_req[d] + 1

Doorbell(k, n) ==
  LET d == Door(k)
      start == timer[d] = "off" /\ n = 1
  IN  \/ /\ ~legacy /\ ~k.nodelay
         /\ nr_req' = [nr_req EXCEPT ![d] = n]
         /\ \/ /\ start
               /\ timer' = [timer EXCEPT ![d] = "armed"]
               /\ UNCHANGED work
            \/ /\ ~start
               /\ n >= Agg[d]
               /\ timer[d] # "firing"      \* hrtimer_cancel waits for it
               /\ timer' = [timer EXCEPT ![d] = "off"]
               /\ work' = TRUE
            \/ /\ ~start
               /\ n < Agg[d]
               /\ UNCHANGED <<timer, work>>
      \/ /\ legacy \/ k.nodelay
         /\ timer[d] # "firing"
         /\ timer' = [timer EXCEPT ![d] = "off"]
         /\ work' = TRUE
         /\ UNCHANGED nr_req

\* The two halves of the doorbell code of a context that can be interrupted.
Load(c) ==
  /\ sub[c].pc = "load"
  /\ sub' = [sub EXCEPT ![c].pc = "ring",
                        ![c].n = Incremented(Door(kind[sub[c].tag]))]
  /\ UNCHANGED <<blkVars, reqVars, caravanVars, bellVars, workVars, sockVars,
                 peerVars, send_list, request, legacy>>

Ring(c) ==
  /\ sub[c].pc = "ring"
  /\ Doorbell(kind[sub[c].tag], sub[c].n)
  /\ sub' = [sub EXCEPT ![c] = NoSub]
  /\ UNCHANGED <<blkVars, reqVars, caravanVars, workVars, sockVars, peerVars,
                 send_list, request, legacy>>

\* Context c puts t, a request of kind k, on send_list.
QueueRequest(c, t, k) ==
  /\ send_list' = Append(send_list, t)
  /\ IF Preemptible
     THEN /\ sub' = [sub EXCEPT ![c] = [pc |-> "load", tag |-> t, n |-> 0]]
          /\ UNCHANGED bellVars
     ELSE /\ Doorbell(k, Incremented(Door(k)))
          /\ UNCHANGED sub

\* i10_host_queue_rq: the block layer starts a request of kind k on tag t.
QueueRq(c, t, k) ==
  /\ conn = "up"                             \* nvmf_check_ready
  /\ rq[t] = "free"
  /\ sub[c].pc = "idle"
  /\ rq' = [rq EXCEPT ![t] = "started"]
  /\ kind' = [kind EXCEPT ![t] = k]
  /\ state' = [state EXCEPT ![t] = "cmd"]
  /\ pdu_left' = [pdu_left EXCEPT ![t] =
                    IF HasInlineData(k) THEN k.pages ELSE 0]
  /\ QueueRequest(c, t, k)
  /\ UNCHANGED <<caravanVars, workVars, sockVars, peerVars, request, legacy>>

\* i10_host_doorbell_timeout, i10_host_doorbell_timeout2.  hrtimer_active()
\* stays true until the callback has returned.
TimerExpire(d) ==
  /\ timer[d] = "armed"
  /\ timer' = [timer EXCEPT ![d] = IF Preemptible THEN "firing" ELSE "off"]
  /\ work' = TRUE
  /\ UNCHANGED <<blkVars, reqVars, caravanVars, workVars, sockVars, peerVars,
                 send_list, request, nr_req, legacy, sub>>

TimerReturn(d) ==
  /\ timer[d] = "firing"
  /\ timer' = [timer EXCEPT ![d] = "off"]
  /\ UNCHANGED <<blkVars, reqVars, caravanVars, workVars, sockVars, peerVars,
                 send_list, request, nr_req, work, legacy, sub>>

\* The administrator writes the module parameter across the 25us threshold.
SetDoorbellParam ==
  /\ ParamWrites
  /\ legacy' = ~legacy
  /\ UNCHANGED <<blkVars, reqVars, caravanVars, bellVars, workVars, sockVars,
                 peerVars, send_list, request, sub>>

-----------------------------------------------------------------------------
(***************************************************************************)
(* i10_host_io_work.  pc walks through i10_host_try_send ("fetch", then    *)
(* for each caravan d "send" and "reset", then "req") and                  *)
(* i10_host_try_recv ("recv").                                             *)
(***************************************************************************)

IoStart ==
  /\ pc = "idle"
  /\ work
  /\ work' = FALSE
  /\ pc' = "fetch"
  /\ pending' = FALSE
  /\ UNCHANGED <<blkVars, reqVars, caravanVars, sockVars, peerVars, send_list,
                 request, nr_req, timer, legacy, sub>>

TakeRequestWithoutListDel ==                     \* mutant
  request' = Head(send_list) /\ UNCHANGED send_list

\* i10_host_fetch_request
TakeRequest == request' = Head(send_list) /\ send_list' = Tail(send_list)

\* ... and the early return of i10_host_try_send
FetchRequest ==
  /\ pc = "fetch"
  /\ IF request = NULL /\ send_list # <<>>
     THEN TakeRequest
     ELSE UNCHANGED <<request, send_list>>
  /\ pc' = IF request' = NULL /\ caravan_len[1] = 0 /\ caravan_len[2] = 0
           THEN "recv" ELSE SendPc[1]
  /\ UNCHANGED <<blkVars, reqVars, caravanVars, bellVars, sockVars, peerVars,
                 pending, legacy, sub>>

SendCaravanOnlyNow(d) == send_now[d]             \* mutant

\* i10_host_send_caravan, i10_host_send_caravan2
SendCaravan(d) ==
  \/ send_now[d]
  \/ timer[d] = "off" /\ request = NULL /\ caravan_len[d] # 0

AfterCaravan(d) == IF d = 1 THEN SendPc[2] ELSE "req"

\* kernel_sendmsg on a dead connection: -EPIPE, or another error
SendErrors == {"epipe", "fail"}

TrySendCaravan(d) ==
  /\ pc = SendPc[d]
  /\ \/ /\ ~SendCaravan(d)
        /\ pc' = AfterCaravan(d)
        /\ UNCHANGED <<tx, nospace>>
     \/ /\ SendCaravan(d)
        /\ SndbufNospace(caravan_len[d])
        /\ nospace' = TRUE
        /\ pc' = "recv"
        /\ UNCHANGED tx
     \/ /\ SendCaravan(d)
        /\ ~SndbufNospace(caravan_len[d])
        /\ conn # "down"
        /\ tx' = tx \o iovs[d]
        /\ pc' = ResetPc[d]
        /\ UNCHANGED nospace
     \/ /\ SendCaravan(d)
        /\ ~SndbufNospace(caravan_len[d])
        /\ conn = "down"
        /\ pc' \in SendErrors
        /\ UNCHANGED <<tx, nospace>>
  /\ UNCHANGED <<blkVars, reqVars, caravanVars, bellVars, peerVars, send_list,
                 request, pending, rx, rcv, conn, legacy, sub>>

EmptyCaravanUncountsIovs(d) ==                   \* mutant: unmaps headers too
  /\ iovs' = [iovs EXCEPT ![d] = <<>>]
  /\ nr_mapped' = [nr_mapped EXCEPT ![d] = @ - Len(iovs[d])]
  /\ caravan_len' = [caravan_len EXCEPT ![d] = 0]
  /\ send_now' = [send_now EXCEPT ![d] = FALSE]

EmptyCaravanKeepsIovs(d) ==                      \* mutant: nr_iovs not reset
  /\ nr_mapped' = [nr_mapped EXCEPT ![d] = 0]
  /\ caravan_len' = [caravan_len EXCEPT ![d] = 0]
  /\ send_now' = [send_now EXCEPT ![d] = FALSE]
  /\ UNCHANGED iovs

\* kunmap, and the counters of caravan d back to zero
EmptyCaravan(d) ==
  /\ iovs' = [iovs EXCEPT ![d] = <<>>]
  /\ nr_mapped' = [nr_mapped EXCEPT ![d] = 0]
  /\ caravan_len' = [caravan_len EXCEPT ![d] = 0]
  /\ send_now' = [send_now EXCEPT ![d] = FALSE]

\* The caravan has been handed to the socket.
ResetCaravan(d) ==
  /\ pc = ResetPc[d]
  /\ nr_req' = [nr_req EXCEPT ![d] = 0]
  /\ EmptyCaravan(d)
  /\ pc' = AfterCaravan(d)
  /\ UNCHANGED <<blkVars, reqVars, sockVars, peerVars, send_list, request,
                 timer, work, pending, legacy, sub>>

-----------------------------------------------------------------------------
(***************************************************************************)
(* The request in hand: i10_host_try_send_cmd_pdu, _data_pdu, _data and    *)
(* _ddgst each place the next chunk of its PDU.                            *)
(***************************************************************************)

NextChunk(t) ==
  CASE state[t] = "cmd"   -> Chunk("cmd", t, CmdLeft(kind[t]))
    [] state[t] = "h2c"   -> Chunk("h2c", t, H2cLeft(kind[t]))
    [] state[t] = "data"  -> Chunk("data", t, pdu_left[t] - 1 + DdgstLen)
    [] state[t] = "ddgst" -> Chunk("ddgst", t, 0)

\* Only the command PDUs of reads travel in caravan 2.
CaravanOf(t) == IF state[t] = "cmd" THEN Door(kind[t]) ELSE 1

\* The legacy path, and every data digest, bypass the caravans.
Direct(t) == legacy \/ state[t] = "ddgst"

\* Not legacy and pdu_len > 32768: i10_host_try_send_data uses ret unset.
UnsetRet(t) == state[t] = "data" /\ ~legacy /\ kind[t].pages > BigPages

InHand(s) == pc = "req" /\ request # NULL /\ state[request] = s

\* The chunk is taken: appended to the caravan or written to the socket.
Place(t) ==
  LET c == NextChunk(t)
      d == CaravanOf(t)
  IN  \/ /\ ~Direct(t)
         /\ ~IsCaravanFull(d)
         /\ iovs' = [iovs EXCEPT ![d] = Append(@, c)]
         /\ nr_mapped' = IF c.kind = "data"
                         THEN [nr_mapped EXCEPT ![d] = @ + 1]
                         ELSE nr_mapped
         /\ caravan_len' = [caravan_len EXCEPT ![d] = @ + ChunkLen(c)]
         /\ send_now' = IF c.kind = "cmd" /\ kind[t].nodelay
                        THEN [send_now EXCEPT ![d] = TRUE]
                        ELSE send_now
         /\ UNCHANGED tx
      \/ /\ Direct(t)
         /\ conn # "down"
         /\ Wspace >= ChunkLen(c)
         /\ tx' = Append(tx, c)
         /\ UNCHANGED caravanVars

\* i10_host_done_send_req, and return 1 to io_work
DoneSendReq ==
  /\ request' = NULL
  /\ pc' = "recv"
  /\ pending' = TRUE

\* The chunk is not taken: the caravan is full (send it now, return 1), the
\* socket has no room (-EAGAIN) or the connection is dead.
NotPlaced ==
  /\ pc = "req"
  /\ request # NULL
  /\ ~UnsetRet(request)
  /\ LET t == request
         d == CaravanOf(t)
     IN  \/ /\ ~Direct(t)
            /\ IsCaravanFull(d)
            /\ send_now' = [send_now EXCEPT ![d] = TRUE]
            /\ pc' = "recv"
            /\ pending' = TRUE
            /\ UNCHANGED nospace
         \/ /\ Direct(t)
            /\ conn # "down"
            /\ Wspace < ChunkLen(NextChunk(t))
            /\ nospace' = TRUE
            /\ pc' = "recv"
            /\ UNCHANGED <<send_now, pending>>
         \/ /\ Direct(t)
            /\ conn = "down"
            /\ pc' \in SendErrors
            /\ UNCHANGED <<send_now, pending, nospace>>
  /\ UNCHANGED <<blkVars, reqVars, bellVars, peerVars, send_list, request,
                 iovs, nr_mapped, caravan_len, tx, rx, rcv, conn, legacy, sub>>

\* i10_host_try_send_cmd_pdu
TrySendCmdPdu ==
  /\ InHand("cmd")
  /\ Place(request)
  /\ IF HasInlineData(kind[request])
     THEN /\ state' = [state EXCEPT ![request] = "data"]
          /\ UNCHANGED <<request, pc, pending>>
     ELSE /\ DoneSendReq
          /\ UNCHANGED state
  /\ UNCHANGED <<blkVars, bellVars, peerVars, pdu_left, send_list, nospace,
                 rx, rcv, conn, legacy, sub>>

\* i10_host_try_send_data_pdu
TrySendDataPdu ==
  /\ InHand("h2c")
  /\ Place(request)
  /\ state' = [state EXCEPT ![request] = "data"]
  /\ UNCHANGED <<blkVars, bellVars, workVars, peerVars, pdu_left, send_list,
                 request, nospace, rx, rcv, conn, legacy, sub>>

LastPageTooEarly(t) == pdu_left[t] <= 2          \* mutants: off by one
LastPageTooLate(t) == pdu_left[t] = 0

\* "fully successful last write": this page is the last one of the PDU.
LastPage(t) == pdu_left[t] <= 1

\* i10_host_advance_req and what follows the last page
Advance(t) ==
  /\ pdu_left' = [pdu_left EXCEPT ![t] = @ - 1]
  /\ IF ~LastPage(t)
     THEN UNCHANGED <<state, request, pc, pending>>
     ELSE IF DataDigest
     THEN /\ state' = [state EXCEPT ![t] = "ddgst"]
          /\ UNCHANGED <<request, pc, pending>>
     ELSE /\ DoneSendReq
          /\ UNCHANGED state

\* i10_host_try_send_data, one turn of its loop
TrySendData ==
  /\ InHand("data")
  /\ ~UnsetRet(request)
  /\ Place(request)
  /\ Advance(request)
  /\ UNCHANGED <<blkVars, bellVars, peerVars, send_list, nospace, rx, rcv,
                 conn, legacy, sub>>

\* The same turn when ret was never set: it is read as an error, as nothing
\* sent, or as the whole page although no byte has gone anywhere.
TrySendDataUnset ==
  /\ InHand("data")
  /\ UnsetRet(request)
  /\ \/ /\ pc' \in SendErrors \cup {"recv"}
        /\ UNCHANGED <<state, pdu_left, request, pending>>
     \/ Advance(request)
  /\ UNCHANGED <<blkVars, caravanVars, bellVars, sockVars, peerVars,
                 send_list, legacy, sub>>

\* i10_host_try_send_ddgst
TrySendDdgst ==
  /\ InHand("ddgst")
  /\ Place(request)
  /\ DoneSendReq
  /\ UNCHANGED <<blkVars, reqVars, bellVars, peerVars, send_list, nospace,
                 rx, rcv, conn, legacy, sub>>

\* Nothing in hand: i10_host_try_send returns 0.
NoRequest ==
  /\ pc = "req"
  /\ request = NULL
  /\ pc' = "recv"
  /\ UNCHANGED <<blkVars, reqVars, caravanVars, bellVars, sockVars, peerVars,
                 send_list, request, pending, legacy, sub>>

\* result < 0 in io_work: i10_host_fail_request(queue->request) unless the
\* error is -EPIPE.  With no request in hand the worker oopses in
\* blk_mq_rq_from_pdu(NULL) and never comes back.
FailRequest ==
  /\ \/ /\ pc = "fail"
        /\ request # NULL
        /\ rq' = [rq EXCEPT ![request] = "free"]
     \/ /\ pc = "epipe"
        /\ UNCHANGED rq
  /\ request' = NULL
  /\ pc' = "idle"
  /\ UNCHANGED <<reqVars, caravanVars, bellVars, sockVars, peerVars, kind,
                 send_list, pending, legacy, sub>>

-----------------------------------------------------------------------------
(***************************************************************************)
(* i10_host_try_recv: i10_host_recv_skb chunk by chunk, until the socket   *)
(* is drained; then the loop condition of i10_host_io_work.                *)
(***************************************************************************)

Receiving == pc = "recv" /\ sub["io_work"].pc = "idle"

EndRecv ==
  \/ /\ pending
     /\ pc' = "fetch"
     /\ UNCHANGED work
  \/ /\ pending                              \* a millisecond has passed
     /\ pc' = "idle"
     /\ work' = TRUE
  \/ /\ ~pending
     /\ pc' = "idle"
     /\ UNCHANGED work

RecvDone ==
  /\ Receiving
  /\ rx = <<>>
  /\ EndRecv
  /\ pending' = FALSE
  /\ UNCHANGED <<blkVars, reqVars, caravanVars, sockVars, peerVars, send_list,
                 request, nr_req, timer, legacy, sub>>

Consume == rx # <<>> /\ rx' = Tail(rx) /\ pending' = TRUE

\* i10_host_handle_c2h_data, then i10_host_recv_data and _ddgst
RecvC2hData ==
  /\ Receiving
  /\ Consume
  /\ \/ /\ rcv.mode = "pdu"
        /\ Head(rx).kind = "c2h"
        /\ rcv' = [mode |-> "data", tag |-> Head(rx).tag,
                   left |-> Head(rx).left]
     \/ /\ rcv.mode = "data"
        /\ rcv' = IF rcv.left = 1 THEN NoRcv
                  ELSE IF rcv.left = -1 THEN rcv
                  ELSE [rcv EXCEPT !.left = @ - 1]
  /\ UNCHANGED <<blkVars, reqVars, caravanVars, bellVars, peerVars, send_list,
                 request, pc, tx, nospace, conn, legacy, sub>>

\* i10_host_handle_comp, i10_host_process_nvme_cqe
RecvRsp ==
  /\ Receiving
  /\ Consume
  /\ rcv.mode = "pdu"
  /\ Head(rx).kind = "rsp"
  /\ rq' = [rq EXCEPT ![Head(rx).tag] = "free"]
  /\ UNCHANGED <<reqVars, caravanVars, bellVars, peerVars, kind, send_list,
                 request, pc, tx, nospace, rcv, conn, legacy, sub>>

\* i10_host_handle_r2t, i10_host_setup_h2c_data_pdu
RecvR2t ==
  /\ Receiving
  /\ Consume
  /\ rcv.mode = "pdu"
  /\ Head(rx).kind = "r2t"
  /\ LET t == Head(rx).tag
     IN  /\ state' = [state EXCEPT ![t] = "h2c"]
         /\ pdu_left' = [pdu_left EXCEPT ![t] = kind[t].pages]
         /\ QueueRequest("io_work", t, kind[t])
  /\ UNCHANGED <<blkVars, caravanVars, peerVars, request, pc, tx, nospace,
                 rcv, conn, legacy>>

\* A header digest that does not verify: rd_enabled is cleared, the error
\* recovery is started and the receive context is left after the header, with
\* data_remaining still -1, so that all that follows is taken for data.
RecvError ==
  /\ Faults
  /\ Receiving
  /\ rx # <<>>
  /\ rcv.mode = "pdu"
  /\ rx' = Tail(rx)
  /\ rcv' = [mode |-> "data", tag |-> Head(rx).tag, left |-> -1]
  /\ conn' = IF conn = "up" THEN "rd_off" ELSE conn
  /\ EndRecv
  /\ pending' = FALSE
  /\ UNCHANGED <<blkVars, reqVars, caravanVars, peerVars, send_list, request,
                 nr_req, timer, tx, nospace, legacy, sub>>

-----------------------------------------------------------------------------
(***************************************************************************)
(* The socket's callbacks and the peer.                                    *)
(***************************************************************************)

\* i10_host_write_space, sk_stream_is_writeable
WriteSpace ==
  /\ nospace
  /\ conn # "down"
  /\ Wspace >= Queued(tx) \div 2
  /\ nospace' = FALSE
  /\ work' = TRUE
  /\ UNCHANGED <<blkVars, reqVars, caravanVars, workVars, peerVars, send_list,
                 request, nr_req, timer, legacy, sub, tx, rx, rcv, conn>>

\* May chunk b come after chunk a on a stream of whole PDUs?
Follows(a, b) ==
  IF a.left = 0
  THEN b.kind \in {"cmd", "h2c"}
  ELSE /\ b.kind = IF a.left = 1 /\ DataDigest THEN "ddgst" ELSE "data"
       /\ b.tag = a.tag
       /\ b.left = a.left - 1

\* The peer reads a chunk; the last one of a PDU makes it owe an answer.
PeerRead ==
  /\ conn # "down"
  /\ tx # <<>>
  /\ Follows(peer, Head(tx))
  /\ LET c == Head(tx)
         answer == IF c.kind = "cmd" /\ kind[c.tag].write
                      /\ kind[c.tag].pages > InlinePages
                   THEN "r2t" ELSE "rsp"
     IN  /\ peer' = c
         /\ owed' = IF c.left = 0 THEN owed \cup {<<c.tag, answer>>} ELSE owed
  /\ tx' = Tail(tx)
  /\ UNCHANGED <<blkVars, reqVars, caravanVars, bellVars, workVars, send_list,
                 request, legacy, sub, nospace, rx, rcv, conn>>

AnswerPdus(t, answer) ==
  IF answer = "rsp" /\ ~kind[t].write /\ kind[t].pages # 0
  THEN LET n == kind[t].pages + DdgstLen
       IN  <<Chunk("c2h", t, n)>>
           \o [i \in 1..n |-> Chunk("rdata", t, n - i)]
           \o <<Chunk("rsp", t, 0)>>
  ELSE <<Chunk(answer, t, 0)>>

\* The answer arrives: i10_host_data_ready.
PeerAnswer(t) ==
  /\ conn # "down"
  /\ \E a \in owed : /\ a[1] = t
                     /\ rx' = rx \o AnswerPdus(t, a[2])
                     /\ owed' = owed \ {a}
  /\ work' = (work \/ conn = "up")
  /\ UNCHANGED <<blkVars, reqVars, caravanVars, workVars, send_list, request,
                 nr_req, timer, legacy, sub, tx, nospace, rcv, conn, peer>>

\* The connection ends: i10_host_state_change starts the error recovery.
ConnDown ==
  /\ conn # "down"
  /\ conn' = "down"
  /\ tx' = <<>>
  /\ rx' = <<>>
  /\ owed' = {}
  /\ UNCHANGED <<blkVars, reqVars, caravanVars, bellVars, workVars, send_list,
                 request, legacy, sub, nospace, rcv, peer>>

\* The network or the peer breaks it.
ConnReset == Faults /\ ConnDown

\* The peer closes it because what it reads is not a sequence of whole PDUs.
PeerReject == tx # <<>> /\ ~Follows(peer, Head(tx)) /\ ConnDown

-----------------------------------------------------------------------------

\* i10_host_alloc_queue has run and i10_host_start_queue has set Q_LIVE.
Init ==
  /\ rq = [t \in Tags |-> "free"]
  /\ kind = [t \in Tags |-> NoKind]
  /\ state = [t \in Tags |-> "cmd"]
  /\ pdu_left = [t \in Tags |-> 0]
  /\ send_list = <<>>
  /\ request = NULL
  /\ iovs = [d \in Doors |-> <<>>]
  /\ nr_mapped = [d \in Doors |-> 0]
  /\ caravan_len = [d \in Doors |-> 0]
  /\ send_now = [d \in Doors |-> FALSE]
  /\ nr_req = [d \in Doors |-> 0]
  /\ timer = [d \in Doors |-> "off"]
  /\ legacy = FALSE
  /\ work = FALSE
  /\ pc = "idle"
  /\ pending = FALSE
  /\ sub = [c \in Ctx |-> NoSub]
  /\ tx = <<>>
  /\ nospace = FALSE
  /\ rx = <<>>
  /\ rcv = NoRcv
  /\ conn = "up"
  /\ peer = NoChunk
  /\ owed = {}

IoWork ==
  \/ IoStart \/ FetchRequest
  \/ \E d \in Doors : TrySendCaravan(d) \/ ResetCaravan(d)
  \/ NoRequest \/ NotPlaced \/ TrySendCmdPdu \/ TrySendDataPdu
  \/ TrySendData \/ TrySendDataUnset \/ TrySendDdgst \/ FailRequest
  \/ RecvDone \/ RecvC2hData \/ RecvRsp \/ RecvR2t

Peer == PeerRead \/ PeerReject \/ \E t \in Tags : PeerAnswer(t)

Next ==
  \/ \E c \in Cpus, t \in Tags, k \in Kinds : QueueRq(c, t, k)
  \/ \E c \in Ctx : Load(c) \/ Ring(c)
  \/ \E d \in Doors : TimerExpire(d) \/ TimerReturn(d)
  \/ SetDoorbellParam
  \/ IoWork
  \/ RecvError
  \/ WriteSpace
  \/ Peer
  \/ ConnReset

Spec == Init /\ [][Next]_vars

\* A queued work item runs and io_work goes on until it returns, an armed
\* hrtimer expires, a task inside i10_host_queue_request finishes it, TCP
\* reports room in the send buffer and the target answers what it has read.
Fairness ==
  /\ WF_vars(IoWork)
  /\ WF_vars(WriteSpace)
  /\ WF_vars(PeerRead \/ PeerReject)
  /\ \A t \in Tags : WF_vars(PeerAnswer(t))
  /\ \A c \in Ctx : WF_vars(Load(c) \/ Ring(c))
  /\ \A d \in Doors : WF_vars(TimerExpire(d) \/ TimerReturn(d))

FairSpec == Spec /\ Fairness

-----------------------------------------------------------------------------
(***************************************************************************)
(* Properties.                                                             *)
(***************************************************************************)

SubType == [pc : {"load", "ring"}, tag : Tags, n : Nat] \cup {NoSub}

PcType == {"idle", "fetch", "send1", "send2", "reset1", "reset2", "req",
           "recv", "fail", "epipe"}

BlkOK ==
  /\ rq \in [Tags -> {"free", "started"}]
  /\ kind \in [Tags -> KindType]

ReqOK ==
  /\ state \in [Tags -> TxKinds]
  /\ pdu_left \in [Tags -> Int]

ListOK ==
  /\ send_list \in Seq(Tags)
  /\ request \in Tags \cup {NULL}

CaravanOK ==
  /\ iovs \in [Doors -> Seq(TxChunk)]
  /\ nr_mapped \in [Doors -> Nat]
  /\ caravan_len \in [Doors -> Nat]
  /\ send_now \in [Doors -> BOOLEAN]

BellOK ==
  /\ nr_req \in [Doors -> Nat]
  /\ timer \in [Doors -> {"off", "armed", "firing"}]
  /\ work \in BOOLEAN

WorkOK == pc \in PcType /\ pending \in BOOLEAN

SubOK == sub \in [Ctx -> SubType]

SockOK ==
  /\ tx \in Seq(TxChunk)
  /\ nospace \in BOOLEAN
  /\ rx \in Seq(RxChunk)
  /\ rcv \in [mode : {"pdu", "data"}, tag : Tags \cup {NULL}, left : Int]
  /\ conn \in {"up", "rd_off", "down"}

PeerOK ==
  /\ peer \in [kind : TxKinds \cup {"none"}, tag : Tags \cup {NULL}, left : Int]
  /\ owed \in SUBSET (Tags \X {"r2t", "rsp"})

\* The type of every variable of the queue, its socket and its peer: the
\* queue's counters stay natural numbers, io_work holds a request or none, and
\* what is queued for the socket is chunks of requests.
TypeOK ==
  /\ BlkOK /\ ReqOK /\ ListOK /\ CaravanOK /\ BellOK /\ WorkOK /\ SubOK
  /\ SockOK /\ PeerOK
  /\ legacy \in BOOLEAN

\* The iovec and page arrays of a caravan, allocated by i10_host_alloc_queue
\* with 2 * aggregation size and aggregation size entries, are never indexed
\* out of bounds: whichever way a caravan fills up (headers, pages, bytes),
\* the full test comes before the store.  Caravan 2 never maps a page.
CaravanBounds ==
  /\ \A d \in Doors : /\ Len(iovs[d]) <= 2 * Agg[d]
                      /\ nr_mapped[d] <= Agg[d]
                      /\ nr_mapped[d] <= Len(iovs[d])
  /\ nr_mapped[2] = 0

\* No PDU is sent past its end: pdu_len - pdu_sent, a size_t, never goes below
\* zero, although a request is picked up again after a full caravan, and after
\* an R2T that arrives while other requests are being sent.
PduNeverOverrun == \A t \in Tags : pdu_left[t] >= 0

\* What the peer has read last and what is in the socket is a sequence of
\* whole PDUs: a header is followed by all of its own data before the next
\* header, although PDUs are cut at caravan boundaries, two caravans share
\* the socket and either may be flushed between two chunks of a request.
StreamWellFormed ==
  LET s == <<peer>> \o tx
  IN  \A i \in 1..Len(tx) : Follows(s[i], s[i+1])

\* Inside a caravan PDUs are contiguous, and a PDU that is not complete at the
\* end of a caravan is the one in hand, whose next chunk continues it.
CaravanContiguous ==
  conn # "down" =>
    \A d \in Doors :
      /\ \A i \in 1..(Len(iovs[d]) - 1) : Follows(iovs[d][i], iovs[d][i+1])
      /\ LET last == iovs[d][Len(iovs[d])]
         IN  (iovs[d] # <<>> /\ last.left # 0) =>
               (request # NULL /\ Follows(last, NextChunk(request)))

\* A request is on send_list once at most and never while it is in hand: an
\* R2T does not queue a request that still waits to be sent.
SingleOwner ==
  /\ \A i, j \in 1..Len(send_list) : send_list[i] = send_list[j] => i = j
  /\ \A i \in 1..Len(send_list) : send_list[i] # request

\* The iovecs of the caravans point into requests that are still started: no
\* completion frees a request whose PDU or pages wait in a caravan, as long as
\* the connection is up and the caravan is not being reset after its sendmsg.
CaravanOwnsRequests ==
  conn = "up" =>
    \A d \in Doors : pc # ResetPc[d] =>
      \A i \in 1..Len(iovs[d]) : rq[iovs[d][i].tag] = "started"

\* A response is only read for a request that is started.
NoSpuriousCompletion ==
  (Receiving /\ rx # <<>> /\ rcv.mode = "pdu") => rq[Head(rx).tag] = "started"

Unsent == send_list # <<>> \/ request # NULL \/ \E d \in Doors : iovs[d] # <<>>

SomethingWillRunIoWork ==
  \/ work \/ pc # "idle" \/ nospace
  \/ \E d \in Doors : timer[d] # "off"
  \/ \E c \in Ctx : sub[c].pc # "idle"
  \/ tx # <<>> \/ owed # {} \/ rx # <<>>

\* No doorbell is lost: whenever a request or a caravan waits to be sent, a
\* doorbell timer runs, io_work is queued or running, or the answer to what
\* has been sent is still to come and will run io_work.
NoLostDoorbell == conn = "up" => (Unsent => SomethingWillRunIoWork)

\* Every request that the block layer starts is completed, unless the
\* connection fails, in which case the error recovery cancels it.
EveryRequestCompletes ==
  \A t \in Tags : (rq[t] = "started") ~> (rq[t] = "free" \/ conn # "up")

=============================================================================
