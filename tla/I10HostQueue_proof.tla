------------------------- MODULE I10HostQueue_proof -------------------------
(***************************************************************************)
(* Proofs about I10HostQueue, for every set of tags, CPUs and request      *)
(* kinds, every aggregation size, capacity and buffer size, with and       *)
(* without preemption, parameter writes and faults.                        *)
(***************************************************************************)
EXTENDS I10HostQueue, SequenceTheorems, TLAPS

(***************************************************************************)
(* Type correctness.  TypeOK is a conjunction of one part per group of     *)
(* variables; an action leaves most groups unchanged, and Frame says that  *)
(* these keep their type.                                                  *)
(***************************************************************************)

\* What an action does not change keeps its type.
LEMMA Frame ==
  /\ BlkOK /\ UNCHANGED blkVars => BlkOK'
  /\ ReqOK /\ UNCHANGED reqVars => ReqOK'
  /\ CaravanOK /\ UNCHANGED caravanVars => CaravanOK'
  /\ BellOK /\ UNCHANGED bellVars => BellOK'
  /\ WorkOK /\ UNCHANGED workVars => WorkOK'
  /\ SockOK /\ UNCHANGED sockVars => SockOK'
  /\ PeerOK /\ UNCHANGED peerVars => PeerOK'
  /\ ListOK /\ UNCHANGED <<send_list, request>> => ListOK'
  /\ SubOK /\ UNCHANGED sub => SubOK'
<1>1. BlkOK /\ UNCHANGED blkVars => BlkOK'
  BY DEF BlkOK, blkVars
<1>2. ReqOK /\ UNCHANGED reqVars => ReqOK'
  BY DEF ReqOK, reqVars
<1>3. CaravanOK /\ UNCHANGED caravanVars => CaravanOK'
  BY DEF CaravanOK, caravanVars
<1>4. BellOK /\ UNCHANGED bellVars => BellOK'
  BY DEF BellOK, bellVars
<1>5. WorkOK /\ UNCHANGED workVars => WorkOK'
  BY DEF WorkOK, workVars
<1>6. SockOK /\ UNCHANGED sockVars => SockOK'
  BY DEF SockOK, sockVars
<1>7. PeerOK /\ UNCHANGED peerVars => PeerOK'
  BY DEF PeerOK, peerVars
<1>8. ListOK /\ UNCHANGED <<send_list, request>> => ListOK'
  BY DEF ListOK
<1>9. SubOK /\ UNCHANGED sub => SubOK'
  BY DEF SubOK
<1> QED BY <1>1, <1>2, <1>3, <1>4, <1>5, <1>6, <1>7, <1>8, <1>9

\* The queue starts with every variable in its type.
LEMMA InitType == Init => TypeOK
<1> SUFFICES ASSUME Init PROVE TypeOK
  OBVIOUS
<1>1. NoKind \in KindType /\ NoSub \in SubType
  BY DEF NoKind, KindType, SubType
<1>2. BlkOK
  BY <1>1 DEF Init, BlkOK
<1>3. ReqOK /\ ListOK
  <2>1. /\ state = [t \in Tags |-> "cmd"] /\ pdu_left = [t \in Tags |-> 0]
        /\ send_list = <<>> /\ request = NULL
    BY DEF Init
  <2> QED BY <2>1 DEF ReqOK, ListOK, TxKinds
<1>4. CaravanOK /\ BellOK /\ WorkOK
  <2>1. CaravanOK
    <3>1. /\ iovs = [d \in Doors |-> <<>>]
          /\ nr_mapped = [d \in Doors |-> 0]
          /\ caravan_len = [d \in Doors |-> 0]
          /\ send_now = [d \in Doors |-> FALSE]
      BY DEF Init
    <3> QED BY <3>1 DEF CaravanOK
  <2>2. BellOK
    <3>1. /\ nr_req = [d \in Doors |-> 0]
          /\ timer = [d \in Doors |-> "off"]
          /\ work = FALSE
      BY DEF Init
    <3> QED BY <3>1 DEF BellOK
  <2>3. WorkOK
    BY DEF Init, WorkOK, PcType
  <2> QED BY <2>1, <2>2, <2>3
<1>5. SubOK
  <2>1. sub = [c \in Ctx |-> NoSub]
    BY DEF Init
  <2> QED BY <1>1, <2>1 DEF SubOK
<1>6. SockOK /\ PeerOK
  <2>1. /\ tx = <<>> /\ nospace = FALSE /\ rx = <<>> /\ rcv = NoRcv
        /\ conn = "up" /\ peer = NoChunk /\ owed = {}
    BY DEF Init
  <2>2. SockOK
    <3>1. NoRcv \in [mode : {"pdu", "data"}, tag : Tags \cup {NULL},
                      left : Int]
      BY DEF NoRcv
    <3>2. tx \in Seq(TxChunk) /\ rx \in Seq(RxChunk)
      BY <2>1
    <3> QED BY <2>1, <3>1, <3>2 DEF SockOK
  <2>3. PeerOK
    BY <2>1 DEF PeerOK, NoChunk
  <2> QED BY <2>2, <2>3
<1>7. legacy \in BOOLEAN
  BY DEF Init
<1> QED BY <1>2, <1>3, <1>4, <1>5, <1>6, <1>7 DEF TypeOK

\* A doorbell only moves the counter, the timer and the work item.
LEMMA DoorbellType ==
  ASSUME NEW k \in KindType, NEW n \in Nat, BellOK, Doorbell(k, n)
  PROVE  BellOK'
<1>1. Door(k) \in Doors
  BY DEF Door, Doors
<1>2. /\ nr_req' \in {nr_req, [nr_req EXCEPT ![Door(k)] = n]}
      /\ timer' \in {timer, [timer EXCEPT ![Door(k)] = "armed"],
                     [timer EXCEPT ![Door(k)] = "off"]}
      /\ work' \in {work, TRUE}
  BY DEF Doorbell
<1> QED BY <1>1, <1>2 DEF BellOK

LEMMA IncrementedType ==
  ASSUME NEW d \in Doors, BellOK
  PROVE  Incremented(d) \in Nat
BY ConstantsAssumption DEF Incremented, BellOK

\* i10_host_queue_request: the list, then the doorbell or the preempted context
LEMMA QueueRequestType ==
  ASSUME NEW c \in Ctx, NEW t \in Tags, NEW k \in KindType, TypeOK,
         QueueRequest(c, t, k)
  PROVE  send_list' \in Seq(Tags) /\ BellOK' /\ SubOK'
<1>1. Door(k) \in Doors
  BY DEF Door, Doors
<1>2. Incremented(Door(k)) \in Nat
  BY <1>1, IncrementedType DEF TypeOK
<1>3. send_list' \in Seq(Tags)
  BY DEF QueueRequest, TypeOK, ListOK
<1>4. CASE Preemptible
  <2>1. /\ sub' = [sub EXCEPT ![c] = [pc |-> "load", tag |-> t, n |-> 0]]
        /\ UNCHANGED bellVars
    BY <1>4 DEF QueueRequest
  <2>2. SubOK'
    BY <2>1 DEF TypeOK, SubOK, SubType
  <2> QED BY <1>3, <2>1, <2>2, Frame DEF TypeOK
<1>5. CASE ~Preemptible
  <2>1. Doorbell(k, Incremented(Door(k))) /\ UNCHANGED sub
    BY <1>5 DEF QueueRequest
  <2> QED BY <1>2, <1>3, <2>1, DoorbellType, Frame DEF TypeOK
<1> QED BY <1>4, <1>5

\* What Place appends is a chunk of the request in hand.
LEMMA NextChunkType ==
  ASSUME NEW t \in Tags, BlkOK, ReqOK
  PROVE  /\ NextChunk(t) \in TxChunk
         /\ CaravanOf(t) \in Doors
         /\ ChunkLen(NextChunk(t)) \in Nat
<1>1. kind[t] \in KindType /\ state[t] \in TxKinds /\ pdu_left[t] \in Int
  BY DEF BlkOK, ReqOK
<1>2. DdgstLen \in Nat
  BY DEF DdgstLen
<1>3. CmdLeft(kind[t]) \in Int /\ H2cLeft(kind[t]) \in Int
  BY <1>1, <1>2 DEF CmdLeft, H2cLeft, KindType
<1>4. NextChunk(t) \in TxChunk
  BY <1>1, <1>2, <1>3 DEF NextChunk, Chunk, TxChunk, TxKinds
<1>5. CaravanOf(t) \in Doors
  BY DEF CaravanOf, Door, Doors
<1>6. ChunkLen(NextChunk(t)) \in Nat
  BY ConstantsAssumption DEF ChunkLen
<1> QED BY <1>4, <1>5, <1>6

\* Placing a chunk keeps the caravans and the socket well typed.
LEMMA PlaceType ==
  ASSUME NEW t \in Tags, TypeOK, Place(t)
  PROVE  CaravanOK' /\ tx' \in Seq(TxChunk)
<1> DEFINE c == NextChunk(t)
           d == CaravanOf(t)
<1>1. c \in TxChunk /\ d \in Doors /\ ChunkLen(c) \in Nat
  BY NextChunkType DEF TypeOK
<1>2. CASE Direct(t)
  <2>1. tx' = Append(tx, c) /\ UNCHANGED caravanVars
    BY <1>2 DEF Place
  <2> HIDE DEF c, d
  <2>2. tx' \in Seq(TxChunk)
    BY <1>1, <2>1 DEF TypeOK, SockOK
  <2> QED BY <2>1, <2>2, Frame DEF TypeOK
<1>3. CASE ~Direct(t)
  <2>1. /\ iovs' = [iovs EXCEPT ![d] = Append(@, c)]
        /\ \/ nr_mapped' = [nr_mapped EXCEPT ![d] = @ + 1]
           \/ nr_mapped' = nr_mapped
        /\ caravan_len' = [caravan_len EXCEPT ![d] = @ + ChunkLen(c)]
        /\ \/ send_now' = [send_now EXCEPT ![d] = TRUE]
           \/ send_now' = send_now
        /\ tx' = tx
    BY <1>3 DEF Place
  <2> HIDE DEF c, d
  <2>2. iovs' \in [Doors -> Seq(TxChunk)]
    BY <1>1, <2>1 DEF TypeOK, CaravanOK
  <2>3. nr_mapped' \in [Doors -> Nat]
    BY <1>1, <2>1 DEF TypeOK, CaravanOK
  <2>4. caravan_len' \in [Doors -> Nat]
    BY <1>1, <2>1 DEF TypeOK, CaravanOK
  <2>5. send_now' \in [Doors -> BOOLEAN]
    BY <1>1, <2>1 DEF TypeOK, CaravanOK
  <2> QED BY <2>1, <2>2, <2>3, <2>4, <2>5 DEF TypeOK, CaravanOK, SockOK
<1> QED BY <1>2, <1>3


\* The submitting contexts, the timers and the parameter
LEMMA LoadType == ASSUME NEW c \in Ctx, TypeOK, Load(c) PROVE TypeOK'
<1>1. sub[c] \in [pc : {"load", "ring"}, tag : Tags, n : Nat]
  BY DEF Load, TypeOK, SubOK, SubType, NoSub
<1>2. Door(kind[sub[c].tag]) \in Doors
  BY DEF Door, Doors
<1>3. Incremented(Door(kind[sub[c].tag])) \in Nat
  BY <1>2, IncrementedType DEF TypeOK
<1>4. sub' = [sub EXCEPT ![c].pc = "ring",
                         ![c].n = Incremented(Door(kind[sub[c].tag]))]
  BY DEF Load
<1> HIDE DEF Incremented
<1>5. SubOK'
  BY <1>1, <1>3, <1>4 DEF TypeOK, SubOK, SubType
<1> QED BY <1>5, Frame DEF Load, TypeOK

LEMMA RingType == ASSUME NEW c \in Ctx, TypeOK, Ring(c) PROVE TypeOK'
<1>0. sub[c] \in [pc : {"load", "ring"}, tag : Tags, n : Nat]
  BY DEF Ring, TypeOK, SubOK, SubType, NoSub
<1>1. kind[sub[c].tag] \in KindType /\ sub[c].n \in Nat
  BY <1>0 DEF TypeOK, BlkOK
<1>2. BellOK'
  BY <1>1, DoorbellType DEF Ring, TypeOK
<1>3. SubOK'
  BY DEF Ring, TypeOK, SubOK, SubType
<1> QED BY <1>2, <1>3, Frame DEF Ring, TypeOK

LEMMA QueueRqType ==
  ASSUME NEW c \in Cpus, NEW t \in Tags, NEW k \in Kinds, TypeOK,
         QueueRq(c, t, k)
  PROVE  TypeOK'
<1>1. k \in KindType /\ c \in Ctx
  BY ConstantsAssumption DEF Ctx
<1>2. send_list' \in Seq(Tags) /\ BellOK' /\ SubOK'
  BY <1>1, QueueRequestType DEF QueueRq
<1>3. BlkOK'
  BY <1>1 DEF QueueRq, TypeOK, BlkOK
<1>4. ReqOK'
  BY <1>1 DEF QueueRq, TypeOK, ReqOK, KindType, TxKinds
<1>5. ListOK'
  BY <1>2 DEF QueueRq, TypeOK, ListOK
<1> QED BY <1>2, <1>3, <1>4, <1>5, Frame DEF QueueRq, TypeOK

LEMMA TimerType ==
  ASSUME NEW d \in Doors, TypeOK, TimerExpire(d) \/ TimerReturn(d)
  PROVE  TypeOK'
<1>1. BellOK'
  BY DEF TimerExpire, TimerReturn, TypeOK, BellOK
<1> QED BY <1>1, Frame DEF TimerExpire, TimerReturn, TypeOK

LEMMA SetDoorbellParamType ==
  ASSUME TypeOK, SetDoorbellParam PROVE TypeOK'
BY Frame DEF SetDoorbellParam, TypeOK

\* io_work, the send half
LEMMA IoStartType == ASSUME TypeOK, IoStart PROVE TypeOK'
<1>1. BellOK' /\ WorkOK'
  BY DEF IoStart, TypeOK, BellOK, WorkOK, PcType
<1> QED BY <1>1, Frame DEF IoStart, TypeOK

LEMMA FetchRequestType == ASSUME TypeOK, FetchRequest PROVE TypeOK'
<1>1. ListOK'
  BY DEF FetchRequest, TakeRequest, TypeOK, ListOK
<1>2. WorkOK'
  BY DEF FetchRequest, TypeOK, WorkOK, PcType, SendPc
<1> QED BY <1>1, <1>2, Frame DEF FetchRequest, TypeOK

LEMMA TrySendCaravanType ==
  ASSUME NEW d \in Doors, TypeOK, TrySendCaravan(d) PROVE TypeOK'
<1>1. WorkOK'
  BY DEF TrySendCaravan, TypeOK, WorkOK, PcType, AfterCaravan, SendPc, ResetPc,
         SendErrors, Doors
<1>2. iovs[d] \in Seq(TxChunk)
  BY DEF TypeOK, CaravanOK
<1>3. /\ tx' \in {tx, tx \o iovs[d]}
      /\ nospace' \in {nospace, TRUE}
      /\ UNCHANGED <<rx, rcv, conn>>
  BY DEF TrySendCaravan
<1>4. SockOK'
  <2>1. tx \o iovs[d] \in Seq(TxChunk)
    BY <1>2, ConcatProperties DEF TypeOK, SockOK
  <2> QED BY <1>3, <2>1 DEF TypeOK, SockOK
<1> QED BY <1>1, <1>4, Frame DEF TrySendCaravan, TypeOK

LEMMA ResetCaravanType ==
  ASSUME NEW d \in Doors, TypeOK, ResetCaravan(d) PROVE TypeOK'
<1>1. CaravanOK'
  BY DEF ResetCaravan, EmptyCaravan, TypeOK, CaravanOK
<1>2. BellOK'
  BY DEF ResetCaravan, TypeOK, BellOK
<1>3. WorkOK'
  BY DEF ResetCaravan, TypeOK, WorkOK, PcType, AfterCaravan, SendPc
<1> QED BY <1>1, <1>2, <1>3, Frame DEF ResetCaravan, TypeOK

LEMMA NoRequestType == ASSUME TypeOK, NoRequest PROVE TypeOK'
<1>1. WorkOK'
  BY DEF NoRequest, TypeOK, WorkOK, PcType
<1> QED BY <1>1, Frame DEF NoRequest, TypeOK

LEMMA NotPlacedType == ASSUME TypeOK, NotPlaced PROVE TypeOK'
<1>1. request \in Tags
  BY DEF NotPlaced, TypeOK, ListOK
<1>2. CaravanOf(request) \in Doors
  BY DEF CaravanOf, Door, Doors
<1>3. /\ send_now' \in {send_now,
                        [send_now EXCEPT ![CaravanOf(request)] = TRUE]}
      /\ pc' \in SendErrors \cup {"recv"}
      /\ pending' \in {pending, TRUE}
      /\ nospace' \in {nospace, TRUE}
  BY DEF NotPlaced
<1>4. CaravanOK'
  BY <1>2, <1>3 DEF NotPlaced, TypeOK, CaravanOK
<1>5. WorkOK'
  BY <1>3 DEF TypeOK, WorkOK, PcType, SendErrors
<1>6. SockOK'
  BY <1>3 DEF NotPlaced, TypeOK, SockOK
<1> QED BY <1>4, <1>5, <1>6, Frame DEF NotPlaced, TypeOK

\* One step of a request in hand: a chunk is placed, the request moves on to
\* its next state or is done.
LEMMA AdvanceType ==
  ASSUME NEW t \in Tags, TypeOK, Advance(t)
  PROVE  ReqOK' /\ request' \in Tags \cup {NULL} /\ WorkOK'
<1>1. /\ pdu_left' = [pdu_left EXCEPT ![t] = @ - 1]
      /\ state' \in {state, [state EXCEPT ![t] = "ddgst"]}
      /\ request' \in {request, NULL}
      /\ pc' \in {pc, "recv"}
      /\ pending' \in {pending, TRUE}
  BY DEF Advance, DoneSendReq
<1>2. ReqOK'
  BY <1>1 DEF TypeOK, ReqOK, TxKinds
<1>3. WorkOK'
  BY <1>1 DEF TypeOK, WorkOK, PcType
<1> QED BY <1>1, <1>2, <1>3 DEF TypeOK, ListOK

LEMMA TrySendCmdPduType == ASSUME TypeOK, TrySendCmdPdu PROVE TypeOK'
<1>1. request \in Tags
  BY DEF TrySendCmdPdu, InHand, TypeOK, ListOK
<1>2. CaravanOK' /\ tx' \in Seq(TxChunk)
  BY <1>1, PlaceType DEF TrySendCmdPdu
<1>3. /\ state' \in {state, [state EXCEPT ![request] = "data"]}
      /\ request' \in {request, NULL}
      /\ pc' \in {pc, "recv"}
      /\ pending' \in {pending, TRUE}
  BY DEF TrySendCmdPdu, DoneSendReq
<1>4. ReqOK'
  BY <1>3 DEF TrySendCmdPdu, TypeOK, ReqOK, TxKinds
<1>5. ListOK' /\ WorkOK'
  BY <1>3 DEF TrySendCmdPdu, TypeOK, ListOK, WorkOK, PcType
<1>6. SockOK'
  BY <1>2 DEF TrySendCmdPdu, TypeOK, SockOK
<1> QED BY <1>2, <1>4, <1>5, <1>6, Frame DEF TrySendCmdPdu, TypeOK

LEMMA TrySendDataPduType == ASSUME TypeOK, TrySendDataPdu PROVE TypeOK'
<1>1. request \in Tags
  BY DEF TrySendDataPdu, InHand, TypeOK, ListOK
<1>2. CaravanOK' /\ tx' \in Seq(TxChunk)
  BY <1>1, PlaceType DEF TrySendDataPdu
<1>3. ReqOK'
  BY DEF TrySendDataPdu, TypeOK, ReqOK, TxKinds
<1>4. SockOK'
  BY <1>2 DEF TrySendDataPdu, TypeOK, SockOK
<1> QED BY <1>2, <1>3, <1>4, Frame DEF TrySendDataPdu, TypeOK

LEMMA TrySendDataType == ASSUME TypeOK, TrySendData PROVE TypeOK'
<1>1. request \in Tags
  BY DEF TrySendData, InHand, TypeOK, ListOK
<1>2. CaravanOK' /\ tx' \in Seq(TxChunk)
  BY <1>1, PlaceType DEF TrySendData
<1>3. ReqOK' /\ request' \in Tags \cup {NULL} /\ WorkOK'
  BY <1>1, AdvanceType DEF TrySendData
<1>4. ListOK'
  BY <1>3 DEF TrySendData, TypeOK, ListOK
<1>5. SockOK'
  BY <1>2 DEF TrySendData, TypeOK, SockOK
<1> QED BY <1>2, <1>3, <1>4, <1>5, Frame DEF TrySendData, TypeOK

LEMMA TrySendDataUnsetType == ASSUME TypeOK, TrySendDataUnset PROVE TypeOK'
<1>1. request \in Tags
  BY DEF TrySendDataUnset, InHand, TypeOK, ListOK
<1>2. ReqOK' /\ request' \in Tags \cup {NULL} /\ WorkOK'
  <2>1. CASE Advance(request)
    BY <1>1, <2>1, AdvanceType
  <2>2. CASE /\ pc' \in SendErrors \cup {"recv"}
             /\ UNCHANGED <<state, pdu_left, request, pending>>
    BY <1>1, <2>2, Frame DEF TypeOK, WorkOK, PcType, SendErrors, reqVars
  <2> QED BY <2>1, <2>2 DEF TrySendDataUnset
<1>3. ListOK'
  BY <1>2 DEF TrySendDataUnset, TypeOK, ListOK
<1> QED BY <1>2, <1>3, Frame DEF TrySendDataUnset, TypeOK

LEMMA TrySendDdgstType == ASSUME TypeOK, TrySendDdgst PROVE TypeOK'
<1>1. request \in Tags
  BY DEF TrySendDdgst, InHand, TypeOK, ListOK
<1>2. CaravanOK' /\ tx' \in Seq(TxChunk)
  BY <1>1, PlaceType DEF TrySendDdgst
<1>3. ListOK' /\ WorkOK'
  BY DEF TrySendDdgst, DoneSendReq, TypeOK, ListOK, WorkOK, PcType
<1>4. SockOK'
  BY <1>2 DEF TrySendDdgst, TypeOK, SockOK
<1> QED BY <1>2, <1>3, <1>4, Frame DEF TrySendDdgst, TypeOK

LEMMA FailRequestType == ASSUME TypeOK, FailRequest PROVE TypeOK'
<1>1. rq' \in {rq, [rq EXCEPT ![request] = "free"]}
  BY DEF FailRequest
<1>2. BlkOK'
  BY <1>1 DEF FailRequest, TypeOK, BlkOK
<1>3. ListOK' /\ WorkOK'
  BY DEF FailRequest, TypeOK, ListOK, WorkOK, PcType
<1> QED BY <1>2, <1>3, Frame DEF FailRequest, TypeOK


\* io_work, the receive half
LEMMA EndRecvType ==
  ASSUME TypeOK, EndRecv, pending' = FALSE, UNCHANGED <<nr_req, timer>>
  PROVE  WorkOK' /\ BellOK'
<1>1. pc' \in {"fetch", "idle"} /\ work' \in {work, TRUE}
  BY DEF EndRecv
<1> QED BY <1>1 DEF TypeOK, WorkOK, BellOK, PcType

LEMMA RecvDoneType == ASSUME TypeOK, RecvDone PROVE TypeOK'
BY EndRecvType, Frame DEF RecvDone, TypeOK

LEMMA ConsumeType ==
  ASSUME TypeOK, Consume
  PROVE  /\ Head(rx) \in RxChunk
         /\ rx' \in Seq(RxChunk)
         /\ pending' \in BOOLEAN
<1>1. rx \in Seq(RxChunk) /\ rx # <<>> /\ rx' = Tail(rx) /\ pending' = TRUE
  BY DEF Consume, TypeOK, SockOK
<1> QED BY <1>1, HeadTailProperties

LEMMA RecvC2hDataType == ASSUME TypeOK, RecvC2hData PROVE TypeOK'
<1>1. /\ Head(rx) \in RxChunk
      /\ rx' \in Seq(RxChunk)
      /\ pending' \in BOOLEAN
  BY ConsumeType DEF RecvC2hData
<1>2. rcv' \in [mode : {"pdu", "data"}, tag : Tags \cup {NULL}, left : Int]
  <2>1. rcv \in [mode : {"pdu", "data"}, tag : Tags \cup {NULL}, left : Int]
    BY DEF TypeOK, SockOK
  <2>2. \/ rcv' = [mode |-> "data", tag |-> Head(rx).tag,
                   left |-> Head(rx).left]
        \/ rcv' = NoRcv
        \/ rcv' = rcv
        \/ rcv' = [rcv EXCEPT !.left = @ - 1]
    BY DEF RecvC2hData
  <2> QED BY <1>1, <2>1, <2>2 DEF NoRcv, RxChunk
<1>3. SockOK'
  BY <1>1, <1>2 DEF RecvC2hData, TypeOK, SockOK
<1>4. WorkOK'
  BY <1>1 DEF RecvC2hData, TypeOK, WorkOK
<1> QED BY <1>3, <1>4, Frame DEF RecvC2hData, TypeOK

LEMMA RecvRspType == ASSUME TypeOK, RecvRsp PROVE TypeOK'
<1>1. /\ Head(rx) \in RxChunk
      /\ rx' \in Seq(RxChunk)
      /\ pending' \in BOOLEAN
  BY ConsumeType DEF RecvRsp
<1>2. BlkOK'
  BY DEF RecvRsp, TypeOK, BlkOK
<1>3. SockOK'
  BY <1>1 DEF RecvRsp, TypeOK, SockOK
<1>4. WorkOK'
  BY <1>1 DEF RecvRsp, TypeOK, WorkOK
<1> QED BY <1>2, <1>3, <1>4, Frame DEF RecvRsp, TypeOK

LEMMA RecvR2tType == ASSUME TypeOK, RecvR2t PROVE TypeOK'
<1> DEFINE t == Head(rx).tag
<1>1. /\ Head(rx) \in RxChunk
      /\ rx' \in Seq(RxChunk)
      /\ pending' \in BOOLEAN
  BY ConsumeType DEF RecvR2t
<1>2. t \in Tags /\ kind[t] \in KindType /\ "io_work" \in Ctx
  BY <1>1 DEF TypeOK, BlkOK, RxChunk, Ctx
<1>3. /\ state' = [state EXCEPT ![t] = "h2c"]
      /\ pdu_left' = [pdu_left EXCEPT ![t] = kind[t].pages]
      /\ QueueRequest("io_work", t, kind[t])
  BY DEF RecvR2t
<1>4. send_list' \in Seq(Tags) /\ BellOK' /\ SubOK'
  BY <1>2, <1>3, QueueRequestType
<1>5. ReqOK'
  BY <1>2, <1>3 DEF TypeOK, ReqOK, TxKinds, KindType
<1>6. ListOK'
  BY <1>4 DEF RecvR2t, TypeOK, ListOK
<1>7. SockOK'
  BY <1>1 DEF RecvR2t, TypeOK, SockOK
<1>8. WorkOK'
  BY <1>1 DEF RecvR2t, TypeOK, WorkOK
<1> QED BY <1>4, <1>5, <1>6, <1>7, <1>8, Frame DEF RecvR2t, TypeOK

LEMMA RecvErrorType == ASSUME TypeOK, RecvError PROVE TypeOK'
<1>1. rx \in Seq(RxChunk) /\ rx # <<>> /\ rx' = Tail(rx)
  BY DEF RecvError, TypeOK, SockOK
<1>2. Head(rx) \in RxChunk /\ rx' \in Seq(RxChunk)
  BY <1>1, HeadTailProperties
<1>3. rcv' \in [mode : {"pdu", "data"}, tag : Tags \cup {NULL}, left : Int]
  BY <1>2 DEF RecvError, RxChunk
<1>4. conn' \in {conn, "rd_off"} /\ UNCHANGED <<tx, nospace>>
  BY DEF RecvError
<1>5. SockOK'
  BY <1>2, <1>3, <1>4 DEF TypeOK, SockOK
<1> QED BY <1>5, EndRecvType, Frame DEF RecvError, TypeOK

\* The socket's callbacks and the peer
LEMMA WriteSpaceType == ASSUME TypeOK, WriteSpace PROVE TypeOK'
<1>1. BellOK' /\ SockOK'
  BY DEF WriteSpace, TypeOK, BellOK, SockOK
<1> QED BY <1>1, Frame DEF WriteSpace, TypeOK

LEMMA PeerReadType == ASSUME TypeOK, PeerRead PROVE TypeOK'
<1> DEFINE c == Head(tx)
<1>1. tx \in Seq(TxChunk) /\ tx # <<>> /\ tx' = Tail(tx)
  BY DEF PeerRead, TypeOK, SockOK
<1>2. c \in TxChunk /\ tx' \in Seq(TxChunk)
  BY <1>1, HeadTailProperties
<1>3. /\ peer' = c
      /\ owed' \in {owed, owed \cup {<<c.tag, "r2t">>},
                    owed \cup {<<c.tag, "rsp">>}}
  BY DEF PeerRead
<1>4. PeerOK'
  BY <1>2, <1>3 DEF TypeOK, PeerOK, TxChunk
<1>5. SockOK'
  BY <1>2 DEF PeerRead, TypeOK, SockOK
<1> QED BY <1>4, <1>5, Frame DEF PeerRead, TypeOK

LEMMA AnswerPdusType ==
  ASSUME NEW t \in Tags, NEW a \in {"r2t", "rsp"}, TypeOK
  PROVE  AnswerPdus(t, a) \in Seq(RxChunk)
<1>1. kind[t].pages \in Nat /\ DdgstLen \in Nat
  BY DEF TypeOK, BlkOK, KindType, DdgstLen
<1>2. <<Chunk(a, t, 0)>> \in Seq(RxChunk)
  BY DEF Chunk, RxChunk, RxKinds
<1>3. <<Chunk("rsp", t, 0)>> \in Seq(RxChunk)
  BY DEF Chunk, RxChunk, RxKinds
<1> DEFINE n == kind[t].pages + DdgstLen
           data == [i \in 1..n |-> Chunk("rdata", t, n - i)]
<1>4. n \in Nat
  BY <1>1
<1> HIDE DEF n
<1>5. <<Chunk("c2h", t, n)>> \in Seq(RxChunk)
  BY <1>4 DEF Chunk, RxChunk, RxKinds
<1>6. \A i \in 1..n : Chunk("rdata", t, n - i) \in RxChunk
  BY <1>4 DEF Chunk, RxChunk, RxKinds
<1>7. data \in Seq(RxChunk)
  BY <1>4, <1>6
<1> HIDE DEF data
<1>8. <<Chunk("c2h", t, n)>> \o data \o <<Chunk("rsp", t, 0)>> \in Seq(RxChunk)
  BY <1>3, <1>5, <1>7, ConcatProperties
<1> QED BY <1>2, <1>8 DEF AnswerPdus, n, data

LEMMA PeerAnswerType ==
  ASSUME NEW t \in Tags, TypeOK, PeerAnswer(t) PROVE TypeOK'
<1>1. PICK a \in owed : /\ a[1] = t
                        /\ rx' = rx \o AnswerPdus(t, a[2])
                        /\ owed' = owed \ {a}
  BY DEF PeerAnswer
<1>2. a[2] \in {"r2t", "rsp"}
  BY DEF TypeOK, PeerOK
<1>3. rx' \in Seq(RxChunk)
  BY <1>1, <1>2, AnswerPdusType, ConcatProperties DEF TypeOK, SockOK
<1>4. SockOK'
  BY <1>3 DEF PeerAnswer, TypeOK, SockOK
<1>5. PeerOK'
  BY <1>1 DEF PeerAnswer, TypeOK, PeerOK
<1>6. BellOK'
  BY DEF PeerAnswer, TypeOK, BellOK
<1> QED BY <1>4, <1>5, <1>6, Frame DEF PeerAnswer, TypeOK

LEMMA ConnDownType == ASSUME TypeOK, ConnDown PROVE TypeOK'
<1>1. SockOK' /\ PeerOK'
  BY DEF ConnDown, TypeOK, SockOK, PeerOK
<1> QED BY <1>1, Frame DEF ConnDown, TypeOK

LEMMA NextType == ASSUME TypeOK, [Next]_vars PROVE TypeOK'
<1>1. CASE Next
  <2>1. ASSUME NEW c \in Cpus, NEW t \in Tags, NEW k \in Kinds,
               QueueRq(c, t, k)
        PROVE  TypeOK'
    BY <2>1, QueueRqType
  <2>2. ASSUME NEW c \in Ctx, Load(c) \/ Ring(c) PROVE TypeOK'
    BY <2>2, LoadType, RingType
  <2>3. ASSUME NEW d \in Doors, TimerExpire(d) \/ TimerReturn(d)
        PROVE  TypeOK'
    BY <2>3, TimerType
  <2>4. CASE SetDoorbellParam
    BY <2>4, SetDoorbellParamType
  <2>5. CASE IoWork
    <3>1. ASSUME NEW d \in Doors, TrySendCaravan(d) \/ ResetCaravan(d)
          PROVE  TypeOK'
      BY <3>1, TrySendCaravanType, ResetCaravanType
    <3> QED
      BY <2>5, <3>1, IoStartType, FetchRequestType, NoRequestType,
         NotPlacedType, TrySendCmdPduType, TrySendDataPduType,
         TrySendDataType, TrySendDataUnsetType, TrySendDdgstType,
         FailRequestType, RecvDoneType, RecvC2hDataType, RecvRspType,
         RecvR2tType DEF IoWork
  <2>6. CASE RecvError
    BY <2>6, RecvErrorType
  <2>7. CASE WriteSpace
    BY <2>7, WriteSpaceType
  <2>8. CASE Peer
    BY <2>8, PeerReadType, PeerAnswerType, ConnDownType DEF Peer, PeerReject
  <2>9. CASE ConnReset
    BY <2>9, ConnDownType DEF ConnReset
  <2> QED BY <1>1, <2>1, <2>2, <2>3, <2>4, <2>5, <2>6, <2>7, <2>8, <2>9 DEF Next
<1>2. CASE UNCHANGED vars
  <2>1. UNCHANGED <<blkVars, reqVars, caravanVars, bellVars, workVars,
                    sockVars, peerVars, send_list, request, legacy, sub>>
    BY <1>2 DEF vars, blkVars, reqVars, caravanVars, bellVars, workVars,
                sockVars, peerVars
  <2> QED BY <2>1, Frame DEF TypeOK
<1> QED BY <1>1, <1>2

\* Every variable of the queue, of its socket and of its peer keeps its type,
\* whatever the submitters, timers, io_work and the peer do: TypeOK is
\* inductive.
THEOREM TypeCorrect == Spec => []TypeOK
<1>1. Init => TypeOK
  BY InitType
<1>2. TypeOK /\ [Next]_vars => TypeOK'
  BY NextType
<1> QED BY <1>1, <1>2, PTL DEF Spec


(***************************************************************************)
(* The arrays of the caravans.                                             *)
(***************************************************************************)

LEMMA PlaceBounds ==
  ASSUME NEW t \in Tags, TypeOK, CaravanBounds, Place(t)
  PROVE  CaravanBounds'
<1> DEFINE c == NextChunk(t)
           e == CaravanOf(t)
<1>1. CASE Direct(t)
  BY <1>1 DEF Place, caravanVars, CaravanBounds
<1>2. CASE ~Direct(t)
  <2>1. /\ ~IsCaravanFull(e)
        /\ iovs' = [iovs EXCEPT ![e] = Append(@, c)]
        /\ nr_mapped' = IF c.kind = "data"
                        THEN [nr_mapped EXCEPT ![e] = @ + 1] ELSE nr_mapped
    BY <1>2 DEF Place
  <2>2. e \in Doors /\ c \in TxChunk
    BY NextChunkType DEF TypeOK
  <2>3. c.kind = "data" => e = 1
    BY DEF NextChunk, Chunk, CaravanOf, TypeOK, ReqOK, TxKinds
  <2> HIDE DEF c, e
  <2>4. \A d \in Doors : /\ iovs[d] \in Seq(TxChunk) /\ nr_mapped[d] \in Nat
                         /\ caravan_len[d] \in Nat
                         /\ Agg[d] \in Nat /\ Capacity[d] \in Nat
    BY ConstantsAssumption DEF TypeOK, CaravanOK
  <2>5. Len(iovs[e]) < 2 * Agg[e] /\ nr_mapped[e] < Agg[e]
    <3>1. Len(iovs[e]) \in Nat /\ nr_mapped[e] \in Nat /\ Agg[e] \in Nat
      BY <2>2, <2>4, LenProperties
    <3>2. ~(Len(iovs[e]) >= 2 * Agg[e]) /\ ~(nr_mapped[e] >= Agg[e])
      BY <2>1 DEF IsCaravanFull
    <3> QED BY <3>1, <3>2
  <2>6. /\ iovs'[e] = Append(iovs[e], c)
        /\ Len(iovs'[e]) = Len(iovs[e]) + 1
        /\ \A d \in Doors : d # e => iovs'[d] = iovs[d]
    BY <2>1, <2>2, <2>4, AppendProperties DEF TypeOK, CaravanOK
  <2>7. /\ nr_mapped'[e] \in {nr_mapped[e], nr_mapped[e] + 1}
        /\ \A d \in Doors : d # e => nr_mapped'[d] = nr_mapped[d]
        /\ e = 2 => nr_mapped'[2] = nr_mapped[2]
    BY <2>1, <2>2, <2>3 DEF TypeOK, CaravanOK
  <2>8. \A d \in Doors : /\ Len(iovs'[d]) <= 2 * Agg[d]
                         /\ nr_mapped'[d] <= Agg[d]
                         /\ nr_mapped'[d] <= Len(iovs'[d])
    <3> SUFFICES ASSUME NEW d \in Doors
                 PROVE  /\ Len(iovs'[d]) <= 2 * Agg[d]
                        /\ nr_mapped'[d] <= Agg[d]
                        /\ nr_mapped'[d] <= Len(iovs'[d])
      OBVIOUS
    <3>1. Len(iovs[d]) \in Nat
      BY <2>4, LenProperties
    <3> QED BY <2>4, <2>5, <2>6, <2>7, <3>1 DEF CaravanBounds
  <2>9. nr_mapped'[2] = 0
    BY <2>2, <2>7 DEF CaravanBounds, Doors
  <2> QED BY <2>8, <2>9 DEF CaravanBounds
<1> QED BY <1>1, <1>2

LEMMA ResetCaravanBounds ==
  ASSUME NEW e \in Doors, TypeOK, CaravanBounds, ResetCaravan(e)
  PROVE  CaravanBounds'
<1>1. /\ iovs' = [iovs EXCEPT ![e] = <<>>]
      /\ nr_mapped' = [nr_mapped EXCEPT ![e] = 0]
  BY DEF ResetCaravan, EmptyCaravan
<1>2. /\ iovs'[e] = <<>> /\ nr_mapped'[e] = 0
      /\ \A d \in Doors : d # e => iovs'[d] = iovs[d]
                                   /\ nr_mapped'[d] = nr_mapped[d]
  BY <1>1 DEF TypeOK, CaravanOK
<1>3. Len(iovs'[e]) = 0 /\ \A d \in Doors : Agg[d] \in Nat
  BY <1>2, ConstantsAssumption
<1>4. \A d \in Doors : /\ Len(iovs'[d]) <= 2 * Agg[d]
                       /\ nr_mapped'[d] <= Agg[d]
                       /\ nr_mapped'[d] <= Len(iovs'[d])
  BY <1>2, <1>3 DEF CaravanBounds
<1>5. nr_mapped'[2] = 0
  BY <1>2 DEF CaravanBounds, Doors
<1> QED BY <1>4, <1>5 DEF CaravanBounds

\* The arrays of both caravans are never indexed out of bounds, and caravan 2
\* never maps a page: i10_host_is_caravan_full and its twin are tested before
\* every store, whatever is submitted, received or reconfigured in between.
THEOREM CaravanBoundsHold == Spec => []CaravanBounds
<1>1. Init => CaravanBounds
  <2> SUFFICES ASSUME Init PROVE CaravanBounds
    OBVIOUS
  <2>1. iovs = [d \in Doors |-> <<>>] /\ nr_mapped = [d \in Doors |-> 0]
    BY DEF Init
  <2> QED BY <2>1, ConstantsAssumption DEF CaravanBounds, Doors
<1>2. TypeOK /\ CaravanBounds /\ [Next]_vars => CaravanBounds'
  <2> SUFFICES ASSUME TypeOK, CaravanBounds, [Next]_vars PROVE CaravanBounds'
    OBVIOUS
  <2>1. UNCHANGED <<iovs, nr_mapped>> => CaravanBounds'
    BY DEF CaravanBounds
  <2>2. CASE TrySendCmdPdu \/ TrySendDataPdu \/ TrySendData \/ TrySendDdgst
    <3>1. request \in Tags /\ Place(request)
      BY <2>2 DEF TrySendCmdPdu, TrySendDataPdu, TrySendData, TrySendDdgst,
                  InHand, TypeOK, ListOK
    <3> QED BY <3>1, PlaceBounds
  <2>3. CASE \E d \in Doors : ResetCaravan(d)
    BY <2>3, ResetCaravanBounds
  <2>4. CASE \/ UNCHANGED vars
             \/ \E c \in Cpus, t \in Tags, k \in Kinds : QueueRq(c, t, k)
             \/ \E c \in Ctx : Load(c) \/ Ring(c)
             \/ \E d \in Doors : TimerExpire(d) \/ TimerReturn(d)
             \/ SetDoorbellParam \/ RecvError \/ WriteSpace \/ Peer
             \/ ConnReset
    BY <2>1, <2>4 DEF vars, caravanVars, QueueRq, Load, Ring, TimerExpire,
       TimerReturn, SetDoorbellParam, RecvError, WriteSpace, Peer, PeerRead,
       PeerReject, PeerAnswer, ConnReset, ConnDown
  <2>5. CASE \/ IoStart \/ FetchRequest
             \/ \E d \in Doors : TrySendCaravan(d)
             \/ NoRequest \/ NotPlaced \/ TrySendDataUnset \/ FailRequest
             \/ RecvDone \/ RecvC2hData \/ RecvRsp \/ RecvR2t
    BY <2>1, <2>5 DEF caravanVars, IoStart, FetchRequest, TrySendCaravan,
       NoRequest, NotPlaced, TrySendDataUnset, FailRequest, RecvDone,
       RecvC2hData, RecvRsp, RecvR2t
  <2> QED BY <2>2, <2>3, <2>4, <2>5 DEF Next, IoWork
<1> QED BY <1>1, <1>2, TypeCorrect, PTL DEF Spec

=============================================================================
