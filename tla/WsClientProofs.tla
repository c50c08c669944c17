---------------------------- MODULE WsClientProofs ----------------------------
(***************************************************************************)
(* Proofs about WsClient for every queue size, every number of requests    *)
(* and reconnects and every set of handlers: type correctness; that a      *)
(* reply reaches the caller that asked and nobody twice; that a reply on   *)
(* its way finds its handler filed and is on its way once; that, unless a  *)
(* Connected event was dropped, it is dispatched under the number of the   *)
(* connection that carried it; and that the queue with the drained batch   *)
(* is a lossy FIFO mailbox.                                                *)
(***************************************************************************)
EXTENDS WsClient, TLAPS

(* Handlers are filed under the id of the request that carried them, and   *)
(* only under ids already spent.                                           *)
Filed ==
  /\ \A n \in DOMAIN callbacks : n \in DOMAIN asked /\ asked[n].who = callbacks[n]
  /\ \A n \in DOMAIN consumers : n \in DOMAIN asked /\ asked[n].who = consumers[n]

(* ReplyToAsker with what makes it inductive: the id was spent.            *)
CallsAsked ==
  \A i \in DOMAIN calls :
    IsReply(calls[i]) => /\ calls[i].re.id \in DOMAIN asked
                         /\ calls[i].to = asked[calls[i].re.id].who

IInv == TypeOK /\ Filed /\ CallsAsked /\ ServedOnce

(* The events of the model are events.                                     *)
LEMMA EventFacts ==
  /\ Connected \in Event /\ Disconnected \in Event
  /\ \A n \in Nat : Reply(n) \in Event /\ Reply(n).kind = "Reply" /\ Reply(n).id = n
  /\ \A m \in Methods : Notify(m) \in Event /\ Notify(m).kind = "Notify"
  /\ Connected.kind = "Connected" /\ Disconnected.kind = "Disconnected"
  BY DEF Connected, Disconnected, Reply, Notify, None, Event, EventOf

(* Queueing keeps the queue well typed, full or not.                       *)
LEMMA PushType ==
  ASSUME TypeOK, NEW ev \in Event, push(ev)
  PROVE  queue' \in Seq(Event) /\ queue_dropped' \in BOOLEAN /\ lostOpens' \in Nat
  <1>1. CASE Len(queue) >= QueueMax
    <2>1. queue # <<>>
      BY <1>1, WsAssumption DEF TypeOK
    <2>2. Tail(queue) \in Seq(Event)
      BY <2>1 DEF TypeOK
    <2>3. queue' = Append(Tail(queue), ev)
      BY <1>1 DEF push
    <2>4. queue_dropped' = TRUE
      BY <1>1 DEF push
    <2>5. lostOpens' = lostOpens \/ lostOpens' = lostOpens + 1
      BY <1>1 DEF push, TypeOK
    <2>6. queue' \in Seq(Event)
      BY <2>2, <2>3
    <2>7. lostOpens' \in Nat
      BY <2>5 DEF TypeOK
    <2> QED
      BY <2>4, <2>6, <2>7
  <1>2. CASE ~(Len(queue) >= QueueMax)
    <2>1. queue' = Append(queue, ev) /\ lostOpens' = lostOpens
      BY <1>2 DEF push
    <2>2. queue_dropped' = queue_dropped
      BY <1>2 DEF push
    <2>3. queue_dropped' \in BOOLEAN
      BY <2>2 DEF TypeOK
    <2> QED
      BY <2>1, <2>3 DEF TypeOK
  <1> QED
    BY <1>1, <1>2

(* Taking an event off the batch.                                          *)
LEMMA TakeType ==
  ASSUME TypeOK, NEW ev, Take(ev)
  PROVE  batch' \in Seq(Event) /\ ev \in Event
  BY DEF Take, TypeOK

(* Calls of a list of handlers about one event.                            *)
LEMMA CallEachType ==
  ASSUME NEW hs \in Seq(Handler), NEW ev \in Event
  PROVE  /\ CallEach(hs, ev) \in Seq(Call)
         /\ \A i \in DOMAIN CallEach(hs, ev) : CallEach(hs, ev)[i].re = ev
  BY DEF CallEach, Call

(* The call of a single handler about one event.                           *)
LEMMA ToType ==
  ASSUME NEW h \in Handler, NEW ev \in Event
  PROVE  To(h, ev) \in Seq(Call) /\ Len(To(h, ev)) = 1 /\ To(h, ev)[1] = [to |-> h, re |-> ev]
  BY DEF To, Call

(* Sending spends the id and records the request under it.                 *)
LEMMA SendType ==
  ASSUME TypeOK, NEW who \in Callbacks \cup Consumers \cup {Nobody}, send_rpc(who)
  PROVE  /\ id' \in Nat /\ server' \subseteq Nat
         /\ DOMAIN asked' = 0..(id' - 1) /\ DOMAIN asked' = DOMAIN asked \cup {id}
         /\ id \notin DOMAIN asked
         /\ asked'[id].who = who
         /\ \A n \in DOMAIN asked : asked'[n] = asked[n]
         /\ \A n \in DOMAIN asked' :
              asked'[n] \in [who : Callbacks \cup Consumers \cup {Nobody}, conn : Nat]
  <1>1. asked' = With(asked, id, [who |-> who, conn |-> opens])
    BY DEF send_rpc
  <1>2. id' = id + 1 /\ server' \subseteq Nat
    BY DEF send_rpc, TypeOK
  <1>3. id \in Nat /\ DOMAIN asked = 0..(id - 1)
    BY DEF TypeOK
  <1>4. id \notin DOMAIN asked
    BY <1>3
  <1>5. 0..(id' - 1) = 0..(id - 1) \cup {id}
    BY <1>2, <1>3
  <1>6. DOMAIN asked' = DOMAIN asked \cup {id}
    BY <1>1 DEF With
  <1>7. asked'[id] = [who |-> who, conn |-> opens]
    BY <1>1 DEF With
  <1>8. \A n \in DOMAIN asked : asked'[n] = asked[n]
    BY <1>1, <1>4 DEF With
  <1>9. \A n \in DOMAIN asked' :
          asked'[n] \in [who : Callbacks \cup Consumers \cup {Nobody}, conn : Nat]
    BY <1>6, <1>7, <1>8 DEF TypeOK
  <1> QED
    BY <1>2, <1>3, <1>4, <1>5, <1>6, <1>7, <1>8, <1>9

USE DEF vars, libhv, tables, thread, requests

(* Type correctness of each kind of step.                                  *)
LEMMA LibhvType ==
  ASSUME TypeOK, Libhv
  PROVE  TypeOK'
  <1>1. CASE onopen
    <2>1. push(Connected)
      BY <1>1 DEF onopen
    <2>2. queue' \in Seq(Event) /\ queue_dropped' \in BOOLEAN /\ lostOpens' \in Nat
      BY <2>1, EventFacts, PushType
    <2> QED
      BY <1>1, <2>2 DEF onopen, TypeOK
  <1>2. CASE onclose
    <2>1. push(Disconnected)
      BY <1>2 DEF onclose
    <2>2. queue' \in Seq(Event) /\ queue_dropped' \in BOOLEAN /\ lostOpens' \in Nat
      BY <2>1, EventFacts, PushType
    <2> QED
      BY <1>2, <2>2 DEF onclose, TypeOK
  <1>3. ASSUME NEW n \in server, onmessageReply(n)
        PROVE  TypeOK'
    <2>1. push(Reply(n)) /\ n \in Nat
      BY <1>3 DEF onmessageReply, TypeOK
    <2>2. queue' \in Seq(Event) /\ queue_dropped' \in BOOLEAN /\ lostOpens' \in Nat
      BY <2>1, EventFacts, PushType
    <2> QED
      BY <1>3, <2>2 DEF onmessageReply, TypeOK
  <1>4. ASSUME NEW m \in Methods, onmessageNotify(m)
        PROVE  TypeOK'
    <2>1. push(Notify(m))
      BY <1>4 DEF onmessageNotify
    <2>2. queue' \in Seq(Event) /\ queue_dropped' \in BOOLEAN /\ lostOpens' \in Nat
      BY <2>1, EventFacts, PushType
    <2> QED
      BY <1>4, <2>2 DEF onmessageNotify, TypeOK
  <1> QED
    BY <1>1, <1>2, <1>3, <1>4 DEF Libhv

(* The steps of the drain keep the types.                                  *)
LEMMA MainLoopType ==
  ASSUME TypeOK, MainLoop
  PROVE  TypeOK'
  <1>1. CASE drain
    <2>1. queue_dropped' = FALSE /\ pc' = "drain"
      BY <1>1 DEF drain
    <2>2. batch' \in Seq(Event) /\ queue' \in Seq(Event)
      BY <1>1 DEF drain, TypeOK
    <2>3. queue_dropped' \in BOOLEAN /\ pc' \in {"ui", "drain"}
      BY <2>1
    <2> QED
      BY <1>1, <2>2, <2>3 DEF drain, TypeOK
  <1>2. CASE dispatchConnected
    <2>1. batch' \in Seq(Event)
      BY <1>2, TakeType DEF dispatchConnected
    <2>2. calls' \in Seq(Call)
      BY <1>2, ToType, EventFacts DEF dispatchConnected, Handler
    <2> QED
      BY <1>2, <2>1, <2>2 DEF dispatchConnected, Take, TypeOK
  <1>3. CASE dispatchDisconnected
    <2>1. batch' \in Seq(Event)
      BY <1>3, TakeType DEF dispatchDisconnected
    <2>2. calls' \in Seq(Call)
      BY <1>3, ToType, EventFacts DEF dispatchDisconnected, Handler
    <2> QED
      BY <1>3, <2>1, <2>2 DEF dispatchDisconnected, Take, TypeOK
  <1>4. ASSUME NEW n \in DOMAIN asked, dispatchReply(n)
        PROVE  TypeOK'
    <2>1. batch' \in Seq(Event)
      BY <1>4, TakeType DEF dispatchReply
    <2>2. n \in Nat
      BY DEF TypeOK
    <2>3. n \in DOMAIN consumers => To(consumers[n], Reply(n)) \in Seq(Call)
      BY <2>2, ToType, EventFacts DEF TypeOK, Handler
    <2>4. n \in DOMAIN callbacks => To(callbacks[n], Reply(n)) \in Seq(Call)
      BY <2>2, ToType, EventFacts DEF TypeOK, Handler
    <2>5. calls' \in Seq(Call)
      BY <1>4, <2>3, <2>4 DEF dispatchReply
    <2>6. /\ DOMAIN callbacks' \subseteq Nat
          /\ \A k \in DOMAIN callbacks' : callbacks'[k] \in Callbacks
      BY <1>4 DEF dispatchReply, Without, TypeOK
    <2>7. /\ DOMAIN consumers' \subseteq Nat
          /\ \A k \in DOMAIN consumers' : consumers'[k] \in Consumers
      BY <1>4 DEF dispatchReply, Without, TypeOK
    <2>8. served' \subseteq Nat
      BY <1>4, <2>2 DEF dispatchReply, TypeOK
    <2> QED
      BY <1>4, <2>1, <2>5, <2>6, <2>7, <2>8 DEF dispatchReply, Take, TypeOK
  <1>5. ASSUME NEW m \in Methods, dispatchNotify(m)
        PROVE  TypeOK'
    <2>1. batch' \in Seq(Event)
      BY <1>5, TakeType DEF dispatchNotify
    <2>2. notify_consumers \in Seq(Handler) /\ method_resp_cbs[m] \in Seq(Handler)
      BY DEF TypeOK, Handler
    <2>3. /\ CallEach(notify_consumers, Notify(m)) \in Seq(Call)
          /\ CallEach(method_resp_cbs[m], Notify(m)) \in Seq(Call)
      BY <2>2, CallEachType, EventFacts
    <2>4. /\ To(OnConnected, Notify(m)) \in Seq(Call)
          /\ To(OnDisconnected, Notify(m)) \in Seq(Call)
      BY ToType, EventFacts DEF Handler
    <2>5. calls' \in Seq(Call)
      BY <1>5, <2>3, <2>4 DEF dispatchNotify
    <2> QED
      BY <1>5, <2>1, <2>5 DEF dispatchNotify, Take, TypeOK
  <1>6. CASE HandlerReturns
    BY <1>6 DEF HandlerReturns, TypeOK
  <1>7. CASE HandlerThrows
    BY <1>7 DEF HandlerThrows, TypeOK
  <1>8. CASE drainEnds
    BY <1>8 DEF drainEnds, TypeOK
  <1> QED
    BY <1>1, <1>2, <1>3, <1>4, <1>5, <1>6, <1>7, <1>8 DEF MainLoop

(* Sending and registering keep the types.                                 *)
LEMMA PanelsType ==
  ASSUME TypeOK, Panels
  PROVE  TypeOK'
  <1>1. ASSUME NEW cb \in Callbacks, send_jsonrpc_cb(cb)
        PROVE  TypeOK'
    <2>1. send_rpc(cb) /\ cb \in Callbacks \cup Consumers \cup {Nobody}
      BY <1>1 DEF send_jsonrpc_cb
    <2>2. /\ DOMAIN callbacks' \subseteq Nat
          /\ \A n \in DOMAIN callbacks' : callbacks'[n] \in Callbacks
      BY <1>1 DEF send_jsonrpc_cb, With, TypeOK
    <2> QED
      BY <1>1, <2>1, <2>2, SendType DEF send_jsonrpc_cb, TypeOK
  <1>2. ASSUME NEW c \in Consumers, send_jsonrpc_consumer(c)
        PROVE  TypeOK'
    <2>1. send_rpc(c) /\ c \in Callbacks \cup Consumers \cup {Nobody}
      BY <1>2 DEF send_jsonrpc_consumer
    <2>2. /\ DOMAIN consumers' \subseteq Nat
          /\ \A n \in DOMAIN consumers' : consumers'[n] \in Consumers
      BY <1>2 DEF send_jsonrpc_consumer, With, TypeOK
    <2> QED
      BY <1>2, <2>1, <2>2, SendType DEF send_jsonrpc_consumer, TypeOK
  <1>3. ASSUME NEW c \in Consumers, register_notify_update(c)
        PROVE  TypeOK'
    BY <1>3 DEF register_notify_update, TypeOK
  <1>4. ASSUME NEW c \in Consumers, unregister_notify_update(c)
        PROVE  TypeOK'
    <2>1. notify_consumers' \in Seq(Consumers)
      BY <1>4 DEF unregister_notify_update, TypeOK
    <2> QED
      BY <1>4, <2>1 DEF unregister_notify_update, TypeOK
  <1>5. CASE send_jsonrpc_plain
    <2>1. send_rpc(Nobody) /\ Nobody \in Callbacks \cup Consumers \cup {Nobody}
      BY <1>5 DEF send_jsonrpc_plain
    <2> QED
      BY <1>5, <2>1, SendType DEF send_jsonrpc_plain, TypeOK
  <1>6. ASSUME NEW r \in Registrations, register_method_callback(r[1], r[2])
        PROVE  TypeOK'
    <2>1. r[1] \in Methods /\ r[2] \in Names
      BY WsAssumption
    <2>2. PICK k \in 0..Len(method_resp_cbs[r[1]]) :
            method_resp_cbs' = [method_resp_cbs EXCEPT ![r[1]] =
              [j \in 1..(Len(method_resp_cbs[r[1]]) + 1) |->
                 IF j <= k THEN method_resp_cbs[r[1]][j]
                 ELSE IF j = k + 1 THEN r[2] ELSE method_resp_cbs[r[1]][j - 1]]]
      BY <1>6 DEF register_method_callback
    <2>3. method_resp_cbs[r[1]] \in Seq(Names)
      BY <2>1 DEF TypeOK
    <2>4. [j \in 1..(Len(method_resp_cbs[r[1]]) + 1) |->
             IF j <= k THEN method_resp_cbs[r[1]][j]
             ELSE IF j = k + 1 THEN r[2] ELSE method_resp_cbs[r[1]][j - 1]] \in Seq(Names)
      BY <2>1, <2>3
    <2>5. method_resp_cbs' \in [Methods -> Seq(Names)]
      BY <2>1, <2>2, <2>4 DEF TypeOK
    <2> QED
      BY <1>6, <2>5 DEF register_method_callback, TypeOK
  <1> QED
    BY <1>1, <1>2, <1>3, <1>4, <1>5, <1>6 DEF Panels

(* The types hold at the start.                                            *)
LEMMA InitType == Init => TypeOK
  <1> SUFFICES ASSUME Init PROVE TypeOK
    OBVIOUS
  <1>1. up \in BOOLEAN /\ queue_dropped \in BOOLEAN /\ pc \in {"ui", "drain"}
    BY DEF Init
  <1>2. /\ queue \in Seq(Event) /\ batch \in Seq(Event) /\ calls \in Seq(Call)
        /\ notify_consumers \in Seq(Consumers)
    BY DEF Init
  <1>3. DOMAIN callbacks = {} /\ DOMAIN consumers = {} /\ DOMAIN asked = {} /\ 0..(id - 1) = {}
    BY DEF Init
  <1>4. method_resp_cbs \in [Methods -> Seq(Names)]
    BY DEF Init
  <1>5. opens \in Nat /\ server \subseteq Nat /\ lostOpens \in Nat /\ opened \in Nat
        /\ served \subseteq Nat /\ id \in Nat
    BY DEF Init
  <1> QED
    BY <1>1, <1>2, <1>3, <1>4, <1>5 DEF TypeOK

(* WsClient is type correct: whatever Moonraker, the network and the       *)
(* panels do, the queue, the tables and the ids stay well formed.          *)
THEOREM TypeCorrect == Spec => []TypeOK
  <1>1. Init => TypeOK
    BY InitType
  <1>2. TypeOK /\ [Next]_vars => TypeOK'
    <2>1. ASSUME TypeOK, UNCHANGED vars
          PROVE  TypeOK'
      BY <2>1 DEF TypeOK
    <2> QED
      BY <2>1, LibhvType, MainLoopType, PanelsType DEF Next
  <1> QED
    BY <1>1, <1>2, PTL DEF Spec

-----------------------------------------------------------------------------
(* Steps that touch neither a table, nor a request, nor the running calls. *)
LEMMA Frame ==
  ASSUME IInv, UNCHANGED <<callbacks, consumers, asked, served, calls>>
  PROVE  Filed' /\ CallsAsked' /\ ServedOnce'
  BY DEF IInv, Filed, CallsAsked, ServedOnce, IsReply

(* Steps that start or end handlers about anything but a reply.            *)
LEMMA OtherCalls ==
  ASSUME IInv, UNCHANGED <<callbacks, consumers, asked, served>>,
         calls' \in Seq(Call), \A i \in DOMAIN calls' : ~IsReply(calls'[i])
  PROVE  Filed' /\ CallsAsked' /\ ServedOnce'
  BY DEF IInv, Filed, CallsAsked, ServedOnce, IsReply

(* Calling the handlers of a list about an event that is not a reply.      *)
LEMMA CallEachNoReply ==
  ASSUME NEW hs, NEW ev, ev.kind # "Reply"
  PROVE  \A i \in DOMAIN CallEach(hs, ev) : ~IsReply(CallEach(hs, ev)[i])
  BY DEF CallEach, IsReply

(* Two lists of calls without a reply, one after the other, have none.     *)
LEMMA ConcatNoReply ==
  ASSUME NEW s \in Seq(Call), NEW t \in Seq(Call),
         \A i \in DOMAIN s : ~IsReply(s[i]), \A i \in DOMAIN t : ~IsReply(t[i])
  PROVE  /\ s \o t \in Seq(Call)
         /\ \A i \in DOMAIN (s \o t) : ~IsReply((s \o t)[i])
  BY DEF IsReply

(* The steps of the drain keep handlers with their askers: a reply takes   *)
(* its handlers out of the tables, where they are filed under its request. *)
LEMMA MainLoopSafe ==
  ASSUME IInv, MainLoop
  PROVE  Filed' /\ CallsAsked' /\ ServedOnce'
  <1> USE DEF IInv
  <1>1. CASE drain
    BY <1>1, Frame DEF drain
  <1>2. CASE dispatchConnected
    <2>1. To(OnConnected, Connected) \in Seq(Call)
      BY ToType, EventFacts DEF Handler
    <2>2. \A i \in DOMAIN To(OnConnected, Connected) : ~IsReply(To(OnConnected, Connected)[i])
      BY EventFacts DEF To, IsReply
    <2> QED
      BY <1>2, <2>1, <2>2, OtherCalls DEF dispatchConnected, Take
  <1>3. CASE dispatchDisconnected
    <2>1. To(OnDisconnected, Disconnected) \in Seq(Call)
      BY ToType, EventFacts DEF Handler
    <2>2. \A i \in DOMAIN To(OnDisconnected, Disconnected) :
            ~IsReply(To(OnDisconnected, Disconnected)[i])
      BY EventFacts DEF To, IsReply
    <2> QED
      BY <1>3, <2>1, <2>2, OtherCalls DEF dispatchDisconnected, Take
  <1>4. ASSUME NEW n \in DOMAIN asked, dispatchReply(n)
        PROVE  Filed' /\ CallsAsked' /\ ServedOnce'
    <2>1. Filed' /\ ServedOnce'
      BY <1>4 DEF dispatchReply, Take, Without, Filed, ServedOnce
    <2>2. n \in Nat /\ Reply(n) \in Event /\ Reply(n).id = n
      BY EventFacts DEF TypeOK
    <2>3. calls' \in Seq(Call) /\ \A i \in DOMAIN calls' :
            calls'[i].re = Reply(n) /\ calls'[i].to = asked[n].who
      <3> DEFINE s == IF n \in DOMAIN consumers THEN To(consumers[n], Reply(n)) ELSE <<>>
                 t == IF n \in DOMAIN callbacks THEN To(callbacks[n], Reply(n)) ELSE <<>>
                 Good(u) == u \in Seq(Call) /\ \A i \in DOMAIN u :
                              u[i].re = Reply(n) /\ u[i].to = asked[n].who
      <3>1. Good(s)
        <4>1. CASE n \in DOMAIN consumers
          <5>1. consumers[n] \in Handler /\ asked[n].who = consumers[n]
            BY <4>1 DEF TypeOK, Handler, Filed
          <5>2. s = <<[to |-> consumers[n], re |-> Reply(n)]>>
            BY <4>1 DEF To
          <5>3. [to |-> consumers[n], re |-> Reply(n)] \in Call
            BY <2>2, <5>1 DEF Call
          <5> HIDE DEF s
          <5> QED
            BY <5>1, <5>2, <5>3
        <4>2. CASE n \notin DOMAIN consumers
          BY <4>2
        <4> QED
          BY <4>1, <4>2
      <3>2. Good(t)
        <4>1. CASE n \in DOMAIN callbacks
          <5>1. callbacks[n] \in Handler /\ asked[n].who = callbacks[n]
            BY <4>1 DEF TypeOK, Handler, Filed
          <5>2. t = <<[to |-> callbacks[n], re |-> Reply(n)]>>
            BY <4>1 DEF To
          <5>3. [to |-> callbacks[n], re |-> Reply(n)] \in Call
            BY <2>2, <5>1 DEF Call
          <5> HIDE DEF t
          <5> QED
            BY <5>1, <5>2, <5>3
        <4>2. CASE n \notin DOMAIN callbacks
          BY <4>2
        <4> QED
          BY <4>1, <4>2
      <3>3. calls' = s \o t
        BY <1>4 DEF dispatchReply
      <3> HIDE DEF s, t
      <3> QED
        BY <3>1, <3>2, <3>3
    <2>4. asked' = asked
      BY <1>4 DEF dispatchReply, Take
    <2> QED
      BY <2>1, <2>2, <2>3, <2>4 DEF CallsAsked, IsReply
  <1>5. ASSUME NEW m \in Methods, dispatchNotify(m)
        PROVE  Filed' /\ CallsAsked' /\ ServedOnce'
    <2> DEFINE Quiet(u) == u \in Seq(Call) /\ \A i \in DOMAIN u : ~IsReply(u[i])
               a == IF m = "notify_status_update"
                    THEN CallEach(notify_consumers, Notify(m)) ELSE <<>>
               b == IF m = "notify_klippy_disconnected" THEN To(OnDisconnected, Notify(m))
                    ELSE IF m = "notify_klippy_ready" THEN To(OnConnected, Notify(m))
                    ELSE <<>>
               c == CallEach(method_resp_cbs[m], Notify(m))
    <2>1. Notify(m) \in Event /\ Notify(m).kind # "Reply"
      BY EventFacts
    <2>2. notify_consumers \in Seq(Handler) /\ method_resp_cbs[m] \in Seq(Handler)
      BY DEF TypeOK, Handler
    <2>3. Quiet(CallEach(notify_consumers, Notify(m))) /\ Quiet(c)
      BY <2>1, <2>2, CallEachType, CallEachNoReply
    <2>4. Quiet(<<>>)
      OBVIOUS
    <2>5. Quiet(To(OnDisconnected, Notify(m))) /\ Quiet(To(OnConnected, Notify(m)))
      BY <2>1, ToType DEF Handler, To, IsReply
    <2>6. Quiet(a) /\ Quiet(b)
      BY <2>3, <2>4, <2>5
    <2>7. calls' = (a \o b) \o c
      BY <1>5 DEF dispatchNotify
    <2> HIDE DEF a, b, c
    <2>8. Quiet(a \o b)
      BY <2>6, ConcatNoReply
    <2>9. Quiet(calls')
      BY <2>3, <2>7, <2>8, ConcatNoReply
    <2> QED
      BY <1>5, <2>9, OtherCalls DEF dispatchNotify, Take
  <1>6. CASE HandlerReturns
    <2>1. calls' = Tail(calls) /\ UNCHANGED <<callbacks, consumers, asked, served>>
          /\ calls \in Seq(Call) /\ calls # <<>>
      BY <1>6 DEF HandlerReturns, TypeOK
    <2>2. \A i \in DOMAIN Tail(calls) : i + 1 \in DOMAIN calls /\ Tail(calls)[i] = calls[i + 1]
      BY <2>1
    <2> QED
      BY <2>1, <2>2 DEF Filed, CallsAsked, ServedOnce, IsReply
  <1>7. CASE HandlerThrows
    BY <1>7, OtherCalls DEF HandlerThrows
  <1>8. CASE drainEnds
    BY <1>8, Frame DEF drainEnds
  <1> QED
    BY <1>1, <1>2, <1>3, <1>4, <1>5, <1>6, <1>7, <1>8 DEF MainLoop

(* A request is filed under an id nothing else has, and a registration     *)
(* touches no table of requests.                                           *)
LEMMA PanelsSafe ==
  ASSUME IInv, Panels
  PROVE  Filed' /\ CallsAsked' /\ ServedOnce'
  <1> USE DEF IInv
  <1>1. ASSUME NEW cb \in Callbacks, send_jsonrpc_cb(cb)
        PROVE  Filed' /\ CallsAsked' /\ ServedOnce'
    <2>1. send_rpc(cb) /\ cb \in Callbacks \cup Consumers \cup {Nobody}
      BY <1>1 DEF send_jsonrpc_cb
    <2>2. callbacks' = With(callbacks, id, cb)
          /\ UNCHANGED <<consumers, served, calls>>
      BY <1>1 DEF send_jsonrpc_cb
    <2>3. CallsAsked'
      BY <2>1, <2>2, SendType DEF CallsAsked
    <2> QED
      BY <2>1, <2>2, <2>3, SendType DEF Filed, ServedOnce, With
  <1>2. ASSUME NEW c \in Consumers, send_jsonrpc_consumer(c)
        PROVE  Filed' /\ CallsAsked' /\ ServedOnce'
    <2>1. send_rpc(c) /\ c \in Callbacks \cup Consumers \cup {Nobody}
      BY <1>2 DEF send_jsonrpc_consumer
    <2>2. consumers' = With(consumers, id, c)
          /\ UNCHANGED <<callbacks, served, calls>>
      BY <1>2 DEF send_jsonrpc_consumer
    <2>3. CallsAsked'
      BY <2>1, <2>2, SendType DEF CallsAsked
    <2> QED
      BY <2>1, <2>2, <2>3, SendType DEF Filed, ServedOnce, With
  <1>3. CASE send_jsonrpc_plain
    <2>1. send_rpc(Nobody) /\ Nobody \in Callbacks \cup Consumers \cup {Nobody}
          /\ UNCHANGED <<callbacks, consumers, served, calls>>
      BY <1>3 DEF send_jsonrpc_plain
    <2> QED
      BY <2>1, SendType DEF Filed, CallsAsked, ServedOnce
  <1>4. ASSUME NEW c \in Consumers, register_notify_update(c) \/ unregister_notify_update(c)
        PROVE  Filed' /\ CallsAsked' /\ ServedOnce'
    BY <1>4, Frame DEF register_notify_update, unregister_notify_update
  <1>5. ASSUME NEW r \in Registrations, register_method_callback(r[1], r[2])
        PROVE  Filed' /\ CallsAsked' /\ ServedOnce'
    BY <1>5, Frame DEF register_method_callback
  <1> QED
    BY <1>1, <1>2, <1>3, <1>4, <1>5 DEF Panels

(* The invariant holds after every step.                                   *)
LEMMA Inductive == IInv /\ [Next]_vars => IInv'
  <1> SUFFICES ASSUME IInv, [Next]_vars PROVE IInv'
    OBVIOUS
  <1>1. CASE Libhv
    <2>1. UNCHANGED <<callbacks, consumers, asked, served, calls>>
      BY <1>1 DEF Libhv, onopen, onclose, onmessageReply, onmessageNotify
    <2> QED
      BY <1>1, <2>1, Frame, LibhvType DEF IInv
  <1>2. CASE MainLoop
    BY <1>2, MainLoopSafe, MainLoopType DEF IInv
  <1>3. CASE Panels
    BY <1>3, PanelsSafe, PanelsType DEF IInv
  <1>4. CASE UNCHANGED vars
    <2>1. TypeOK'
      BY <1>4 DEF IInv, TypeOK
    <2> QED
      BY <1>4, <2>1, Frame DEF IInv
  <1> QED
    BY <1>1, <1>2, <1>3, <1>4 DEF Next

(* The invariant holds in every state of every behaviour.                  *)
LEMMA Invariant == Spec => []IInv
  <1>1. Init => IInv
    <2>1. Init => TypeOK
      BY InitType
    <2>2. Init => Filed /\ CallsAsked /\ ServedOnce
      BY DEF Init, Filed, CallsAsked, ServedOnce
    <2> QED
      BY <2>1, <2>2 DEF IInv
  <1> QED
    BY <1>1, Inductive, PTL DEF Spec

(* A reply is handed to the caller that made the request, whatever         *)
(* interleaving of sends, replies and reconnects led here                  *)
(* (KWebSocketClient::dispatch and send_jsonrpc).                          *)
THEOREM RepliesReachAsker == Spec => []ReplyToAsker
  <1>1. IInv => ReplyToAsker
    BY DEF IInv, CallsAsked, ReplyToAsker
  <1> QED
    BY <1>1, Invariant, PTL

(* No handler is taken out of the tables twice, because no id is filed     *)
(* twice and dispatch erases what it takes.                                *)
THEOREM NeverServedTwice == Spec => []ServedOnce
  <1>1. IInv => ServedOnce
    BY DEF IInv
  <1> QED
    BY <1>1, Invariant, PTL

-----------------------------------------------------------------------------
(* Delivery.                                                               *)

(* Everything queued or drained and not dispatched yet, oldest first.      *)
all == batch \o queue

(* A sequence without its k-th element.                                    *)
Drop(q, k) == [j \in 1..(Len(q) - 1) |-> IF j < k THEN q[j] ELSE q[j + 1]]

(* Where the replies to n are.                                             *)
Pos(q, n) == {i \in DOMAIN q : q[i].kind = "Reply" /\ q[i].id = n}

(* The LVGL thread leaves a drain with nothing in hand; the handlers it    *)
(* runs are about one event.                                               *)
Idle == pc = "ui" => batch = <<>> /\ calls = <<>>
SameEvent == \A i \in DOMAIN calls : calls[i].re = calls[1].re

(* Moonraker knows requests of the present socket only, and answers only   *)
(* what was asked.                                                         *)
Known ==
  /\ id <= MaxId /\ (~up => server = {})
  /\ \A n \in server : n \in DOMAIN asked /\ asked[n].conn = opens
  /\ \A i \in DOMAIN all : all[i].kind = "Reply" => all[i].id \in DOMAIN asked

(* A request is unanswered or has one reply under way, and until then its  *)
(* handler is filed.                                                       *)
Awaits(q) ==
  \A n \in DOMAIN asked :
    /\ \A i, k \in Pos(q, n) : i = k
    /\ n \in server => Pos(q, n) = {}
    /\ (n \in server \/ Pos(q, n) # {}) /\ asked[n].who # Nobody
         => n \in DOMAIN callbacks \cup DOMAIN consumers

(* Counting Connected events from o on reaches c at the end of q, and      *)
(* every reply is met at the number of the connection that carried it.     *)
Numbers(num, q, o, c, a) ==
  /\ num \in [1..(Len(q) + 1) -> Nat] /\ num[1] = o /\ num[Len(q) + 1] = c
  /\ \A i \in 1..Len(q) :
       /\ num[i + 1] = IF q[i].kind = "Connected" THEN num[i] + 1 ELSE num[i]
       /\ q[i].kind = "Reply" => a[q[i].id].conn = num[i]
Numbered(q, o, c, a) == \E num : Numbers(num, q, o, c, a)
InTurn ==
  lostOpens = 0 => Numbered(all, opened, opens, asked) /\ ReplyOnItsConnection

DInv == IInv /\ Idle /\ SameEvent /\ Known /\ Awaits(all) /\ InTurn

-----------------------------------------------------------------------------
(* Sequences.                                                              *)

(* Two sequences joined.                                                   *)
LEMMA Joined ==
  ASSUME NEW S, NEW s \in Seq(S), NEW t \in Seq(S)
  PROVE  /\ s \o t \in Seq(S) /\ Len(s \o t) = Len(s) + Len(t)
         /\ Len(s) \in Nat /\ Len(t) \in Nat
         /\ \A i \in 1..(Len(s) + Len(t)) : (s \o t)[i] = IF i <= Len(s) THEN s[i] ELSE t[i - Len(s)]
  OBVIOUS

(* Sequences of one length with the same elements are one.                 *)
LEMMA SameSeq ==
  ASSUME NEW S, NEW s \in Seq(S), NEW t \in Seq(S), Len(s) = Len(t)
         , \A i \in 1..Len(s) : s[i] = t[i]
  PROVE  s = t
  OBVIOUS

(* An element put behind the second goes behind both; taken from the first *)
(* it leaves both.                                                         *)
LEMMA JoinAppend ==
  ASSUME NEW S, NEW s \in Seq(S), NEW t \in Seq(S), NEW e \in S
  PROVE  s \o Append(t, e) = Append(s \o t, e)
  <1>1. s \o Append(t, e) \in Seq(S) /\ Append(s \o t, e) \in Seq(S)
    OBVIOUS
  <1>2. Len(s \o Append(t, e)) = Len(Append(s \o t, e))
    OBVIOUS
  <1>3. \A i \in 1..Len(s \o Append(t, e)) : (s \o Append(t, e))[i] = Append(s \o t, e)[i]
    OBVIOUS
  <1> QED
    BY <1>1, <1>2, <1>3, SameSeq

(* ...                                                                     *)
LEMMA JoinTail ==
  ASSUME NEW S, NEW s \in Seq(S), NEW t \in Seq(S), s # <<>>
  PROVE  Tail(s) \o t = Tail(s \o t) /\ s \o t # <<>> /\ Head(s) = (s \o t)[1]
  <1>0. Len(s) > 0 /\ s \o t # <<>> /\ Head(s) = (s \o t)[1]
    OBVIOUS
  <1>1. Tail(s) \o t \in Seq(S) /\ Tail(s \o t) \in Seq(S)
    BY <1>0
  <1>2. Len(Tail(s) \o t) = Len(Tail(s \o t))
    BY <1>0
  <1>3. \A i \in 1..Len(Tail(s) \o t) : (Tail(s) \o t)[i] = Tail(s \o t)[i]
    BY <1>0
  <1> QED
    BY <1>0, <1>1, <1>2, <1>3, SameSeq

(* The first of the second is dropped.                                     *)
LEMMA JoinDrop ==
  ASSUME NEW S, NEW s \in Seq(S), NEW t \in Seq(S), t # <<>>
  PROVE  /\ Drop(s \o t, Len(s) + 1) \in Seq(S)
         /\ s \o Tail(t) = Drop(s \o t, Len(s) + 1)
         /\ Len(s) + 1 \in 1..Len(s \o t) /\ Head(t) = (s \o t)[Len(s) + 1]
  <1>0. Len(t) > 0 /\ Len(s) \in Nat /\ Len(t) \in Nat /\ Len(s \o t) = Len(s) + Len(t)
    OBVIOUS
  <1>1. s \o Tail(t) \in Seq(S) /\ Drop(s \o t, Len(s) + 1) \in Seq(S)
    BY <1>0 DEF Drop
  <1>2. Len(s \o Tail(t)) = Len(Drop(s \o t, Len(s) + 1))
    BY <1>0 DEF Drop
  <1>3. \A i \in 1..Len(s \o Tail(t)) : (s \o Tail(t))[i] = Drop(s \o t, Len(s) + 1)[i]
    BY <1>0 DEF Drop
  <1>4. Len(s) + 1 \in 1..Len(s \o t) /\ Head(t) = (s \o t)[Len(s) + 1]
    BY <1>0
  <1> QED
    BY <1>1, <1>2, <1>3, <1>4, SameSeq

(* An empty one adds nothing.                                              *)
LEMMA JoinEmpty ==
  ASSUME NEW S, NEW s \in Seq(S)
  PROVE  <<>> \o s = s /\ s \o <<>> = s
  OBVIOUS


(* Replies in a part of a sequence.                                        *)
Fewer(q2, q) ==
  \A n : /\ Pos(q2, n) # {} => Pos(q, n) # {}
         /\ (\A i, k \in Pos(q, n) : i = k) => (\A i, k \in Pos(q2, n) : i = k)

(* Dropping one element leaves fewer replies, ...                          *)
LEMMA DropFewer ==
  ASSUME NEW S, NEW q \in Seq(S), NEW k \in 1..Len(q)
  PROVE  Fewer(Drop(q, k), q) /\ Drop(q, k) \in Seq(S) /\ Len(Drop(q, k)) = Len(q) - 1
  <1>1. Drop(q, k) \in Seq(S) /\ Len(Drop(q, k)) = Len(q) - 1
    BY DEF Drop
  <1> DEFINE d == Drop(q, k)
             at(i) == IF i < k THEN i ELSE i + 1
  <1>2. \A i \in DOMAIN d : i \in Nat /\ at(i) \in DOMAIN q /\ d[i] = q[at(i)]
    BY DEF Drop
  <1>3. \A i, j \in Nat : at(i) = at(j) => i = j
    OBVIOUS
  <1> HIDE DEF d, at
  <1>4. ASSUME NEW n
        PROVE  \A i \in Pos(d, n) : i \in Nat /\ at(i) \in Pos(q, n)
    BY <1>2 DEF Pos
  <1>5. Fewer(d, q)
    BY <1>3, <1>4 DEF Fewer
  <1> QED
    BY <1>1, <1>5 DEF d

(* ... as does taking the first.                                           *)
LEMMA TailFewer ==
  ASSUME NEW S, NEW q \in Seq(S), q # <<>>
  PROVE  /\ Fewer(Tail(q), q) /\ Tail(q) \in Seq(S) /\ 1 \in DOMAIN q
         /\ \A n : 1 \in Pos(q, n) /\ (\A i, k \in Pos(q, n) : i = k) => Pos(Tail(q), n) = {}
  <1>1. /\ Tail(q) \in Seq(S) /\ 1 \in DOMAIN q
        /\ \A i \in DOMAIN Tail(q) : i \in Nat \ {0} /\ i + 1 \in DOMAIN q /\ Tail(q)[i] = q[i + 1]
    OBVIOUS
  <1> DEFINE d == Tail(q)
  <1>2. \A i \in DOMAIN d : i \in Nat \ {0} /\ i + 1 \in DOMAIN q /\ d[i] = q[i + 1]
    BY <1>1
  <1> HIDE DEF d
  <1>3. ASSUME NEW n
        PROVE  \A i \in Pos(d, n) : i \in Nat \ {0} /\ i + 1 \in Pos(q, n)
    BY <1>2 DEF Pos
  <1>4. \A i, j \in Nat \ {0} : (i + 1 = j + 1 => i = j) /\ i + 1 # 1
    OBVIOUS
  <1>5. Fewer(d, q)
    BY <1>3, <1>4 DEF Fewer
  <1>6. \A n : 1 \in Pos(q, n) /\ (\A i, k \in Pos(q, n) : i = k) => Pos(d, n) = {}
    BY <1>3, <1>4
  <1> QED
    BY <1>1, <1>5, <1>6 DEF d

(* An event is put behind them.                                            *)
LEMMA PutPos ==
  ASSUME NEW S, NEW q \in Seq(S), NEW e \in S, NEW n
  PROVE  /\ Append(q, e) \in Seq(S)
         /\ ~(e.kind = "Reply" /\ e.id = n) => Pos(Append(q, e), n) = Pos(q, n)
         /\ Pos(q, n) = {} => \A i, k \in Pos(Append(q, e), n) : i = k
  <1> DEFINE d == Append(q, e)
             l == Len(q) + 1
  <1>1. /\ d \in Seq(S) /\ DOMAIN d = DOMAIN q \cup {l} /\ l \notin DOMAIN q
        /\ d[l] = e /\ \A i \in DOMAIN q : d[i] = q[i]
    OBVIOUS
  <1> HIDE DEF d, l
  <1>2. ~(e.kind = "Reply" /\ e.id = n) => Pos(d, n) = Pos(q, n)
    BY <1>1 DEF Pos
  <1>3. Pos(q, n) = {} => \A i, k \in Pos(d, n) : i = k
    BY <1>1 DEF Pos
  <1> QED
    BY <1>1, <1>2, <1>3 DEF d

-----------------------------------------------------------------------------
(* What the steps do to it all.                                            *)

(* push: the event goes behind the others; a full queue costs one of them. *)
LEMMA PushMoves ==
  ASSUME TypeOK, NEW ev \in Event, push(ev), batch' = batch
  PROVE  /\ all \in Seq(Event) /\ all' \in Seq(Event)
         /\ \/ all' = Append(all, ev) /\ lostOpens' = lostOpens
            \/ /\ Len(all) >= QueueMax
               /\ \E k \in 1..Len(all) :
                    /\ all' = Append(Drop(all, k), ev)
                    /\ lostOpens' = IF all[k].kind = "Connected" THEN lostOpens + 1 ELSE lostOpens
  <1>1. batch \in Seq(Event) /\ queue \in Seq(Event) /\ QueueMax \in Nat \ {0} /\ lostOpens \in Nat
    BY WsAssumption DEF TypeOK
  <1>2. all \in Seq(Event) /\ Len(all) = Len(batch) + Len(queue) /\ Len(batch) \in Nat
        /\ Len(queue) \in Nat
    BY <1>1, Joined DEF all
  <1>3. CASE ~(Len(queue) >= QueueMax)
    <2>1. queue' = Append(queue, ev) /\ lostOpens' = lostOpens
      BY <1>3 DEF push
    <2>2. all' = batch \o Append(queue, ev)
      BY <2>1 DEF all
    <2>3. all' = Append(all, ev)
      BY <1>1, <2>2, JoinAppend DEF all
    <2> QED
      BY <1>2, <2>1, <2>3
  <1>4. CASE Len(queue) >= QueueMax
    <2>1. queue # <<>>
      BY <1>1, <1>4
    <2>2. /\ queue' = Append(Tail(queue), ev)
          /\ lostOpens' = lostOpens + (IF Head(queue).kind = "Connected" THEN 1 ELSE 0)
      BY <1>4 DEF push
    <2> DEFINE k == Len(batch) + 1
    <2>3. /\ Drop(all, k) \in Seq(Event) /\ batch \o Tail(queue) = Drop(all, k)
          /\ k \in 1..Len(all) /\ Head(queue) = all[k]
      BY <1>1, <2>1, JoinDrop DEF all
    <2>4. Tail(queue) \in Seq(Event)
      BY <1>1, <2>1
    <2> HIDE DEF k
    <2>5. all' = batch \o Append(Tail(queue), ev)
      BY <2>2 DEF all
    <2>6. all' = Append(batch \o Tail(queue), ev)
      BY <1>1, <2>4, <2>5, JoinAppend
    <2>7. all' = Append(Drop(all, k), ev)
      BY <2>3, <2>6
    <2>8. lostOpens' = IF all[k].kind = "Connected" THEN lostOpens + 1 ELSE lostOpens
      BY <1>1, <2>2, <2>3
    <2>9. Len(all) >= QueueMax /\ all' \in Seq(Event)
      BY <1>1, <1>2, <1>4, <2>3, <2>7
    <2> QED
      BY <1>2, <2>3, <2>7, <2>8, <2>9
  <1> QED
    BY <1>3, <1>4

(* Taking an event takes the oldest.                                       *)
LEMMA TakeMoves ==
  ASSUME TypeOK, NEW ev, Take(ev)
  PROVE  /\ all \in Seq(Event) /\ all # <<>> /\ ev = all[1] /\ ev \in Event
         /\ all' = Tail(all) /\ calls = <<>>
  <1>1. /\ batch \in Seq(Event) /\ queue \in Seq(Event) /\ batch # <<>> /\ ev = Head(batch)
        /\ batch' = Tail(batch) /\ queue' = queue /\ calls = <<>>
    BY DEF TypeOK, Take
  <1>2. all \in Seq(Event) /\ ev \in Event
    BY <1>1, Joined DEF all
  <1>3. Tail(batch) \o queue = Tail(all) /\ all # <<>> /\ Head(batch) = all[1]
    BY <1>1, JoinTail DEF all
  <1> QED
    BY <1>1, <1>2, <1>3 DEF all

(* Starting a drain moves nothing.                                         *)
LEMMA DrainMoves ==
  ASSUME TypeOK, Idle, drain
  PROVE  all' = all
  <1>1. batch = <<>> /\ batch' = queue /\ queue' = <<>> /\ queue \in Seq(Event)
    BY DEF drain, Idle, TypeOK
  <1> QED
    BY <1>1, JoinEmpty DEF all

(* libhv's callbacks push one event each.                                  *)
Pushes(ev) ==
  /\ push(ev) /\ ev \in Event
  /\ server' \subseteq server /\ (~up' => server' = {})
  /\ ev.kind = "Reply" => ev.id \in server /\ ev.id \notin server'
  /\ ev.kind = "Connected" => opens' = opens + 1 /\ server' = {}
  /\ ev.kind # "Connected" => opens' = opens
  /\ UNCHANGED <<thread, tables, requests>>

(* The event is one of the mailbox's.                                      *)
LEMMA LibhvMoves ==
  ASSUME TypeOK, Known, Libhv
  PROVE  \E ev \in EventOf(0..MaxId) : Pushes(ev)
  <1>1. /\ Connected \in EventOf(0..MaxId) /\ Disconnected \in EventOf(0..MaxId)
        /\ \A n \in 0..MaxId : Reply(n) \in EventOf(0..MaxId)
        /\ \A m \in Methods : Notify(m) \in EventOf(0..MaxId)
    <2>1. 0 \in 0..MaxId
      BY WsAssumption
    <2> DEFINE I == 0..MaxId
    <2> HIDE DEF I
    <2>2. 0 \in I
      BY <2>1 DEF I
    <2>3. /\ Connected \in EventOf(I) /\ Disconnected \in EventOf(I)
          /\ \A n \in I : Reply(n) \in EventOf(I)
          /\ \A m \in Methods : Notify(m) \in EventOf(I)
      BY <2>2 DEF EventOf, Connected, Disconnected, Reply, Notify, None
    <2> QED
      BY <2>3 DEF I
  <1>2. CASE onopen
    <2>1. Pushes(Connected)
      BY <1>2, EventFacts DEF onopen, Known, Pushes
    <2> QED
      BY <1>1, <2>1
  <1>3. CASE onclose
    <2>1. Pushes(Disconnected)
      BY <1>3, EventFacts DEF onclose, Pushes
    <2> QED
      BY <1>1, <2>1
  <1>4. ASSUME NEW n \in server, onmessageReply(n)
        PROVE  \E ev \in EventOf(0..MaxId) : Pushes(ev)
    <2>1. n \in 0..MaxId /\ n \in Nat
      <3>1. n \in 0..(id - 1) /\ id \in Nat /\ id <= MaxId /\ MaxId \in Nat
        BY WsAssumption DEF Known, TypeOK
      <3> QED
        BY <3>1
    <2>2. Reply(n).kind = "Reply" /\ Reply(n).id = n /\ Reply(n) \in Event
      BY <2>1, EventFacts
    <2>3. up
      BY DEF Known
    <2>4. Pushes(Reply(n))
      BY <1>4, <2>2, <2>3 DEF onmessageReply, Pushes
    <2> QED
      BY <1>1, <2>1, <2>4
  <1>5. ASSUME NEW m \in Methods, onmessageNotify(m)
        PROVE  \E ev \in EventOf(0..MaxId) : Pushes(ev)
    <2>1. Pushes(Notify(m))
      <3>1. Notify(m) \in Event /\ Notify(m).kind = "Notify"
        BY EventFacts
      <3>2. /\ server' = server /\ opens' = opens /\ push(Notify(m))
            /\ UNCHANGED <<thread, tables, requests>>
        BY <1>5 DEF onmessageNotify
      <3>3. up'
        BY <1>5 DEF onmessageNotify
      <3> QED
        BY <3>1, <3>2, <3>3 DEF Pushes
    <2> QED
      BY <1>1, <2>1
  <1> QED
    BY <1>2, <1>3, <1>4, <1>5 DEF Libhv


-----------------------------------------------------------------------------
(* Counting connections.                                                   *)

(* An event is put: a Connected event counts, a reply is of the newest.    *)
LEMMA NumberPut ==
  ASSUME NEW S, NEW q \in Seq(S), NEW e \in S, NEW o, NEW c \in Nat, NEW a, Numbered(q, o, c, a)
         , e.kind = "Reply" => a[e.id].conn = c
  PROVE  Numbered(Append(q, e), o, IF e.kind = "Connected" THEN c + 1 ELSE c, a)
  <1> DEFINE l == Len(q)
             d == Append(q, e)
             c2 == IF e.kind = "Connected" THEN c + 1 ELSE c
  <1>1. l \in Nat /\ Len(d) = l + 1 /\ d[l + 1] = e /\ \A i \in 1..l : d[i] = q[i]
    OBVIOUS
  <1>2. c2 \in Nat
    OBVIOUS
  <1>3. PICK num : Numbers(num, q, o, c, a)
    BY DEF Numbered
  <1>4. /\ num \in [1..(l + 1) -> Nat] /\ num[1] = o /\ num[l + 1] = c
        /\ \A i \in 1..l :
             /\ num[i + 1] = IF q[i].kind = "Connected" THEN num[i] + 1 ELSE num[i]
             /\ q[i].kind = "Reply" => a[q[i].id].conn = num[i]
    BY <1>3 DEF Numbers
  <1> DEFINE num2 == [i \in 1..(l + 2) |-> IF i <= l + 1 THEN num[i] ELSE c2]
  <1> HIDE DEF l, d, c2
  <1>5. /\ num2 \in [1..(l + 2) -> Nat] /\ num2[l + 2] = c2 /\ num2[1] = o
        /\ \A i \in 1..(l + 1) : num2[i] = num[i]
    BY <1>1, <1>2, <1>4
  <1> HIDE DEF num2
  <1>6. ASSUME NEW i \in 1..(l + 1)
        PROVE  /\ num2[i + 1] = IF d[i].kind = "Connected" THEN num2[i] + 1 ELSE num2[i]
               /\ d[i].kind = "Reply" => a[d[i].id].conn = num2[i]
    <2>1. CASE i \in 1..l
      <3>1. i + 1 \in 1..(l + 1) /\ d[i] = q[i] /\ num2[i + 1] = num[i + 1] /\ num2[i] = num[i]
        BY <1>1, <1>5, <2>1
      <3> QED
        BY <1>4, <2>1, <3>1
    <2>2. CASE i = l + 1
      <3>1. i + 1 = l + 2 /\ d[i] = e /\ num2[i] = c /\ num2[i + 1] = c2
        BY <1>1, <1>4, <1>5, <2>2
      <3> QED
        BY <3>1 DEF c2
    <2> QED
      BY <1>1, <2>1, <2>2
  <1>7. Numbers(num2, d, o, c2, a)
    <2>1. Len(d) + 1 = l + 2
      BY <1>1
    <2> QED
      BY <1>1, <1>5, <1>6, <2>1 DEF Numbers
  <1> QED
    BY <1>7 DEF Numbered, d, c2

(* An event other than Connected is dropped.                               *)
LEMMA NumberDrop ==
  ASSUME NEW S, NEW q \in Seq(S), NEW k \in 1..Len(q), q[k].kind # "Connected"
         , NEW o, NEW c, NEW a, Numbered(q, o, c, a)
  PROVE  Numbered(Drop(q, k), o, c, a)
  <1> DEFINE l == Len(q)
             d == Drop(q, k)
  <1>1. /\ l \in Nat \ {0} /\ Len(d) = l - 1
        /\ \A i \in 1..(l - 1) : d[i] = IF i < k THEN q[i] ELSE q[i + 1]
    BY DEF Drop
  <1>2. PICK num : Numbers(num, q, o, c, a)
    BY DEF Numbered
  <1>3. /\ num \in [1..(l + 1) -> Nat] /\ num[1] = o /\ num[l + 1] = c
        /\ \A i \in 1..l :
             /\ num[i + 1] = IF q[i].kind = "Connected" THEN num[i] + 1 ELSE num[i]
             /\ q[i].kind = "Reply" => a[q[i].id].conn = num[i]
    BY <1>2 DEF Numbers
  <1> DEFINE num2 == [i \in 1..l |-> IF i <= k THEN num[i] ELSE num[i + 1]]
  <1>4. k \in 1..l /\ num[k + 1] = num[k]
    BY <1>3
  <1> HIDE DEF l, d
  <1>5. /\ num2 \in [1..l -> Nat] /\ num2[1] = o
        /\ \A i \in 1..l : num2[i] = IF i <= k THEN num[i] ELSE num[i + 1]
    BY <1>1, <1>3, <1>4
  <1> HIDE DEF num2
  <1>6. num2[l] = c
    <2>1. CASE k = l
      BY <1>1, <1>3, <1>4, <1>5, <2>1
    <2>2. CASE k < l
      BY <1>1, <1>3, <1>4, <1>5, <2>2
    <2> QED
      BY <1>1, <1>4, <2>1, <2>2
  <1>7. ASSUME NEW i \in 1..(l - 1)
        PROVE  /\ num2[i + 1] = IF d[i].kind = "Connected" THEN num2[i] + 1 ELSE num2[i]
               /\ d[i].kind = "Reply" => a[d[i].id].conn = num2[i]
    <2>0. i \in Nat /\ i \in 1..l /\ i + 1 \in 1..l /\ k \in Nat
      BY <1>1, <1>4
    <2>1. CASE i < k
      <3>1. d[i] = q[i] /\ num2[i] = num[i] /\ num2[i + 1] = num[i + 1]
        BY <1>1, <1>5, <2>0, <2>1
      <3> QED
        BY <1>3, <2>0, <3>1
    <2>2. CASE ~(i < k)
      <3>1. d[i] = q[i + 1] /\ num2[i + 1] = num[i + 1 + 1]
        BY <1>1, <1>5, <2>0, <2>2
      <3>2. num2[i] = num[i + 1]
        <4>1. CASE i = k
          BY <1>4, <1>5, <2>0, <4>1
        <4>2. CASE i # k
          BY <1>5, <2>0, <2>2, <4>2
        <4> QED
          BY <4>1, <4>2
      <3> QED
        BY <1>3, <2>0, <3>1, <3>2
    <2> QED
      BY <2>1, <2>2
  <1>8. Numbers(num2, d, o, c, a)
    <2>1. Len(d) + 1 = l
      BY <1>1
    <2> QED
      BY <1>1, <1>5, <1>6, <1>7, <2>1 DEF Numbers
  <1> QED
    BY <1>8 DEF Numbered, d

(* The oldest event is taken: it is met at the first number.               *)
LEMMA NumberTake ==
  ASSUME NEW S, NEW q \in Seq(S), q # <<>>, NEW o, NEW c, NEW a, Numbered(q, o, c, a)
  PROVE  /\ Numbered(Tail(q), IF q[1].kind = "Connected" THEN o + 1 ELSE o, c, a)
         /\ q[1].kind = "Reply" => a[q[1].id].conn = o
  <1> DEFINE l == Len(q)
             d == Tail(q)
             o2 == IF q[1].kind = "Connected" THEN o + 1 ELSE o
  <1>1. l \in Nat \ {0} /\ Len(d) = l - 1 /\ \A i \in 1..(l - 1) : d[i] = q[i + 1]
    OBVIOUS
  <1>2. PICK num : Numbers(num, q, o, c, a)
    BY DEF Numbered
  <1>3. /\ num \in [1..(l + 1) -> Nat] /\ num[1] = o /\ num[l + 1] = c
        /\ \A i \in 1..l :
             /\ num[i + 1] = IF q[i].kind = "Connected" THEN num[i] + 1 ELSE num[i]
             /\ q[i].kind = "Reply" => a[q[i].id].conn = num[i]
    BY <1>2 DEF Numbers
  <1> DEFINE num2 == [i \in 1..l |-> num[i + 1]]
  <1>4. num[1 + 1] = o2 /\ (q[1].kind = "Reply" => a[q[1].id].conn = o)
    BY <1>1, <1>3
  <1> HIDE DEF l, d, o2
  <1>5. /\ num2 \in [1..l -> Nat] /\ num2[1] = o2 /\ num2[l] = c
        /\ \A i \in 1..l : num2[i] = num[i + 1]
    BY <1>1, <1>3, <1>4
  <1> HIDE DEF num2
  <1>6. ASSUME NEW i \in 1..(l - 1)
        PROVE  /\ num2[i + 1] = IF d[i].kind = "Connected" THEN num2[i] + 1 ELSE num2[i]
               /\ d[i].kind = "Reply" => a[d[i].id].conn = num2[i]
    <2>1. i \in 1..l /\ i + 1 \in 1..l
      BY <1>1
    <2>2. d[i] = q[i + 1] /\ num2[i] = num[i + 1] /\ num2[i + 1] = num[i + 1 + 1]
      BY <1>1, <1>5, <2>1
    <2> QED
      BY <1>3, <2>1, <2>2
  <1>7. Numbers(num2, d, o2, c, a)
    <2>1. Len(d) + 1 = l
      BY <1>1
    <2> QED
      BY <1>1, <1>5, <1>6, <2>1 DEF Numbers
  <1> QED
    BY <1>4, <1>7 DEF Numbered, d, o2


-----------------------------------------------------------------------------
(* The invariant.                                                          *)

(* A reply under way is the reply to a request.                            *)
LEMMA PosAsked ==
  ASSUME NEW q, NEW D
  PROVE  (\A i \in DOMAIN q : q[i].kind = "Reply" => q[i].id \in D)
           <=> (\A n : Pos(q, n) # {} => n \in D)
  BY DEF Pos

(* libhv queues an event.                                                  *)
LEMMA LibhvDelivers ==
  ASSUME DInv, Libhv
  PROVE  Idle' /\ SameEvent' /\ Known' /\ Awaits(all)' /\ InTurn'
  <1>1. PICK ev \in EventOf(0..MaxId) : Pushes(ev)
    BY LibhvMoves DEF DInv, IInv
  <1>2. /\ ev \in Event /\ push(ev) /\ UNCHANGED <<thread, tables, requests>>
        /\ TypeOK /\ opens \in Nat /\ lostOpens \in Nat
    BY <1>1 DEF Pushes, DInv, IInv, TypeOK
  <1>3. /\ all \in Seq(Event) /\ all' \in Seq(Event)
        /\ \/ all' = Append(all, ev) /\ lostOpens' = lostOpens
           \/ \E k \in 1..Len(all) :
                /\ all' = Append(Drop(all, k), ev)
                /\ lostOpens' = IF all[k].kind = "Connected" THEN lostOpens + 1 ELSE lostOpens
    BY <1>2, PushMoves
  <1>4. \E mid \in Seq(Event) :
          /\ all' = Append(mid, ev) /\ Fewer(mid, all)
          /\ lostOpens' = 0 => lostOpens = 0 /\ Numbered(mid, opened, opens, asked)
    <2>1. lostOpens = 0 => Numbered(all, opened, opens, asked)
      BY DEF DInv, InTurn
    <2>2. CASE all' = Append(all, ev) /\ lostOpens' = lostOpens
      <3>1. Fewer(all, all)
        BY DEF Fewer
      <3> QED
        BY <1>3, <2>1, <2>2, <3>1
    <2>3. ASSUME NEW k \in 1..Len(all), all' = Append(Drop(all, k), ev)
                 , lostOpens' = IF all[k].kind = "Connected" THEN lostOpens + 1 ELSE lostOpens
          PROVE  \E mid \in Seq(Event) :
                   /\ all' = Append(mid, ev) /\ Fewer(mid, all)
                   /\ lostOpens' = 0 => lostOpens = 0 /\ Numbered(mid, opened, opens, asked)
      <3>1. Fewer(Drop(all, k), all) /\ Drop(all, k) \in Seq(Event)
        BY <1>3, DropFewer
      <3>2. ASSUME lostOpens' = 0
            PROVE  lostOpens = 0 /\ Numbered(Drop(all, k), opened, opens, asked)
        <4>1. lostOpens = 0 /\ all[k].kind # "Connected"
          BY <1>2, <2>3, <3>2
        <4> QED
          BY <1>3, <2>1, <4>1, NumberDrop
      <3> QED
        BY <2>3, <3>1, <3>2
    <2> QED
      BY <1>3, <2>2, <2>3
  <1>5. PICK mid \in Seq(Event) :
          /\ all' = Append(mid, ev) /\ Fewer(mid, all)
          /\ lostOpens' = 0 => lostOpens = 0 /\ Numbered(mid, opened, opens, asked)
    BY <1>4
  <1>6. Idle' /\ SameEvent'
    BY <1>2 DEF DInv, Idle, SameEvent
  <1>7. Known'
    <2>1. \A n : Pos(all, n) # {} => n \in DOMAIN asked
      BY PosAsked DEF DInv, Known
    <2>2. \A n : Pos(all', n) # {} => n \in DOMAIN asked
      <3>1. ASSUME NEW n, Pos(all', n) # {}
            PROVE  n \in DOMAIN asked
        <4>1. CASE ev.kind = "Reply" /\ ev.id = n
          BY <1>1, <4>1 DEF Pushes, DInv, Known
        <4>2. CASE ~(ev.kind = "Reply" /\ ev.id = n)
          <5>1. Pos(all', n) = Pos(mid, n)
            BY <1>2, <1>5, <4>2, PutPos
          <5> QED
            BY <1>5, <2>1, <3>1, <5>1 DEF Fewer
        <4> QED
          BY <4>1, <4>2
      <3> QED
        BY <3>1
    <2>3. \A i \in DOMAIN all' : all'[i].kind = "Reply" => all'[i].id \in DOMAIN asked
      BY <2>2, PosAsked
    <2>4. \A n \in server' : n \in DOMAIN asked /\ asked[n].conn = opens'
      BY <1>1 DEF Pushes, DInv, Known
    <2>5. ~up' => server' = {}
      BY <1>1 DEF Pushes
    <2> QED
      BY <1>2, <2>3, <2>4, <2>5 DEF DInv, Known
  <1>8. ASSUME NEW n \in DOMAIN asked
        PROVE  /\ \A i, k \in Pos(all', n) : i = k
               /\ n \in server' => Pos(all', n) = {}
               /\ (n \in server' \/ Pos(all', n) # {}) /\ asked[n].who # Nobody
                    => n \in DOMAIN callbacks \cup DOMAIN consumers
    <2>1. /\ \A i, k \in Pos(all, n) : i = k
          /\ n \in server => Pos(all, n) = {}
          /\ (n \in server \/ Pos(all, n) # {}) /\ asked[n].who # Nobody
               => n \in DOMAIN callbacks \cup DOMAIN consumers
      BY DEF DInv, Awaits
    <2>2. /\ \A i, k \in Pos(mid, n) : i = k
          /\ Pos(mid, n) # {} => Pos(all, n) # {}
      BY <1>5, <2>1 DEF Fewer
    <2>3. CASE ev.kind = "Reply" /\ ev.id = n
      <3>1. n \in server /\ n \notin server'
        BY <1>1, <2>3 DEF Pushes
      <3>2. Pos(mid, n) = {}
        BY <2>1, <2>2, <3>1
      <3>3. \A i, k \in Pos(all', n) : i = k
        BY <1>2, <1>5, <3>2, PutPos
      <3> QED
        BY <2>1, <3>1, <3>3
    <2>4. CASE ~(ev.kind = "Reply" /\ ev.id = n)
      <3>1. Pos(all', n) = Pos(mid, n)
        BY <1>2, <1>5, <2>4, PutPos
      <3>2. n \in server' => n \in server
        BY <1>1 DEF Pushes
      <3> QED
        BY <2>1, <2>2, <3>1, <3>2
    <2> QED
      BY <2>3, <2>4
  <1>9. Awaits(all)'
    BY <1>2, <1>8 DEF Awaits
  <1>10. InTurn'
    <2>1. ASSUME lostOpens' = 0
          PROVE  Numbered(all', opened, opens', asked) /\ ReplyOnItsConnection'
      <3>1. lostOpens = 0 /\ Numbered(mid, opened, opens, asked)
        BY <1>5, <2>1
      <3>2. ReplyOnItsConnection'
        BY <1>2, <3>1 DEF DInv, InTurn, ReplyOnItsConnection
      <3>3. ev.kind = "Reply" => asked[ev.id].conn = opens
        BY <1>1 DEF Pushes, DInv, Known
      <3>4. opens' = IF ev.kind = "Connected" THEN opens + 1 ELSE opens
        BY <1>1 DEF Pushes
      <3> QED
        BY <1>2, <1>5, <3>1, <3>2, <3>3, <3>4, NumberPut
    <2> QED
      BY <1>2, <2>1 DEF InTurn
  <1> QED
    BY <1>6, <1>7, <1>9, <1>10


(* Calls about one event, ...                                              *)
About(u, ev) == u \in Seq(Call) /\ \A i \in DOMAIN u : u[i].re = ev

(* ... joined are calls about it.                                          *)
LEMMA AboutJoined ==
  ASSUME NEW s, NEW t, NEW ev, About(s, ev), About(t, ev)
  PROVE  About(s \o t, ev)
  BY DEF About

(* Every dispatch calls handlers about the event it took.                  *)
LEMMA DispatchAbout ==
  ASSUME TypeOK
  PROVE  /\ dispatchConnected => About(calls', Connected)
         /\ dispatchDisconnected => About(calls', Disconnected)
         /\ \A n \in DOMAIN asked : dispatchReply(n) => About(calls', Reply(n))
         /\ \A m \in Methods : dispatchNotify(m) => About(calls', Notify(m))
  <1>1. ASSUME NEW h \in Handler, NEW ev \in Event
        PROVE  About(To(h, ev), ev)
    <2>1. [to |-> h, re |-> ev] \in Call /\ [to |-> h, re |-> ev].re = ev
      BY DEF Call
    <2> QED
      BY <2>1 DEF To, About
  <1>2. \A ev : About(<<>>, ev)
    BY DEF About
  <1>3. dispatchConnected => About(calls', Connected)
    BY <1>1, EventFacts DEF dispatchConnected, Handler
  <1>4. dispatchDisconnected => About(calls', Disconnected)
    BY <1>1, EventFacts DEF dispatchDisconnected, Handler
  <1>5. ASSUME NEW n \in DOMAIN asked, dispatchReply(n)
        PROVE  About(calls', Reply(n))
    <2> DEFINE s == IF n \in DOMAIN consumers THEN To(consumers[n], Reply(n)) ELSE <<>>
               t == IF n \in DOMAIN callbacks THEN To(callbacks[n], Reply(n)) ELSE <<>>
    <2>1. Reply(n) \in Event
      BY EventFacts DEF TypeOK
    <2>2. /\ n \in DOMAIN consumers => consumers[n] \in Handler
          /\ n \in DOMAIN callbacks => callbacks[n] \in Handler
      BY DEF TypeOK, Handler
    <2>3. About(s, Reply(n)) /\ About(t, Reply(n))
      BY <1>1, <1>2, <2>1, <2>2
    <2>4. calls' = s \o t
      BY <1>5 DEF dispatchReply
    <2> HIDE DEF s, t
    <2> QED
      BY <2>3, <2>4, AboutJoined
  <1>6. ASSUME NEW m \in Methods, dispatchNotify(m)
        PROVE  About(calls', Notify(m))
    <2> DEFINE ev == Notify(m)
               a == IF m = "notify_status_update" THEN CallEach(notify_consumers, ev) ELSE <<>>
               b == IF m = "notify_klippy_disconnected" THEN To(OnDisconnected, ev)
                    ELSE IF m = "notify_klippy_ready" THEN To(OnConnected, ev)
                    ELSE <<>>
               c == CallEach(method_resp_cbs[m], ev)
    <2>1. ev \in Event
      BY EventFacts
    <2>2. notify_consumers \in Seq(Handler) /\ method_resp_cbs[m] \in Seq(Handler)
      BY DEF TypeOK, Handler
    <2>3. About(CallEach(notify_consumers, ev), ev) /\ About(c, ev)
      BY <2>1, <2>2, CallEachType DEF About
    <2>4. About(To(OnDisconnected, ev), ev) /\ About(To(OnConnected, ev), ev)
      BY <1>1, <2>1 DEF Handler
    <2>5. calls' = (a \o b) \o c
      BY <1>6 DEF dispatchNotify
    <2>6. About(a, ev) /\ About(b, ev)
      BY <1>2, <2>3, <2>4
    <2> HIDE DEF a, b, c, ev
    <2>7. About(a \o b, ev)
      BY <2>6, AboutJoined
    <2>8. About(calls', ev)
      BY <2>3, <2>5, <2>7, AboutJoined
    <2> QED
      BY <2>8 DEF ev
  <1> QED
    BY <1>3, <1>4, <1>5, <1>6

(* An event is dispatched.                                                 *)
LEMMA DispatchDelivers ==
  ASSUME DInv, NEW ev, Take(ev), About(calls', ev)
         , opened' = IF ev.kind = "Connected" THEN opened + 1 ELSE opened
         , \A n : ~(ev.kind = "Reply" /\ ev.id = n) /\ n \in DOMAIN callbacks \cup DOMAIN consumers
                    => n \in DOMAIN callbacks' \cup DOMAIN consumers'
  PROVE  Idle' /\ SameEvent' /\ Known' /\ Awaits(all)' /\ InTurn'
  <1>1. /\ all \in Seq(Event) /\ all # <<>> /\ ev = all[1] /\ ev \in Event /\ all' = Tail(all)
        /\ calls = <<>> /\ pc' = "drain"
        /\ UNCHANGED <<libhv, lostOpens, requests>>
    BY TakeMoves DEF DInv, IInv, Take
  <1>2. /\ Fewer(all', all) /\ 1 \in DOMAIN all
        /\ \A n : 1 \in Pos(all, n) /\ (\A i, k \in Pos(all, n) : i = k) => Pos(all', n) = {}
    BY <1>1, TailFewer
  <1>3. Idle'
    BY <1>1 DEF Idle
  <1>4. SameEvent'
    <2>1. \A i \in DOMAIN calls' : 1 \in DOMAIN calls'
      BY DEF About
    <2> QED
      BY <2>1 DEF SameEvent, About
  <1>5. Known'
    <2>1. \A n : Pos(all, n) # {} => n \in DOMAIN asked
      BY PosAsked DEF DInv, Known
    <2>2. \A n : Pos(all', n) # {} => n \in DOMAIN asked
      BY <1>2, <2>1 DEF Fewer
    <2>3. \A i \in DOMAIN all' : all'[i].kind = "Reply" => all'[i].id \in DOMAIN asked
      BY <2>2, PosAsked
    <2> QED
      BY <1>1, <2>3 DEF DInv, Known
  <1>6. ASSUME NEW n \in DOMAIN asked
        PROVE  /\ \A i, k \in Pos(all', n) : i = k
               /\ n \in server => Pos(all', n) = {}
               /\ (n \in server \/ Pos(all', n) # {}) /\ asked[n].who # Nobody
                    => n \in DOMAIN callbacks' \cup DOMAIN consumers'
    <2>1. /\ \A i, k \in Pos(all, n) : i = k
          /\ n \in server => Pos(all, n) = {}
          /\ (n \in server \/ Pos(all, n) # {}) /\ asked[n].who # Nobody
               => n \in DOMAIN callbacks \cup DOMAIN consumers
      BY DEF DInv, Awaits
    <2>2. /\ \A i, k \in Pos(all', n) : i = k
          /\ Pos(all', n) # {} => Pos(all, n) # {}
      BY <1>2, <2>1 DEF Fewer
    <2>3. CASE ev.kind = "Reply" /\ ev.id = n
      <3>1. 1 \in Pos(all, n)
        BY <1>1, <1>2, <2>3 DEF Pos
      <3> QED
        BY <1>2, <2>1, <2>2, <3>1
    <2>4. CASE ~(ev.kind = "Reply" /\ ev.id = n)
      BY <2>1, <2>2, <2>4
    <2> QED
      BY <2>3, <2>4
  <1>7. Awaits(all)'
    BY <1>1, <1>6 DEF Awaits
  <1>8. InTurn'
    <2>1. ASSUME lostOpens = 0
          PROVE  Numbered(all', opened', opens, asked) /\ ReplyOnItsConnection'
      <3>1. Numbered(all, opened, opens, asked)
        BY <2>1 DEF DInv, InTurn
      <3>2. Numbered(all', opened', opens, asked) /\ (ev.kind = "Reply" => asked[ev.id].conn = opened)
        BY <1>1, <3>1, NumberTake
      <3>3. ReplyOnItsConnection'
        <4>1. ASSUME NEW i \in DOMAIN calls', IsReply(calls'[i])
              PROVE  asked[calls'[i].re.id].conn = opened'
          <5>1. calls'[i].re = ev
            BY DEF About
          <5>2. ev.kind = "Reply"
            BY <4>1, <5>1 DEF IsReply
          <5>3. opened' = opened
            BY <5>2
          <5> QED
            BY <3>2, <5>1, <5>2, <5>3
        <4>2. asked' = asked
          BY <1>1
        <4> QED
          BY <4>1, <4>2 DEF ReplyOnItsConnection, IsReply
      <3> QED
        BY <3>2, <3>3
    <2> QED
      BY <1>1, <2>1 DEF InTurn
  <1> QED
    BY <1>3, <1>4, <1>5, <1>7, <1>8

(* The LVGL thread's steps.                                                *)
LEMMA MainLoopDelivers ==
  ASSUME DInv, MainLoop
  PROVE  Idle' /\ SameEvent' /\ Known' /\ Awaits(all)' /\ InTurn'
  <1>0. TypeOK /\ Idle
    BY DEF DInv, IInv
  <1>1. CASE drain
    <2>1. all' = all
      BY <1>0, <1>1, DrainMoves
    <2>2. pc' = "drain" /\ UNCHANGED <<libhv, lostOpens, calls, opened, served, tables, requests>>
      BY <1>1 DEF drain
    <2> QED
      BY <2>1, <2>2 DEF DInv, Idle, SameEvent, Known, Awaits, InTurn, ReplyOnItsConnection
  <1>2. CASE dispatchConnected
    <2>1. About(calls', Connected) /\ Connected.kind = "Connected"
      BY <1>0, <1>2, DispatchAbout, EventFacts
    <2> QED
      BY <1>2, <2>1, DispatchDelivers DEF dispatchConnected
  <1>3. CASE dispatchDisconnected
    <2>1. About(calls', Disconnected) /\ Disconnected.kind = "Disconnected"
      BY <1>0, <1>3, DispatchAbout, EventFacts
    <2> QED
      BY <1>3, <2>1, DispatchDelivers DEF dispatchDisconnected
  <1>4. ASSUME NEW n \in DOMAIN asked, dispatchReply(n)
        PROVE  Idle' /\ SameEvent' /\ Known' /\ Awaits(all)' /\ InTurn'
    <2>1. n \in Nat
      BY <1>0 DEF TypeOK
    <2>2. About(calls', Reply(n)) /\ Reply(n).kind = "Reply" /\ Reply(n).id = n
      BY <1>0, <1>4, <2>1, DispatchAbout, EventFacts
    <2>3. /\ DOMAIN callbacks' = DOMAIN callbacks \ {n} /\ DOMAIN consumers' = DOMAIN consumers \ {n}
          /\ Take(Reply(n)) /\ opened' = opened
      BY <1>4 DEF dispatchReply, Without
    <2> QED
      BY <2>2, <2>3, DispatchDelivers
  <1>5. ASSUME NEW m \in Methods, dispatchNotify(m)
        PROVE  Idle' /\ SameEvent' /\ Known' /\ Awaits(all)' /\ InTurn'
    <2>1. About(calls', Notify(m)) /\ Notify(m).kind = "Notify"
      BY <1>0, <1>5, DispatchAbout, EventFacts
    <2> QED
      BY <1>5, <2>1, DispatchDelivers DEF dispatchNotify
  <1>6. CASE HandlerReturns \/ HandlerThrows \/ drainEnds
    <2>1. /\ all' = all /\ batch' = batch
          /\ UNCHANGED <<libhv, lostOpens, opened, served, tables, requests>>
      BY <1>6 DEF HandlerReturns, HandlerThrows, drainEnds, all
    <2>2. \A i \in DOMAIN calls' : \E k \in DOMAIN calls : calls'[i] = calls[k]
      <3>1. calls \in Seq(Call)
        BY <1>0 DEF TypeOK
      <3>2. CASE HandlerReturns
        <4>1. calls' = Tail(calls) /\ calls # <<>>
          BY <3>2 DEF HandlerReturns
        <4>2. \A i \in DOMAIN Tail(calls) : i + 1 \in DOMAIN calls /\ Tail(calls)[i] = calls[i + 1]
          BY <3>1, <4>1
        <4> QED
          BY <4>1, <4>2
      <3>3. CASE HandlerThrows
        BY <3>3 DEF HandlerThrows
      <3>4. CASE drainEnds
        BY <3>4 DEF drainEnds
      <3> QED
        BY <1>6, <3>2, <3>3, <3>4
    <2>3. Idle'
      BY <1>0, <1>6 DEF HandlerReturns, HandlerThrows, drainEnds, Idle
    <2>4. SameEvent'
      <3>1. \A i \in DOMAIN calls' : 1 \in DOMAIN calls'
        <4>1. calls' \in Seq(Call)
          BY <1>0, <1>6, MainLoopType DEF TypeOK
        <4> QED
          BY <4>1
      <3>2. \A i \in DOMAIN calls' : calls'[i].re = calls[1].re
        BY <2>2 DEF DInv, SameEvent
      <3> QED
        BY <3>1, <3>2 DEF SameEvent
    <2>5. lostOpens = 0 => ReplyOnItsConnection'
      BY <2>1, <2>2 DEF DInv, InTurn, ReplyOnItsConnection, IsReply
    <2> QED
      BY <2>1, <2>3, <2>4, <2>5 DEF DInv, Known, Awaits, InTurn
  <1> QED
    BY <1>1, <1>2, <1>3, <1>4, <1>5, <1>6 DEF MainLoop


(* The numbers do not depend on requests to come.                          *)
LEMMA NumberAsked ==
  ASSUME NEW S, NEW q \in Seq(S), NEW o, NEW c, NEW a, NEW b, NEW D, Numbered(q, o, c, a)
         , \A i \in DOMAIN q : q[i].kind = "Reply" => q[i].id \in D, \A n \in D : b[n] = a[n]
  PROVE  Numbered(q, o, c, b)
  <1>1. PICK num : Numbers(num, q, o, c, a)
    BY DEF Numbered
  <1>2. DOMAIN q = 1..Len(q)
    OBVIOUS
  <1>3. Numbers(num, q, o, c, b)
    BY <1>1, <1>2 DEF Numbers
  <1> QED
    BY <1>3 DEF Numbered

(* A request is sent with a handler filed for it, or with none.            *)
LEMMA SendDelivers ==
  ASSUME DInv, NEW who \in Callbacks \cup Consumers \cup {Nobody}, send_rpc(who)
         , UNCHANGED <<up, opens, queue, lostOpens, thread>>
         , DOMAIN callbacks \subseteq DOMAIN callbacks', DOMAIN consumers \subseteq DOMAIN consumers'
         , who = Nobody \/ id \in DOMAIN callbacks' \cup DOMAIN consumers'
  PROVE  Idle' /\ SameEvent' /\ Known' /\ Awaits(all)' /\ InTurn'
  <1>1. /\ DOMAIN asked' = DOMAIN asked \cup {id} /\ id \notin DOMAIN asked
        /\ asked'[id].who = who /\ \A n \in DOMAIN asked : asked'[n] = asked[n]
    BY SendType DEF DInv, IInv
  <1>2. asked'[id].conn = opens
    BY DEF send_rpc, With
  <1>3. /\ id' = id + 1 /\ id < MaxId /\ id \in Nat /\ MaxId \in Nat
        /\ server' = IF up THEN server \cup {id} ELSE server
    BY WsAssumption DEF send_rpc, DInv, IInv, TypeOK
  <1>4. all' = all /\ all \in Seq(Event)
    BY Joined DEF all, DInv, IInv, TypeOK
  <1>5. Idle' /\ SameEvent'
    BY DEF DInv, Idle, SameEvent
  <1>6. \A n : Pos(all, n) # {} => n \in DOMAIN asked
    BY PosAsked DEF DInv, Known
  <1>7. Known'
    <2>1. id' <= MaxId
      BY <1>3
    <2>2. \A n \in server' : n \in DOMAIN asked' /\ asked'[n].conn = opens
      BY <1>1, <1>2, <1>3 DEF DInv, Known
    <2>3. ~up' => server' = {}
      BY <1>3 DEF DInv, Known
    <2>4. \A i \in DOMAIN all' : all'[i].kind = "Reply" => all'[i].id \in DOMAIN asked'
      BY <1>1, <1>4 DEF DInv, Known
    <2> QED
      BY <2>1, <2>2, <2>3, <2>4 DEF Known
  <1>8. ASSUME NEW n \in DOMAIN asked'
        PROVE  /\ \A i, k \in Pos(all, n) : i = k
               /\ n \in server' => Pos(all, n) = {}
               /\ (n \in server' \/ Pos(all, n) # {}) /\ asked'[n].who # Nobody
                    => n \in DOMAIN callbacks' \cup DOMAIN consumers'
    <2>1. CASE n \in DOMAIN asked
      <3>1. n \in server' => n \in server
        BY <1>1, <1>3, <2>1
      <3> QED
        BY <1>1, <2>1, <3>1 DEF DInv, Awaits
    <2>2. CASE n = id
      <3>1. Pos(all, n) = {}
        BY <1>1, <1>6, <2>2
      <3> QED
        BY <1>1, <2>2, <3>1
    <2> QED
      BY <1>1, <2>1, <2>2
  <1>9. Awaits(all)'
    BY <1>4, <1>8 DEF Awaits
  <1>10. InTurn'
    <2>1. ASSUME lostOpens = 0
          PROVE  Numbered(all, opened, opens, asked') /\ ReplyOnItsConnection'
      <3>1. Numbered(all, opened, opens, asked) /\ ReplyOnItsConnection
        BY <2>1 DEF DInv, InTurn
      <3>2. \A i \in DOMAIN all : all[i].kind = "Reply" => all[i].id \in DOMAIN asked
        BY DEF DInv, Known
      <3>3. Numbered(all, opened, opens, asked')
        BY <1>1, <1>4, <3>1, <3>2, NumberAsked
      <3>4. ReplyOnItsConnection'
        BY <1>1, <2>1, <3>1 DEF ReplyOnItsConnection, DInv, IInv, CallsAsked, IsReply
      <3> QED
        BY <3>3, <3>4
    <2> QED
      BY <1>4, <2>1 DEF InTurn
  <1> QED
    BY <1>5, <1>7, <1>9, <1>10

(* What the panels call.                                                   *)
LEMMA PanelsDeliver ==
  ASSUME DInv, Panels
  PROVE  Idle' /\ SameEvent' /\ Known' /\ Awaits(all)' /\ InTurn'
  <1>1. ASSUME NEW cb \in Callbacks, send_jsonrpc_cb(cb)
        PROVE  Idle' /\ SameEvent' /\ Known' /\ Awaits(all)' /\ InTurn'
    <2>1. /\ send_rpc(cb) /\ UNCHANGED <<up, opens, queue, lostOpens, thread>>
          /\ DOMAIN callbacks' = DOMAIN callbacks \cup {id} /\ DOMAIN consumers' = DOMAIN consumers
      BY <1>1 DEF send_jsonrpc_cb, With
    <2> QED
      BY <2>1, SendDelivers
  <1>2. ASSUME NEW c \in Consumers, send_jsonrpc_consumer(c)
        PROVE  Idle' /\ SameEvent' /\ Known' /\ Awaits(all)' /\ InTurn'
    <2>1. /\ send_rpc(c) /\ UNCHANGED <<up, opens, queue, lostOpens, thread>>
          /\ DOMAIN consumers' = DOMAIN consumers \cup {id} /\ DOMAIN callbacks' = DOMAIN callbacks
      BY <1>2 DEF send_jsonrpc_consumer, With
    <2> QED
      BY <2>1, SendDelivers
  <1>3. CASE send_jsonrpc_plain
    <2>1. /\ send_rpc(Nobody) /\ UNCHANGED <<up, opens, queue, lostOpens, thread>>
          /\ DOMAIN consumers' = DOMAIN consumers /\ DOMAIN callbacks' = DOMAIN callbacks
      BY <1>3 DEF send_jsonrpc_plain
    <2> QED
      BY <2>1, SendDelivers
  <1>4. ASSUME UNCHANGED <<libhv, queue, lostOpens, thread, callbacks, consumers, requests>>
        PROVE  Idle' /\ SameEvent' /\ Known' /\ Awaits(all)' /\ InTurn'
    <2>1. all' = all
      BY <1>4 DEF all
    <2> QED
      BY <1>4, <2>1 DEF DInv, Idle, SameEvent, Known, Awaits, InTurn, ReplyOnItsConnection, IsReply
  <1>5. ASSUME NEW c \in Consumers, register_notify_update(c) \/ unregister_notify_update(c)
        PROVE  Idle' /\ SameEvent' /\ Known' /\ Awaits(all)' /\ InTurn'
    BY <1>4, <1>5 DEF register_notify_update, unregister_notify_update
  <1>6. ASSUME NEW r \in Registrations, register_method_callback(r[1], r[2])
        PROVE  Idle' /\ SameEvent' /\ Known' /\ Awaits(all)' /\ InTurn'
    BY <1>4, <1>6 DEF register_method_callback
  <1> QED
    BY <1>1, <1>2, <1>3, <1>5, <1>6 DEF Panels

(* The invariant holds in every state of every behaviour.                  *)
LEMMA DeliveryInvariant == Spec => []DInv
  <1>1. Init => DInv
    <2> SUFFICES ASSUME Init
                 PROVE  DInv
      OBVIOUS
    <2>1. IInv
      <3>1. TypeOK
        BY InitType
      <3>2. Filed /\ CallsAsked /\ ServedOnce
        BY DEF Init, Filed, CallsAsked, ServedOnce
      <3> QED
        BY <3>1, <3>2 DEF IInv
    <2>2. all = <<>>
      BY DEF all, Init
    <2>3. Idle /\ SameEvent
      BY DEF Init, Idle, SameEvent
    <2>4. Known /\ Awaits(all)
      BY <2>2, WsAssumption DEF Init, Known, Awaits, Pos
    <2>5. InTurn
      <3> DEFINE num == [i \in 1..1 |-> 0]
      <3>1. Len(<<>>) = 0 /\ num \in [1..(0 + 1) -> Nat] /\ num[1] = 0
        OBVIOUS
      <3> HIDE DEF num
      <3>2. Numbers(num, <<>>, 0, 0, <<>>)
        BY <3>1 DEF Numbers
      <3>3. Numbered(all, opened, opens, asked)
        BY <2>2, <3>2 DEF Numbered, Init
      <3> QED
        BY <3>3 DEF InTurn, Init, ReplyOnItsConnection
    <2> QED
      BY <2>1, <2>3, <2>4, <2>5 DEF DInv
  <1>2. DInv /\ [Next]_vars => DInv'
    <2> SUFFICES ASSUME DInv, [Next]_vars
                 PROVE  DInv'
      OBVIOUS
    <2>1. IInv'
      BY Inductive DEF DInv
    <2>2. CASE Libhv
      BY <2>1, <2>2, LibhvDelivers DEF DInv
    <2>3. CASE MainLoop
      BY <2>1, <2>3, MainLoopDelivers DEF DInv
    <2>4. CASE Panels
      BY <2>1, <2>4, PanelsDeliver DEF DInv
    <2>5. CASE UNCHANGED vars
      <3>1. all' = all
        BY <2>5 DEF all
      <3> QED
        BY <2>1, <2>5, <3>1 DEF DInv, Idle, SameEvent, Known, Awaits, InTurn, ReplyOnItsConnection, IsReply
    <2> QED
      BY <2>2, <2>3, <2>4, <2>5 DEF Next
  <1> QED
    BY <1>1, <1>2, PTL DEF Spec

(* A reply that is on its way, at Moonraker, in the queue or in the batch, *)
(* is there once and finds the handler that waits for it, whatever the     *)
(* queue dropped and however often the socket was opened again             *)
(* (KWebSocketClient::push, drain and dispatch).                           *)
THEOREM HandlersAwait == Spec => []HandlerAwaitsReply
  <1>1. ASSUME DInv
        PROVE  HandlerAwaitsReply
    <2> SUFFICES ASSUME NEW n \in DOMAIN asked
                 PROVE  (n \in server \/ InQueue(n) \/ InBatch(n)) =>
                          /\ asked[n].who # Nobody => n \in DOMAIN callbacks \cup DOMAIN consumers
                          /\ ~(n \in server /\ (InQueue(n) \/ InBatch(n)))
                          /\ ~(InQueue(n) /\ InBatch(n))
      BY DEF HandlerAwaitsReply
    <2>1. /\ batch \in Seq(Event) /\ queue \in Seq(Event) /\ n \in Nat
          /\ Reply(n).kind = "Reply" /\ Reply(n).id = n
      BY <1>1, EventFacts DEF DInv, IInv, TypeOK
    <2> DEFINE l == Len(batch)
    <2>2. /\ l \in Nat /\ \A i \in DOMAIN queue : l + i \in DOMAIN all /\ all[l + i] = queue[i] /\ l + i > l
          /\ \A i \in DOMAIN batch : i \in DOMAIN all /\ all[i] = batch[i] /\ i <= l
      BY <2>1 DEF all
    <2> HIDE DEF l
    <2>3. InQueue(n) => \E i \in Pos(all, n) : i \in Nat /\ i > l
      BY <2>1, <2>2 DEF InQueue, Pos
    <2>4. InBatch(n) => \E i \in Pos(all, n) : i \in Nat /\ i <= l
      BY <2>1, <2>2 DEF InBatch, Pos
    <2>5. /\ \A i, k \in Pos(all, n) : i = k
          /\ n \in server => Pos(all, n) = {}
          /\ (n \in server \/ Pos(all, n) # {}) /\ asked[n].who # Nobody
               => n \in DOMAIN callbacks \cup DOMAIN consumers
      BY <1>1 DEF DInv, Awaits
    <2>6. ~(InQueue(n) /\ InBatch(n))
      BY <2>2, <2>3, <2>4, <2>5
    <2> QED
      BY <2>3, <2>4, <2>5, <2>6
  <1> QED
    BY <1>1, DeliveryInvariant, PTL

(* As long as no Connected event was dropped, a reply is dispatched while  *)
(* connection_id() is the number of the connection that carried it.        *)
THEOREM RepliesInTurn == Spec => []ReplyOnItsConnection
  <1>1. DInv => ReplyOnItsConnection
    BY DEF DInv, InTurn, ReplyOnItsConnection
  <1> QED
    BY <1>1, DeliveryInvariant, PTL


-----------------------------------------------------------------------------
(* The mailbox.                                                            *)

(* The event whose handlers run.                                           *)
Got(cs) == IF cs = <<>> THEN None ELSE cs[1].re

(* An event is not the absence of one.                                     *)
LEMMA GotEvent ==
  ASSUME NEW cs \in Seq(Call), cs # <<>>
  PROVE  Got(cs) # None /\ 1 \in DOMAIN cs
  <1>1. 1 \in DOMAIN cs /\ cs[1] \in Call
    OBVIOUS
  <1>2. cs[1].re.kind # "None"
    BY <1>1 DEF Call, Event, EventOf
  <1>3. None.kind = "None"
    BY DEF None
  <1> QED
    BY <1>1, <1>2, <1>3 DEF Got

(* Every step is a step of the mailbox or leaves it alone.                 *)
LEMMA MailboxSteps ==
  ASSUME DInv, [Next]_vars
  PROVE  [Box!Next]_(Box!vars)
  <1>0. /\ TypeOK /\ Idle /\ Known /\ batch \in Seq(Event) /\ queue \in Seq(Event) /\ calls \in Seq(Call)
        /\ all \in Seq(Event) /\ all = batch \o queue /\ all' = batch' \o queue'
    BY Joined DEF DInv, IInv, TypeOK, all
  <1>1. ASSUME all' = all, Got(calls') = Got(calls)
        PROVE  [Box!Next]_(Box!vars)
    BY <1>0, <1>1 DEF Box!vars, Got
  <1>2. CASE Libhv
    <2>1. PICK ev \in EventOf(0..MaxId) : Pushes(ev)
      BY <1>0, <1>2, LibhvMoves
    <2>2. ev \in Event /\ push(ev) /\ batch' = batch /\ calls' = calls
      BY <2>1 DEF Pushes
    <2>3. CASE all' = Append(all, ev)
      <3>1. Box!Put(ev)
        BY <1>0, <2>2, <2>3 DEF Box!Put
      <3> QED
        BY <3>1 DEF Box!Next
    <2>4. ASSUME Len(all) >= QueueMax, NEW k \in 1..Len(all), all' = Append(Drop(all, k), ev)
          PROVE  [Box!Next]_(Box!vars)
      <3>1. Box!PutLossy(ev)
        BY <1>0, <2>2, <2>4 DEF Box!PutLossy, Box!Without, Drop
      <3> QED
        BY <3>1 DEF Box!Next
    <2> QED
      BY <1>0, <2>2, <2>3, <2>4, PushMoves
  <1>3. ASSUME NEW ev, Take(ev), About(calls', ev)
        PROVE  [Box!Next]_(Box!vars)
    <2>1. all # <<>> /\ ev = all[1] /\ all' = Tail(all) /\ calls = <<>>
      BY <1>0, <1>3, TakeMoves
    <2>2. Got(calls') \in {ev, None} /\ Got(calls) = None
      <3>1. CASE calls' = <<>>
        BY <2>1, <3>1 DEF Got
      <3>2. CASE calls' # <<>>
        <4>1. 1 \in DOMAIN calls'
          BY <1>3, <3>2, GotEvent DEF About
        <4> QED
          BY <1>3, <2>1, <3>2, <4>1 DEF Got, About
      <3> QED
        BY <3>1, <3>2
    <2>3. Head(all) = all[1]
      BY <1>0, <2>1
    <2>4. Box!Get
      BY <1>0, <2>1, <2>2, <2>3 DEF Box!Get, Got
    <2> QED
      BY <2>4 DEF Box!Next
  <1>4. CASE HandlerReturns \/ HandlerThrows
    <2>1. calls # <<>> /\ all' = all /\ calls' \in {Tail(calls), <<>>} /\ calls' \in Seq(Call)
      <3>1. calls # <<>> /\ calls' \in {Tail(calls), <<>>} /\ UNCHANGED <<batch, queue>>
        BY <1>4 DEF HandlerReturns, HandlerThrows
      <3>2. Tail(calls) \in Seq(Call) /\ <<>> \in Seq(Call)
        BY <1>0, <3>1
      <3> QED
        BY <1>0, <3>1, <3>2
    <2>2. CASE calls' = <<>>
      <3>1. Got(calls) # None /\ Got(calls') = None
        BY <1>0, <2>1, <2>2, GotEvent DEF Got
      <3>2. Box!Done
        BY <1>0, <2>1, <3>1 DEF Box!Done, Got
      <3> QED
        BY <3>2 DEF Box!Next
    <2>3. CASE calls' # <<>>
      <3>1. calls' = Tail(calls) /\ 1 \in DOMAIN calls'
        BY <2>1, <2>3, GotEvent
      <3>2. 2 \in DOMAIN calls /\ calls'[1] = calls[2]
        BY <1>0, <2>1, <3>1
      <3>3. calls'[1].re = calls[1].re
        BY <3>2 DEF DInv, SameEvent
      <3>4. Got(calls') = Got(calls)
        BY <2>1, <2>3, <3>3 DEF Got
      <3> QED
        BY <1>1, <2>1, <3>4
    <2> QED
      BY <2>2, <2>3
  <1>5. CASE MainLoop
    <2>1. CASE drain
      <3>1. all' = all /\ calls' = calls
        BY <1>0, <2>1, DrainMoves DEF drain
      <3> QED
        BY <1>1, <3>1
    <2>2. CASE dispatchConnected
      BY <1>0, <1>3, <2>2, DispatchAbout DEF dispatchConnected
    <2>3. CASE dispatchDisconnected
      BY <1>0, <1>3, <2>3, DispatchAbout DEF dispatchDisconnected
    <2>4. ASSUME NEW n \in DOMAIN asked, dispatchReply(n)
          PROVE  [Box!Next]_(Box!vars)
      BY <1>0, <1>3, <2>4, DispatchAbout DEF dispatchReply
    <2>5. ASSUME NEW m \in Methods, dispatchNotify(m)
          PROVE  [Box!Next]_(Box!vars)
      BY <1>0, <1>3, <2>5, DispatchAbout DEF dispatchNotify
    <2>6. CASE drainEnds
      <3>1. all' = all /\ calls' = calls
        BY <1>0, <2>6 DEF drainEnds
      <3> QED
        BY <1>1, <3>1
    <2> QED
      BY <1>4, <1>5, <2>1, <2>2, <2>3, <2>4, <2>5, <2>6 DEF MainLoop
  <1>6. CASE Panels \/ UNCHANGED vars
    <2>1. UNCHANGED <<batch, queue, calls>>
      BY <1>6 DEF Panels, send_jsonrpc_cb, send_jsonrpc_consumer, send_jsonrpc_plain,
                  register_notify_update, unregister_notify_update, register_method_callback
    <2> QED
      BY <1>0, <1>1, <2>1
  <1> QED
    BY <1>2, <1>5, <1>6 DEF Next

(* The queue and the drained batch implement the abstract mailbox as far   *)
(* as its steps go: events are dispatched in the order they came, one at a *)
(* time, and one is lost only to a full queue (KWebSocketClient::push,     *)
(* drain, dispatch).                                                       *)
THEOREM QueueIsMailbox == Spec => Box!Init /\ [][Box!Next]_(Box!vars)
  <1>1. Init => Box!Init
    BY DEF Init, Box!Init
  <1>2. DInv /\ [Next]_vars => [Box!Next]_(Box!vars)
    BY MailboxSteps
  <1> QED
    BY <1>1, <1>2, DeliveryInvariant, PTL DEF Spec
==============================================================================
