------------------------------- MODULE WsClient -------------------------------
(***************************************************************************)
(* KWebSocketClient (src/src/websocket_client.cpp, websocket_client.h):    *)
(* JSON-RPC over one websocket.  libhv's thread receives (onopen,          *)
(* onmessage, onclose) and only queues; the LVGL thread drains the queue   *)
(* and runs every handler.  Two threads meet in `queue` (queue_lock) and   *)
(* in the handler tables (cb_lock); each critical section is one step, so  *)
(* a push may fall between any two handlers.                               *)
(*                                                                         *)
(* Covered: the bounded queue that drops its oldest event, the batch a     *)
(* drain takes, id allocation with and without a handler, the hand-over    *)
(* of a reply to its handler, notifications, klippy_ready/disconnected,    *)
(* reconnects, handlers that send, register, or throw.                     *)
(* Left out: JSON contents, the handshake's API key, malformed messages    *)
(* (dropped in onmessage before they reach the queue).                     *)
(***************************************************************************)
EXTENDS Integers, Sequences, FiniteSets

CONSTANTS
  Callbacks,     \* std::function handlers a request can carry
  Consumers,     \* NotifyConsumer objects
  Names,         \* handler names given to register_method_callback
  Rank(_),       \* the order of Names in a std::map
  Registrations, \* the <<method, name>> pairs panels register
  Methods,       \* notification methods Moonraker may send
  QueueMax,      \* queue_max (512 in the code)
  MaxId,         \* bound: requests sent in one behaviour
  MaxOpens       \* bound: times the websocket opens in one behaviour

ASSUME WsAssumption == /\ QueueMax \in Nat \ {0}
                       /\ MaxId \in Nat /\ MaxOpens \in Nat
                       /\ Registrations \subseteq Methods \X Names

VARIABLES
  up,               \* libhv: the socket is open
  opens,            \* libhv: times it has opened
  server,           \* ids Moonraker has received on this socket, unanswered
  queue,            \* events waiting for the LVGL thread (queue_lock)
  queue_dropped,    \* an overflow has been logged since the last drain
  pc,               \* LVGL thread: "ui" (timers, input) or "drain"
  batch,            \* events drain() took and has not dispatched yet
  calls,            \* handlers of the event being dispatched, still to run
  id,               \* next JSON-RPC id (cb_lock / atomic)
  callbacks,        \* id -> callback     (cb_lock)
  consumers,        \* id -> consumer     (cb_lock)
  notify_consumers, \* vector of status consumers (cb_lock)
  method_resp_cbs,  \* method -> names registered, in map order (cb_lock)
  opened,           \* connection_id(): Connected events dispatched
  asked,            \* history: per id, who asked and on which socket
  served,           \* history: ids whose handler has been taken out
  lostOpens         \* history: Connected events the full queue dropped

libhv == <<up, opens, server>>
tables == <<callbacks, consumers, notify_consumers, method_resp_cbs>>
thread == <<pc, batch, calls, opened, served>>
requests == <<id, asked>>
vars == <<libhv, queue, queue_dropped, lostOpens, thread, tables, requests>>

\* Handlers that are not in a table.
OnConnected == "on_connected"
OnDisconnected == "on_disconnected"
Nobody == "nobody"

\* Events.  A Message is a reply (it has an id) or a notification (a method).
None == [kind |-> "None", id |-> 0, method |-> "none"]
Connected == [None EXCEPT !.kind = "Connected"]
Disconnected == [None EXCEPT !.kind = "Disconnected"]
Reply(n) == [None EXCEPT !.kind = "Reply", !.id = n]
Notify(m) == [None EXCEPT !.kind = "Notify", !.method = m]

EventOf(ids) == [kind : {"Connected", "Disconnected", "Reply", "Notify"},
                 id : ids, method : Methods \cup {"none"}]
Event == EventOf(Nat)

Handler == Callbacks \cup Consumers \cup Names \cup {OnConnected, OnDisconnected}
Call == [to : Handler, re : Event]

Without(f, n) == [k \in DOMAIN f \ {n} |-> f[k]]
With(f, n, v) == [k \in DOMAIN f \cup {n} |-> IF k = n THEN v ELSE f[k]]

Init ==
  /\ up = FALSE /\ opens = 0 /\ server = {}
  /\ queue = <<>> /\ queue_dropped = FALSE /\ lostOpens = 0
  /\ pc = "ui" /\ batch = <<>> /\ calls = <<>> /\ opened = 0
  /\ served = {}
  /\ callbacks = <<>> /\ consumers = <<>> /\ notify_consumers = <<>>
  /\ method_resp_cbs = [m \in Methods |-> <<>>]
  /\ id = 0 /\ asked = <<>>

-----------------------------------------------------------------------------
(* libhv's thread                                                          *)

MutPushDropsEarly(ev) ==
  IF Len(queue) + 1 >= QueueMax
  THEN /\ queue' = Append(IF queue = <<>> THEN queue ELSE Tail(queue), ev)
       /\ queue_dropped' = TRUE
       /\ UNCHANGED lostOpens
  ELSE /\ queue' = Append(queue, ev)
       /\ UNCHANGED <<queue_dropped, lostOpens>>

MutPushConnectedFirst(ev) ==
  /\ queue' = IF ev.kind = "Connected" THEN <<ev>> \o queue ELSE Append(queue, ev)
  /\ UNCHANGED <<queue_dropped, lostOpens>>

push(ev) ==
  IF Len(queue) >= QueueMax
  THEN /\ queue' = Append(Tail(queue), ev)
       /\ queue_dropped' = TRUE
       /\ lostOpens' = lostOpens + (IF Head(queue).kind = "Connected" THEN 1 ELSE 0)
  ELSE /\ queue' = Append(queue, ev)
       /\ UNCHANGED <<queue_dropped, lostOpens>>

onopen ==
  /\ ~up /\ opens < MaxOpens
  /\ up' = TRUE /\ opens' = opens + 1
  /\ push(Connected)
  /\ UNCHANGED <<server, thread, tables, requests>>

\* The socket closes: what Moonraker had not answered will not be answered.
\* A reconnect attempt that fails runs onclose too, with the socket down.
onclose ==
  /\ up \/ opens < MaxOpens
  /\ up' = FALSE /\ server' = {}
  /\ push(Disconnected)
  /\ UNCHANGED <<opens, thread, tables, requests>>

onmessageReply(n) ==
  /\ n \in server
  /\ server' = server \ {n}
  /\ push(Reply(n))
  /\ UNCHANGED <<up, opens, thread, tables, requests>>

onmessageNotify(m) ==
  /\ up
  /\ push(Notify(m))
  /\ UNCHANGED <<libhv, thread, tables, requests>>

-----------------------------------------------------------------------------
(* The LVGL thread: drain() and dispatch()                                 *)

drain ==
  /\ pc = "ui"
  /\ pc' = "drain"
  /\ batch' = queue /\ queue' = <<>> /\ queue_dropped' = FALSE
  /\ UNCHANGED <<libhv, lostOpens, calls, opened, served, tables, requests>>

\* The next event of the batch, once the previous one's handlers are done.
Take(ev) ==
  /\ pc = "drain" /\ calls = <<>> /\ batch # <<>> /\ ev = Head(batch)
  /\ batch' = Tail(batch)
  /\ UNCHANGED <<pc, libhv, queue, queue_dropped, lostOpens,
                 notify_consumers, method_resp_cbs, requests>>

To(h, ev) == <<[to |-> h, re |-> ev]>>

CallEach(hs, ev) == [i \in 1..Len(hs) |-> [to |-> hs[i], re |-> ev]]

dispatchConnected ==
  /\ Take(Connected)
  /\ opened' = opened + 1
  /\ calls' = To(OnConnected, Connected)
  /\ UNCHANGED <<served, callbacks, consumers>>

MutDisconnectedForgets ==
  /\ Take(Disconnected)
  /\ calls' = To(OnDisconnected, Disconnected)
  /\ callbacks' = <<>> /\ consumers' = <<>>
  /\ UNCHANGED <<opened, served>>

dispatchDisconnected ==
  /\ Take(Disconnected)
  /\ calls' = To(OnDisconnected, Disconnected)
  /\ UNCHANGED <<opened, served, callbacks, consumers>>

MutReplyKeepsHandler(n) ==
  /\ Take(Reply(n))
  /\ calls' = (IF n \in DOMAIN consumers THEN To(consumers[n], Reply(n)) ELSE <<>>)
              \o (IF n \in DOMAIN callbacks THEN To(callbacks[n], Reply(n)) ELSE <<>>)
  /\ served' = served \cup (({n} \cap DOMAIN callbacks) \cup ({n} \cap DOMAIN consumers))
  /\ UNCHANGED <<opened, callbacks, consumers>>

\* A reply: its handlers leave the tables under cb_lock, then run without it.
dispatchReply(n) ==
  /\ Take(Reply(n))
  /\ calls' = (IF n \in DOMAIN consumers THEN To(consumers[n], Reply(n)) ELSE <<>>)
              \o (IF n \in DOMAIN callbacks THEN To(callbacks[n], Reply(n)) ELSE <<>>)
  /\ served' = served \cup (({n} \cap DOMAIN callbacks) \cup ({n} \cap DOMAIN consumers))
  /\ consumers' = Without(consumers, n)
  /\ callbacks' = Without(callbacks, n)
  /\ UNCHANGED opened

\* A notification: status consumers, the session handlers, then the handlers
\* registered for the method, all copied out before the first one runs.
dispatchNotify(m) ==
  /\ Take(Notify(m))
  /\ calls' = (IF m = "notify_status_update"
               THEN CallEach(notify_consumers, Notify(m)) ELSE <<>>)
              \o (IF m = "notify_klippy_disconnected" THEN To(OnDisconnected, Notify(m))
                  ELSE IF m = "notify_klippy_ready" THEN To(OnConnected, Notify(m))
                  ELSE <<>>)
              \o CallEach(method_resp_cbs[m], Notify(m))
  /\ UNCHANGED <<opened, served, callbacks, consumers>>

\* The running handler returns.
HandlerReturns ==
  /\ calls # <<>>
  /\ calls' = Tail(calls)
  /\ UNCHANGED <<libhv, queue, queue_dropped, lostOpens, pc, batch, opened, served,
                 tables, requests>>

\* The running handler throws: KGuard ends this event, not the drain.
HandlerThrows ==
  /\ calls # <<>>
  /\ calls' = <<>>
  /\ UNCHANGED <<libhv, queue, queue_dropped, lostOpens, pc, batch, opened, served,
                 tables, requests>>

MutDrainTakesMore ==
  /\ pc = "drain" /\ calls = <<>> /\ batch = <<>>
  /\ pc' = IF queue = <<>> THEN "ui" ELSE "drain"
  /\ batch' = queue /\ queue' = <<>>
  /\ UNCHANGED <<libhv, queue_dropped, lostOpens, calls, opened, served,
                 tables, requests>>

drainEnds ==
  /\ pc = "drain" /\ calls = <<>> /\ batch = <<>>
  /\ pc' = "ui"
  /\ UNCHANGED <<libhv, queue, queue_dropped, lostOpens, batch, calls, opened,
                 served, tables, requests>>

-----------------------------------------------------------------------------
(* The LVGL thread: what panels call, from the UI or from inside a handler *)

PanelRuns == pc = "ui" \/ calls # <<>>

MutSendKeepsId(who) ==
  /\ asked' = With(asked, id, [who |-> who, conn |-> opens])
  /\ server' = IF up THEN server \cup {id} ELSE server
  /\ UNCHANGED id

\* The id is spent and the request leaves on the socket of the moment, if any.
send_rpc(who) ==
  /\ id < MaxId
  /\ id' = id + 1
  /\ asked' = With(asked, id, [who |-> who, conn |-> opens])
  /\ server' = IF up THEN server \cup {id} ELSE server

\* Nothing takes the handler back when the send fails.
send_jsonrpc_cb(cb) ==
  /\ PanelRuns
  /\ send_rpc(cb)
  /\ callbacks' = With(callbacks, id, cb)
  /\ UNCHANGED <<up, opens, queue, queue_dropped, lostOpens, thread, consumers,
                 notify_consumers, method_resp_cbs>>

send_jsonrpc_consumer(c) ==
  /\ PanelRuns
  /\ send_rpc(c)
  /\ consumers' = With(consumers, id, c)
  /\ UNCHANGED <<up, opens, queue, queue_dropped, lostOpens, thread, callbacks,
                 notify_consumers, method_resp_cbs>>

send_jsonrpc_plain ==
  /\ PanelRuns
  /\ send_rpc(Nobody)
  /\ UNCHANGED <<up, opens, queue, queue_dropped, lostOpens, thread, tables>>

register_notify_update(c) ==
  /\ PanelRuns
  /\ \A i \in 1..Len(notify_consumers) : notify_consumers[i] # c
  /\ notify_consumers' = Append(notify_consumers, c)
  /\ UNCHANGED <<libhv, queue, queue_dropped, lostOpens, thread, callbacks,
                 consumers, method_resp_cbs, requests>>

unregister_notify_update(c) ==
  /\ PanelRuns
  /\ \E i \in 1..Len(notify_consumers) :
       /\ notify_consumers[i] = c
       /\ notify_consumers' = [j \in 1..(Len(notify_consumers) - 1) |->
                                 IF j < i THEN notify_consumers[j] ELSE notify_consumers[j + 1]]
  /\ UNCHANGED <<libhv, queue, queue_dropped, lostOpens, thread, callbacks,
                 consumers, method_resp_cbs, requests>>

\* A name already registered for the method keeps its first handler.
register_method_callback(m, name) ==
  /\ PanelRuns
  /\ \A i \in 1..Len(method_resp_cbs[m]) : method_resp_cbs[m][i] # name
  /\ LET hs == method_resp_cbs[m] IN
     \E k \in 0..Len(hs) :
       /\ \A i \in 1..Len(hs) : (i <= k) <=> (Rank(hs[i]) < Rank(name))
       /\ method_resp_cbs' = [method_resp_cbs EXCEPT
            ![m] = [j \in 1..(Len(hs) + 1) |->
                      IF j <= k THEN hs[j] ELSE IF j = k + 1 THEN name ELSE hs[j - 1]]]
  /\ UNCHANGED <<libhv, queue, queue_dropped, lostOpens, thread, callbacks,
                 consumers, notify_consumers, requests>>

-----------------------------------------------------------------------------
Libhv ==
  \/ onopen
  \/ onclose
  \/ \E n \in server : onmessageReply(n)
  \/ \E m \in Methods : onmessageNotify(m)

\* Steps the LVGL thread goes on to take whatever the panels do.
MainLoop ==
  \/ drain
  \/ dispatchConnected
  \/ dispatchDisconnected
  \/ \E n \in DOMAIN asked : dispatchReply(n)
  \/ \E m \in Methods : dispatchNotify(m)
  \/ HandlerReturns
  \/ HandlerThrows
  \/ drainEnds

Panels ==
  \/ \E cb \in Callbacks : send_jsonrpc_cb(cb)
  \/ \E c \in Consumers : \/ send_jsonrpc_consumer(c)
                          \/ register_notify_update(c)
                          \/ unregister_notify_update(c)
  \/ send_jsonrpc_plain
  \/ \E r \in Registrations : register_method_callback(r[1], r[2])

Next == Libhv \/ MainLoop \/ Panels

\* GuppyScreen::loop drains on every turn and every handler returns.
Spec == Init /\ [][Next]_vars /\ WF_vars(MainLoop)

-----------------------------------------------------------------------------
\* Types of the two threads' state; every id below the next one has been asked.
TypeOK ==
  /\ up \in BOOLEAN /\ opens \in Nat /\ server \subseteq Nat
  /\ queue \in Seq(Event) /\ queue_dropped \in BOOLEAN /\ lostOpens \in Nat
  /\ pc \in {"ui", "drain"} /\ batch \in Seq(Event) /\ calls \in Seq(Call)
  /\ opened \in Nat /\ served \subseteq Nat
  /\ DOMAIN callbacks \subseteq Nat /\ \A n \in DOMAIN callbacks : callbacks[n] \in Callbacks
  /\ DOMAIN consumers \subseteq Nat /\ \A n \in DOMAIN consumers : consumers[n] \in Consumers
  /\ notify_consumers \in Seq(Consumers)
  /\ method_resp_cbs \in [Methods -> Seq(Names)]
  /\ id \in Nat
  /\ DOMAIN asked = 0..(id - 1)
  /\ \A n \in DOMAIN asked :
       asked[n] \in [who : Callbacks \cup Consumers \cup {Nobody}, conn : Nat]

IsReply(call) == call.re.kind = "Reply"

\* A reply is handed to whoever made that request, never to another caller.
\* The id is allocated and the handler filed under it in one cb_lock section,
\* and ids are not reused, so no interleaving of sends, replies and reconnects
\* can cross two requests.
ReplyToAsker ==
  \A i \in DOMAIN calls : IsReply(calls[i]) => calls[i].to = asked[calls[i].re.id].who

\* A handler is taken out of the tables at most once: an id that was served is
\* in no table, so neither a second reply nor a reconnect can run it again.
ServedOnce ==
  /\ served \cap (DOMAIN callbacks \cup DOMAIN consumers) = {}
  /\ DOMAIN callbacks \cap DOMAIN consumers = {}
  /\ served \subseteq DOMAIN asked

\* Where the reply to request n is.
InQueue(n) == \E i \in DOMAIN queue : queue[i] = Reply(n)
InBatch(n) == \E i \in DOMAIN batch : batch[i] = Reply(n)

\* Until a request's reply is dispatched its handler stays filed: a reply that
\* is on its way (at Moonraker, in the queue, in the batch) still finds the
\* handler, and is on its way in one place only.
HandlerAwaitsReply ==
  \A n \in DOMAIN asked :
    (n \in server \/ InQueue(n) \/ InBatch(n)) =>
      /\ asked[n].who # Nobody => n \in DOMAIN callbacks \cup DOMAIN consumers
      /\ ~(n \in server /\ (InQueue(n) \/ InBatch(n)))
      /\ ~(InQueue(n) /\ InBatch(n))

\* As long as no Connected event was dropped, a reply is dispatched while
\* connection_id() is the number of the very connection that carried it: the
\* FIFO order keeps a late reply from being mistaken for one of a newer
\* connection (PrintPanel compares connection_id() values to decide this).
ReplyOnItsConnection ==
  lostOpens = 0 =>
    \A i \in DOMAIN calls : IsReply(calls[i]) => asked[calls[i].re.id].conn = opened

\* The queue and the drained batch together are a lossy FIFO mailbox.
Box == INSTANCE Mailbox WITH Events <- EventOf(0..MaxId), Cap <- QueueMax, None <- None,
                             box <- batch \o queue,
                             got <- IF calls = <<>> THEN None ELSE calls[1].re
MailboxSpec == Box!Spec

\* A drain ends, however fast Moonraker keeps sending: it takes what was queued
\* when it began and no more, so the UI always gets its turn.
DrainEnds == pc = "drain" ~> pc = "ui"
=============================================================================
