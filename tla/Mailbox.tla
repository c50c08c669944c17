------------------------------- MODULE Mailbox -------------------------------
(***************************************************************************)
(* What a hand-over queue between a receiving thread and the LVGL thread   *)
(* promises, whatever its implementation (KWebSocketClient::push / drain): *)
(* events come out in the order they went in; while the producer finds     *)
(* fewer than Cap events waiting nothing is lost; a put that finds the     *)
(* queue full may cost one event, never the one being put; the consumer is *)
(* handed one event at a time; and everything that is still in the box is  *)
(* eventually handed over.                                                 *)
(***************************************************************************)
EXTENDS Naturals, Sequences

CONSTANTS Events,   \* what can be put
          Cap,      \* the size from which a put may cost an event
          None      \* no event is being handled

VARIABLES box,      \* waiting events, oldest first
          got       \* the event being handled, or None

vars == <<box, got>>

Init == box = <<>> /\ got = None

\* The box without its i-th event.
Without(i) == [j \in 1..(Len(box) - 1) |-> IF j < i THEN box[j] ELSE box[j + 1]]

Put(e) == /\ box' = Append(box, e)
          /\ UNCHANGED got

PutLossy(e) == /\ Len(box) >= Cap
               /\ \E i \in 1..Len(box) : box' = Append(Without(i), e)
               /\ UNCHANGED got

\* The oldest event leaves, once the one before it has been handled; one that
\* nobody handles just leaves.
Get == /\ got = None /\ box # <<>>
       /\ got' \in {Head(box), None}
       /\ box' = Tail(box)

Done == /\ got # None
        /\ got' = None
        /\ UNCHANGED box

Next == (\E e \in Events : Put(e) \/ PutLossy(e)) \/ Get \/ Done

Spec == Init /\ [][Next]_vars /\ WF_vars(Get) /\ WF_vars(Done)
=============================================================================
