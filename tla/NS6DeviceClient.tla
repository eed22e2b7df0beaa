------------------------ MODULE NS6DeviceClient -------------------------
(* The client side of the earlier driver's Mach protocol (NS6DeviceClient.c). *)
(* A helper process owns one or more client handles.  Every operation is one  *)
(* synchronous exchange with a reply port of its own: the request may fail to  *)
(* be queued, and the client may stop waiting for a request that the service   *)
(* still handles later, in which case the answer has nowhere to go.            *)
EXTENDS NS6DeviceMachService

CONSTANTS
    Handles,  \* NS6DeviceClient structures
    Owner     \* the process each handle belongs to

VARIABLE client   \* [Handles -> [id, session]]; session 0: not connected

NoClient == [id |-> 0, session |-> 0]
ClientInit == client = [h \in Handles |-> NoClient]

Connected(h) == client[h].session # 0

\* Ids and sessions that some structure, message or lease still mentions; a new
\* one differs from all of them (mach_absolute_time mixed with a counter).
Requests == {service.request} \union {port[i] : i \in 1..Len(port)}
FreshIds ==
    Ids \ ({r.id : r \in Requests} \union {l.id : l \in service.leases}
               \union {client[h].id : h \in Handles})
FreshSessions ==
    Sessions \ ({r.session : r \in Requests} \union {client[h].session : h \in Handles})

--------------------------------------------------------------------------
(* exchange_message *)

\* The send times out when the port stays full.
Send(r) ==
    IF Len(port) < QueueLimit
    THEN /\ port' = Append(port, r)
         /\ answer' = [answer EXCEPT ![r.from] = Awaiting]
    ELSE /\ answer' = [answer EXCEPT ![r.from] = Failed]
         /\ UNCHANGED port

\* Nobody waits for the answers to p's requests any more.
Abandon(r, p) == IF r.from = p THEN [r EXCEPT !.expected = FALSE] ELSE r
AbandonAll(p) ==
    /\ port' = [i \in 1..Len(port) |-> Abandon(port[i], p)]
    /\ service' = [service EXCEPT !.request = Abandon(@, p)]

ExchangeTimesOut(p) ==
    /\ answer[p].state = "waiting"
    /\ answer' = [answer EXCEPT ![p] = Failed]
    /\ AbandonAll(p)
    /\ UNCHANGED <<alive, usb, client>>

Returned(p) == answer[p].state \in {"replied", "failed"}
Succeeded(p) == answer[p].state = "replied" /\ answer[p].status = "ok"
Forget(p) == answer' = [answer EXCEPT ![p] = Quiet]

--------------------------------------------------------------------------
(* The requests of the operations.  Hello carries a new client id, which the *)
(* handle keeps when the answer is good. *)

SendHello(h) ==
    /\ FreshIds # {}
    /\ LET id == CHOOSE i \in FreshIds : TRUE
       IN  /\ Send(Request("hello", Owner[h], id, 0, 0))
           /\ client' = [client EXCEPT ![h] = [id |-> id, session |-> 0]]

\* client' of a hello that returned: the memory is mapped with the session, or
\* the handle stays empty.
HelloReturned(h) ==
    [client EXCEPT ![h] = IF Succeeded(Owner[h])
                          THEN [@ EXCEPT !.session = answer[Owner[h]].session] ELSE NoClient]

SendControl(kind, h, value) ==
    Send(Request(kind, Owner[h], client[h].id, client[h].session, value))

\* The three results of ns6_device_client_get_state_result.
StateReady(p) == Succeeded(p)
StateReplaced(p) == answer[p].state = "replied" /\ answer[p].status = "badId"

==========================================================================
