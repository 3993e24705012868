------------------------------ MODULE InFlight ------------------------------
(* The requests a browser tab has in flight.  The tab runs one handler at a *)
(* time, to its next await; an await puts a request into a slot, and the    *)
(* handler goes on when that slot's answer is taken.  Slots are independent: *)
(* answers are taken in any order.                                          *)
EXTENDS Integers

CONSTANT MaxInFlight   \* bound: requests in flight at once

VARIABLE request       \* the request, or the answer, in each slot

Slots == 1..MaxInFlight
Free == [kind |-> "none"]
FreeSlots == {i \in Slots : request[i] = Free}
Quiet == FreeSlots = Slots

(* A handler is called and sends r.                                         *)
Send(r) == \E i \in FreeSlots :
  /\ \A j \in FreeSlots : i <= j
  /\ request' = [request EXCEPT ![i] = r]

(* The handler waiting in slot i returns, or sends r next.                  *)
Ends(i) == request' = [request EXCEPT ![i] = Free]
GoesOn(i, r) == request' = [request EXCEPT ![i] = r]

(* A request is taken by the server, its answer by the page.                *)
AtServer(i) == request[i] # Free /\ request[i].at = "server"
Arrived(i, kind) == request[i] # Free /\ request[i].at = "page" /\ request[i].kind = kind
=============================================================================
