------------------------------- MODULE DenoServe -------------------------------
(***************************************************************************)
(* How the Deno adapter brings requests to its JavaScript loop: the bounded *)
(* queue of a serve cycle and its waker (serve_registry.rs), DenoTransport, *)
(* serve_start, stop_serve and close_endpoint (dispatch.rs), the non-       *)
(* blocking dequeue (lib.rs) and the loop that calls it (adapter.ts).       *)
(*                                                                         *)
(* One endpoint; its serve cycles come one after the other, because         *)
(* serve.ts starts the next one only when the last has finished.  What      *)
(* becomes of a request that nobody answers is the matter of module         *)
(* RequestDispatch.                                                         *)
(***************************************************************************)
EXTENDS Naturals, Sequences

CONSTANTS DReq,        \* requests
          Size,        \* Size[r]: bytes of the encoded request
          Capacity,    \* QUEUE_CAPACITY
          MaxCycles    \* bound on the serve cycles

ASSUME DenoAssumption == Size \in [DReq -> Nat]

VARIABLES queues,      \* the serve queues, one per cycle
          registered,  \* the cycle whose queue is in the registry, 0 for none
          dreq,        \* dreq[r]: how far the delivery of r is, and to which queue
          loop,        \* the JavaScript loops, one per cycle
          stop,        \* the stopServe operation
          epOpen       \* the endpoint is open

denoVars == <<queues, registered, dreq, loop, stop, epOpen>>

PollBuf == 2   \* the loop's first buffer holds a small request

DenoInit ==
    /\ queues = <<>> /\ registered = 0
    /\ dreq = [r \in DReq |-> [at |-> "new", k |-> 0]]
    /\ loop = <<>> /\ stop = "idle" /\ epOpen = TRUE

Running == loop # <<>> /\ loop[Len(loop)].at # "over"

\* Fault: only a loop that is already waiting hears the callback.
wake_waiting_loop(k) ==
    loop' = [loop EXCEPT ![k].signal = @ \/ (queues[k].waker /\ loop[k].at = "wait")]

\* wake_request_loop: the callback reaches JavaScript if it was installed.
wake_request_loop(k) ==
    loop' = [loop EXCEPT ![k].signal = @ \/ queues[k].waker]

---------------------------------------------------------------------------
(* DenoTransport::deliver.  Handlers of an older cycle's connections may    *)
(* still call it.                                                           *)

DeliveryAt(r, l) == dreq[r].at = l

DeliveryTo(r, l) == dreq' = [dreq EXCEPT ![r].at = l]

Answer503(r) == DeliveryTo(r, "over")

DeliverLookup(r) ==
    /\ DeliveryAt(r, "new") /\ queues # <<>>
    /\ IF registered = 0 THEN Answer503(r)
       ELSE dreq' = [dreq EXCEPT ![r] = [at |-> "found", k |-> registered]]
    /\ UNCHANGED <<queues, registered, loop, stop, epOpen>>

DeliverCheck(r) ==
    /\ DeliveryAt(r, "found")
    /\ IF queues[dreq[r].k].shutdown THEN Answer503(r) ELSE DeliveryTo(r, "checked")
    /\ UNCHANGED <<queues, registered, loop, stop, epOpen>>

DeliverSend(r) ==
    /\ DeliveryAt(r, "checked")
    /\ IF Len(queues[dreq[r].k].q) >= Capacity
       THEN Answer503(r) /\ UNCHANGED queues
       ELSE /\ DeliveryTo(r, "wake")
            /\ queues' = [queues EXCEPT ![dreq[r].k].q = Append(@, r)]
    /\ UNCHANGED <<registered, loop, stop, epOpen>>

DeliverWake(r) ==
    /\ DeliveryAt(r, "wake") /\ DeliveryTo(r, "over")
    /\ wake_request_loop(dreq[r].k)
    /\ UNCHANGED <<queues, registered, stop, epOpen>>

---------------------------------------------------------------------------
(* serve_start and the installation of the waker.                          *)

serve_start ==
    /\ ~Running /\ epOpen /\ stop = "idle" /\ Len(queues) < MaxCycles
    /\ queues' = Append(queues, [q |-> <<>>, shutdown |-> FALSE, waker |-> FALSE])
    /\ registered' = Len(queues')
    /\ loop' = Append(loop, [at |-> "install", signal |-> FALSE, buf |-> PollBuf, retry |-> FALSE])
    /\ UNCHANGED <<dreq, stop, epOpen>>

LoopAt(k, l) == k \in DOMAIN loop /\ loop[k].at = l

LoopTo(k, l) == loop' = [loop EXCEPT ![k].at = l]

\* Without a queue the registration fails and the cycle is over.
InstallWaker(k) ==
    /\ LoopAt(k, "install")
    /\ IF registered = 0 THEN LoopTo(k, "over") /\ UNCHANGED queues
       ELSE /\ LoopTo(k, "installed")
            /\ queues' = [queues EXCEPT ![registered].waker = TRUE]
    /\ UNCHANGED <<registered, dreq, stop, epOpen>>

\* set_request_ready_waker looks for what arrived before it.
CheckWaiting(k) ==
    /\ LoopAt(k, "installed")
    /\ loop' = [loop EXCEPT ![k].at = "poll",
                            ![k].signal = @ \/ queues[k].shutdown \/ queues[k].q # <<>>]
    /\ UNCHANGED <<queues, registered, dreq, stop, epOpen>>

---------------------------------------------------------------------------
(* The request loop over iroh_http_try_next_request.                       *)

try_next_request(k) ==
    /\ LoopAt(k, "poll")
    /\ LoopTo(k, IF registered = 0 \/ queues[registered].shutdown THEN "settle" ELSE "recv")
    /\ UNCHANGED <<queues, registered, dreq, stop, epOpen>>

\* A request that does not fit is already out of the queue when the loop learns
\* the size; a second one in a row ends the loop with an error.
TryRecv(k) ==
    /\ LoopAt(k, "recv")
    /\ IF queues[k].q = <<>>
       THEN /\ loop' = [loop EXCEPT ![k].at = "wait", ![k].retry = FALSE]
            /\ UNCHANGED queues
       ELSE LET r == Head(queues[k].q)
                fits == Size[r] <= loop[k].buf
            IN  /\ queues' = [queues EXCEPT ![k].q = Tail(@)]
                /\ loop' = [loop EXCEPT
                     ![k].at = IF fits \/ ~loop[k].retry THEN "poll" ELSE "settle",
                     ![k].buf = IF fits \/ loop[k].retry THEN @ ELSE Size[r],
                     ![k].retry = ~fits]
    /\ UNCHANGED <<registered, dreq, stop, epOpen>>

LoopWakes(k) ==
    /\ LoopAt(k, "wait") /\ loop[k].signal
    /\ loop' = [loop EXCEPT ![k].at = "poll", ![k].signal = FALSE]
    /\ UNCHANGED <<queues, registered, dreq, stop, epOpen>>

\* The handlers have settled and the stop operation, if any, has returned.
LoopSettles(k) ==
    /\ LoopAt(k, "settle") /\ stop = "idle"
    /\ LoopTo(k, "over")
    /\ UNCHANGED <<queues, registered, dreq, stop, epOpen>>

---------------------------------------------------------------------------
(* stopServe, closeEndpoint and close_all.                                 *)

\* adapter.ts wakes the loop at once; the native call waits for serveStart.
stopServe ==
    /\ Running /\ stop = "idle" /\ ~queues[Len(queues)].shutdown
    /\ stop' = "called"
    /\ loop' = [loop EXCEPT ![Len(loop)].signal = TRUE]
    /\ UNCHANGED <<queues, registered, dreq, epOpen>>

signal_shutdown ==
    /\ stop = "called" /\ stop' = "drain"
    /\ IF registered = 0 THEN UNCHANGED <<queues, loop>>
       ELSE /\ queues' = [queues EXCEPT ![registered].shutdown = TRUE]
            /\ wake_request_loop(registered)
    /\ UNCHANGED <<registered, dreq, epOpen>>

\* Every request still queued is answered 503.
DrainQueue ==
    /\ stop = "drain" /\ stop' = "waiting"
    /\ queues' = IF registered = 0 THEN queues ELSE [queues EXCEPT ![registered].q = <<>>]
    /\ UNCHANGED <<registered, dreq, loop, epOpen>>

\* wait_serve_stop: the core loop has drained or run into its deadline.
StopReturns ==
    /\ stop = "waiting" /\ stop' = "idle"
    /\ UNCHANGED <<queues, registered, dreq, loop, epOpen>>

\* Fault: the queue is removed and nobody tells the loop.
remove_silently ==
    /\ registered' = 0
    /\ UNCHANGED <<queues, loop>>

\* serve_registry::remove, and shutdown_all for this endpoint.
remove ==
    /\ registered' = 0
    /\ IF registered = 0 THEN UNCHANGED <<queues, loop>>
       ELSE /\ queues' = [queues EXCEPT ![registered].shutdown = TRUE]
            /\ wake_request_loop(registered)

close_endpoint ==
    /\ epOpen /\ stop = "idle" /\ epOpen' = FALSE
    /\ remove
    /\ UNCHANGED <<dreq, stop>>

\* A signal handler: it waits for nothing, then wakes every JavaScript loop.
close_all ==
    /\ epOpen /\ stop # "idle" /\ epOpen' = FALSE
    /\ remove
    /\ UNCHANGED <<dreq, stop>>

---------------------------------------------------------------------------

DeliverStep(r) == DeliverLookup(r) \/ DeliverCheck(r) \/ DeliverSend(r) \/ DeliverWake(r)

LoopStep(k) ==
    \/ InstallWaker(k) \/ CheckWaiting(k) \/ try_next_request(k) \/ TryRecv(k)
    \/ LoopWakes(k) \/ LoopSettles(k)

StopStep == signal_shutdown \/ DrainQueue \/ StopReturns

DenoNext ==
    \/ \E r \in DReq : DeliverStep(r)
    \/ \E k \in 1..MaxCycles : LoopStep(k)
    \/ serve_start \/ stopServe \/ StopStep \/ close_endpoint \/ close_all

\* JavaScript runs its loop, Rust its deliveries and the stop operation.
DenoFairness ==
    /\ \A r \in DReq : WF_denoVars(DeliverStep(r))
    /\ \A k \in 1..MaxCycles : WF_denoVars(LoopStep(k))
    /\ WF_denoVars(StopStep)

---------------------------------------------------------------------------
(* Properties.                                                             *)

\* No wakeup is lost: a loop that waits without a signal under way has an empty
\* queue that is neither shut down nor removed, whatever order delivery, the
\* installation of the waker and stop came in (set_request_ready_waker,
\* wake_request_loop, signal_shutdown).
NoLostWake ==
    \A k \in DOMAIN loop :
        loop[k].at = "wait" /\ ~loop[k].signal =>
            /\ registered = k /\ ~queues[k].shutdown
            /\ queues[k].q = <<>> \/ \E r \in DReq : DeliveryAt(r, "wake") /\ dreq[r].k = k

\* Requests that arrive at an open cycle are drained, and a cycle that is
\* stopped, or whose endpoint is closed by whichever way, ends (try_next_request,
\* remove, shutdown_all; "otherwise the Deno process would never exit").
DenoServeSettles ==
    []<>(\A k \in DOMAIN loop :
           /\ queues[k].q = <<>> \/ queues[k].shutdown
           /\ queues[k].shutdown => loop[k].at = "over")
=============================================================================
