--------------------------- MODULE ProactorThread ---------------------------
(***************************************************************************)
(* ProactorThread of myring: other threads, and callbacks that run on the  *)
(* loop thread itself, push requests to a queue and write to an eventfd;   *)
(* the loop waits for completions of its io_uring, among them that of a    *)
(* read of the eventfd, and then submits what is in the queue.             *)
(*                                                                         *)
(* The queue is the one of module MpmcQueue: a push first wins a place,    *)
(* then publishes the item; a pop fails while the oldest place is not      *)
(* published, even if younger ones are.  Submitting a request may fail: it *)
(* is then gone, without a callback.                                       *)
(***************************************************************************)
EXTENDS Integers, Sequences, Functions

CONSTANTS
  Pusher,         \* threads that push requests
  Loop, Stopper,  \* the loop thread; the thread that calls stop
  Request,
  NoRequest,      \* no request
  Wake,           \* the request that reads the eventfd
  Todo,           \* the requests each pusher pushes, in order
  Follow,         \* the request a callback pushes, or NoRequest
  Parts,          \* how often a request is submitted until it is finished
  Immediate,      \* the requests whose callback is invoked on submission (CLOSE)
  QueueCapacity,  \* kQueueCapacity
  MaxEvents,      \* max_events
  MaxFaults       \* bound on failures of the ring's calls

(* A request is made for one push and is nobody else's. *)
PushedOnce ==
  /\ \A t, u \in Pusher : \A i \in 1..Len(Todo[t]), j \in 1..Len(Todo[u]) :
       Todo[t][i] = Todo[u][j] => t = u /\ i = j
  /\ \A r, s \in Request : Follow[r] = Follow[s] => r = s \/ Follow[r] = NoRequest
  /\ \A r \in Request, t \in Pusher : Follow[r] \notin Range(Todo[t])

ProactorConstants ==
  /\ Todo \in [Pusher -> Seq(Request)]
  /\ Follow \in [Request -> Request \cup {NoRequest}]
  /\ Parts \in [Request -> Nat \ {0}]
  /\ {QueueCapacity, MaxEvents} \subseteq Nat \ {0}
  /\ MaxFaults \in Nat
  /\ Immediate \subseteq Request
  /\ Loop # Stopper /\ {Loop, Stopper} \cap Pusher = {}
  /\ NoRequest \notin Request /\ Wake \notin Request
  /\ PushedOnce

VARIABLES
  running, stop_called,
  queue,         \* places of the queue: a request and whether it is published
  todo,          \* what each pusher still has to push
  push,          \* what each thread is pushing: a request and the next step
  eventfd,       \* is the counter of wake_fd_ positive?
  wakeup_armed,  \* the flag of the code
  wakeup_read,   \* is the read of the eventfd submitted?
  kernel,        \* requests that are submitted and not completed
  cq,            \* completions
  ready,         \* the rest of ready_requests_
  inflight, left,
  called,        \* how often each request's callback was invoked at its end
  dropped,       \* requests that could not be submitted
  loop_pc,       \* of the loop thread
  faults

proactor_vars ==
  <<running, stop_called, queue, todo, push, eventfd, wakeup_armed, wakeup_read, kernel,
    cq, ready, inflight, left, called, dropped, loop_pc, faults>>
loop_vars == <<wakeup_armed, ready, inflight, left, called, dropped, loop_pc, faults>>
push_vars == <<queue, todo, push, eventfd>>

NoPush == [req |-> NoRequest, step |-> "idle"]

ProactorInit ==
  /\ running = TRUE /\ stop_called = FALSE
  /\ queue = <<>>
  /\ todo = Todo
  /\ push = [t \in Pusher \cup {Loop, Stopper} |-> NoPush]
  /\ eventfd = FALSE
  /\ wakeup_armed = FALSE /\ wakeup_read = FALSE
  /\ kernel = {} /\ cq = <<>> /\ ready = <<>>
  /\ inflight = {}
  /\ left = Parts
  /\ called = [r \in Request |-> 0]
  /\ dropped = {}
  /\ loop_pc = "top"
  /\ faults = 0

-----------------------------------------------------------------------------
(* push, on any thread *)

BeginPush(t) ==
  /\ push[t] = NoPush
  /\ todo[t] # <<>>
  /\ push' = [push EXCEPT ![t] = [req |-> Head(todo[t]), step |-> "place"]]
  /\ todo' = [todo EXCEPT ![t] = Tail(@)]
  /\ UNCHANGED <<running, stop_called, queue, eventfd, wakeup_read, kernel, cq, loop_vars>>

(* push_wait waits while the queue is full. *)
TakePlace(t) ==
  /\ push[t].step = "place"
  /\ Len(queue) < QueueCapacity
  /\ queue' = Append(queue, [req |-> push[t].req, published |-> FALSE])
  /\ push' = [push EXCEPT ![t].step = "publish"]
  /\ UNCHANGED <<running, stop_called, todo, eventfd, wakeup_read, kernel, cq, loop_vars>>

PublishPlace(t) ==
  /\ push[t].step = "publish"
  /\ queue' = [i \in DOMAIN queue |->
                 IF queue[i].req = push[t].req THEN [queue[i] EXCEPT !.published = TRUE]
                 ELSE queue[i]]
  /\ push' = [push EXCEPT ![t].step = "notify"]
  /\ UNCHANGED <<running, stop_called, todo, eventfd, wakeup_read, kernel, cq, loop_vars>>

(* Mutant: the write is left out when the loop has a read pending. *)
notify_wakeup_Armed(t) ==
  /\ push[t].step = "notify"
  /\ eventfd' = (eventfd \/ ~ wakeup_armed)
  /\ push' = [push EXCEPT ![t] = NoPush]
  /\ UNCHANGED <<running, stop_called, queue, todo, wakeup_read, kernel, cq, loop_vars>>

notify_wakeup(t) ==
  /\ push[t].step = "notify"
  /\ eventfd' = TRUE
  /\ push' = [push EXCEPT ![t] = NoPush]
  /\ UNCHANGED <<running, stop_called, queue, todo, wakeup_read, kernel, cq, loop_vars>>

Push(t) == TakePlace(t) \/ PublishPlace(t) \/ notify_wakeup(t)

-----------------------------------------------------------------------------
(* The kernel *)

Complete(r) ==
  /\ r \in kernel
  /\ kernel' = kernel \ {r}
  /\ cq' = Append(cq, r)
  /\ UNCHANGED <<running, stop_called, push_vars, wakeup_read, loop_vars>>

ReadEventfd ==
  /\ wakeup_read /\ eventfd
  /\ wakeup_read' = FALSE /\ eventfd' = FALSE
  /\ cq' = Append(cq, Wake)
  /\ UNCHANGED <<running, stop_called, queue, todo, push, kernel, loop_vars>>

-----------------------------------------------------------------------------
(* The loop; it waits while one of its callbacks pushes. *)

At(step) == loop_pc = step /\ push[Loop] = NoPush

Top ==
  /\ At("top")
  /\ IF ~ running THEN loop_pc' = "exited" /\ UNCHANGED <<wakeup_armed, wakeup_read>>
     ELSE loop_pc' = "wait" /\ wakeup_armed' = TRUE /\ wakeup_read' = (wakeup_read \/ ~ wakeup_armed)
  /\ UNCHANGED <<running, stop_called, push_vars, kernel, cq, ready, inflight, left, called, dropped, faults>>

(* The eventfd cannot be read: the loop ends by itself. *)
ArmFails ==
  /\ At("top") /\ running /\ ~ wakeup_armed
  /\ faults < MaxFaults
  /\ faults' = faults + 1
  /\ running' = FALSE
  /\ loop_pc' = "exited"
  /\ UNCHANGED <<stop_called, push_vars, wakeup_armed, wakeup_read, kernel, cq, ready, inflight, left, called, dropped>>

wait_one ==
  /\ At("wait")
  /\ cq # <<>>
  /\ ready' = <<Head(cq)>>
  /\ cq' = Tail(cq)
  /\ loop_pc' = "handle"
  /\ UNCHANGED <<running, stop_called, push_vars, wakeup_armed, wakeup_read, kernel, inflight, left, called, dropped, faults>>

(* io_uring_wait_cqe fails, for instance with EINTR. *)
WaitFails ==
  /\ At("wait")
  /\ faults < MaxFaults
  /\ faults' = faults + 1
  /\ loop_pc' = IF running THEN "top" ELSE "exited"
  /\ UNCHANGED <<running, stop_called, push_vars, wakeup_armed, wakeup_read, kernel, cq, ready, inflight, left, called, dropped>>

peek_batch ==
  /\ At("handle")
  /\ ready = <<>>
  /\ LET n == IF Len(cq) < MaxEvents THEN Len(cq) ELSE MaxEvents
     IN  /\ ready' = SubSeq(cq, 1, n)
         /\ cq' = SubSeq(cq, n + 1, Len(cq))
         /\ loop_pc' = IF n = 0 THEN "top" ELSE "handle"
  /\ UNCHANGED <<running, stop_called, push_vars, wakeup_armed, wakeup_read, kernel, inflight, left, called, dropped, faults>>

handle_wakeup ==
  /\ At("handle")
  /\ ready # <<>> /\ Head(ready) = Wake
  /\ ready' = Tail(ready)
  /\ wakeup_armed' = FALSE
  /\ loop_pc' = IF running THEN "drain" ELSE "handle"
  /\ UNCHANGED <<running, stop_called, push_vars, wakeup_read, kernel, cq, inflight, left, called, dropped, faults>>

(* The callback of a request's end, which may push another one. *)
invoke_request_callback(r) ==
  /\ called' = [called EXCEPT ![r] = @ + 1]
  /\ push' = IF Follow[r] = NoRequest THEN push
             ELSE [push EXCEPT ![Loop] = [req |-> Follow[r], step |-> "place"]]

submit_request(r) ==
  \/ /\ r \in Immediate
     /\ invoke_request_callback(r)
     /\ UNCHANGED <<kernel, inflight, dropped, faults>>
  \/ /\ r \notin Immediate
     /\ kernel' = kernel \cup {r}
     /\ inflight' = inflight \cup {r}
     /\ UNCHANGED <<called, push, dropped, faults>>
  \/ /\ r \notin Immediate
     /\ faults < MaxFaults
     /\ faults' = faults + 1
     /\ dropped' = dropped \cup {r}
     /\ inflight' = inflight \ {r}
     /\ UNCHANGED <<called, push, kernel>>

(* Mutant: one request per wakeup. *)
drain_submissions_One ==
  /\ At("drain")
  /\ loop_pc' = "handle"
  /\ IF queue # <<>> /\ Head(queue).published
     THEN queue' = Tail(queue) /\ submit_request(Head(queue).req)
     ELSE UNCHANGED <<queue, push, kernel, inflight, called, dropped, faults>>
  /\ UNCHANGED <<running, stop_called, todo, eventfd, wakeup_armed, wakeup_read, cq, ready, left>>

drain_submissions ==
  /\ At("drain")
  /\ IF queue # <<>> /\ Head(queue).published
     THEN /\ queue' = Tail(queue)
          /\ submit_request(Head(queue).req)
          /\ UNCHANGED loop_pc
     ELSE loop_pc' = "handle" /\ UNCHANGED <<queue, push, kernel, inflight, called, dropped, faults>>
  /\ UNCHANGED <<running, stop_called, todo, eventfd, wakeup_armed, wakeup_read, cq, ready, left>>

(* Mutant: a short send is submitted again, but taken for finished, too. *)
process_Short ==
  /\ At("handle")
  /\ ready # <<>> /\ Head(ready) \in inflight
  /\ ready' = Tail(ready)
  /\ LET r == Head(ready) IN
     /\ left' = [left EXCEPT ![r] = @ - 1]
     /\ inflight' = inflight \ {r}
     /\ kernel' = IF left[r] > 1 THEN kernel \cup {r} ELSE kernel
     /\ invoke_request_callback(r)
  /\ UNCHANGED <<running, stop_called, queue, todo, eventfd, wakeup_armed, wakeup_read, cq, dropped, loop_pc, faults>>

(* A short send is submitted again; otherwise the request is finished. *)
process ==
  /\ At("handle")
  /\ ready # <<>> /\ Head(ready) \in inflight
  /\ ready' = Tail(ready)
  /\ LET r == Head(ready) IN
     /\ left' = [left EXCEPT ![r] = @ - 1]
     /\ IF left[r] > 1
        THEN submit_request(r)
        ELSE /\ inflight' = inflight \ {r}
             /\ invoke_request_callback(r)
             /\ UNCHANGED <<kernel, dropped, faults>>
  /\ UNCHANGED <<running, stop_called, queue, todo, eventfd, wakeup_armed, wakeup_read, cq, loop_pc>>

LoopStep ==
  \/ Top \/ wait_one \/ peek_batch \/ handle_wakeup \/ drain_submissions \/ process
  \/ Push(Loop)

-----------------------------------------------------------------------------
(* stop, up to the join; the write of the eventfd is a step of its own. *)
stop ==
  /\ ~ stop_called
  /\ stop_called' = TRUE
  /\ running' = FALSE
  /\ push' = IF running THEN [push EXCEPT ![Stopper].step = "notify"] ELSE push
  /\ UNCHANGED <<queue, todo, eventfd, wakeup_read, kernel, cq, loop_vars>>

ProactorNext ==
  \/ \E t \in Pusher : BeginPush(t) \/ Push(t)
  \/ \E r \in Request : Complete(r)
  \/ ReadEventfd \/ LoopStep \/ ArmFails \/ WaitFails
  \/ stop \/ notify_wakeup(Stopper)

ProactorSpec == ProactorInit /\ [][ProactorNext]_proactor_vars

(* What fairness is about: the loop is scheduled, the kernel completes     *)
(* what it is given, and as long as a thread has something to push or to   *)
(* report, one of them moves.                                              *)
Pushers == notify_wakeup(Stopper) \/ \E t \in Pusher : BeginPush(t) \/ Push(t)
Kernel == ReadEventfd \/ \E r \in Request : Complete(r)

-----------------------------------------------------------------------------
(* Properties *)

(* Types; a request is in one place at a time. *)
ProactorTypeOK ==
  /\ running \in BOOLEAN /\ stop_called \in BOOLEAN
  /\ eventfd \in BOOLEAN /\ wakeup_armed \in BOOLEAN /\ wakeup_read \in BOOLEAN
  /\ Len(queue) <= QueueCapacity
  /\ kernel \subseteq inflight /\ inflight \subseteq Request
  /\ \A i \in DOMAIN queue : queue[i].req \in Request \ inflight
  /\ \A r \in kernel : r \notin Range(cq \o ready)
  /\ loop_pc \in {"top", "wait", "handle", "drain", "exited"}

(* A request's end is reported once, however often the request is          *)
(* submitted, and never for one that could not be submitted; and a request *)
(* is in one place at a time.                                              *)
CallbackOnce ==
  /\ ProactorTypeOK
  /\ \A r \in Request :
       /\ called[r] <= 1
       /\ called[r] = 1 => r \notin dropped \cup inflight /\ (left[r] = 0 \/ r \in Immediate)

(* No wakeup is lost: while the loop waits and the oldest place of the     *)
(* queue is published, the eventfd is set, its completion is under way, or *)
(* a thread is about to write it; and the eventfd is being read.           *)
WakeupPending ==
  loop_pc = "wait" /\ running =>
    /\ wakeup_read \/ Wake \in Range(cq)
    /\ queue # <<>> /\ Head(queue).published =>
         eventfd \/ Wake \in Range(cq) \/ \E t \in Pusher : push[t].step = "notify"

(* A request got its callback, or could not be submitted, or was to be     *)
(* pushed by a callback that never came, or the loop has ended.            *)
Settled(r) ==
  called[r] = 1 \/ r \in dropped \/ (\E s \in dropped : Follow[s] = r) \/ ~ running
=============================================================================
