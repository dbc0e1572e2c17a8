--------------------------- MODULE ProactorProofs ---------------------------
(***************************************************************************)
(* Proofs about ProactorThread, for any number of pushing threads, any     *)
(* requests and callbacks, and any capacity of the queue: no wakeup is     *)
(* lost, and every request is called back at most once.                    *)
(***************************************************************************)
EXTENDS ProactorThread, TLAPS

Contains(s, e) == \E i \in 1..Len(s) : s[i] = e

Thread == Pusher \cup {Loop, Stopper}
PushStep == {"idle", "place", "publish", "notify"}
PushState == [req : Request \cup {NoRequest}, step : PushStep]
Place == [req : Request, published : BOOLEAN]
Event == Request \cup {Wake}

(* Types; a thread that pushes has a request to push. *)
LoopTypes ==
  /\ running \in BOOLEAN /\ eventfd \in BOOLEAN /\ wakeup_armed \in BOOLEAN /\ wakeup_read \in BOOLEAN
  /\ queue \in Seq(Place)
  /\ todo \in [Pusher -> Seq(Request)]
  /\ push \in [Thread -> PushState]
  /\ \A t \in Thread : push[t].step \in {"place", "publish"} => push[t].req \in Request
  /\ kernel \subseteq Request /\ inflight \subseteq Request /\ dropped \subseteq Request
  /\ cq \in Seq(Event) /\ ready \in Seq(Event)
  /\ left \in [Request -> Int] /\ called \in [Request -> Nat]
  /\ loop_pc \in {"top", "wait", "handle", "drain", "exited"}

(* Somebody is about to write the eventfd. *)
Notifying == \E t \in Pusher \cup {Loop} : push[t].step = "notify"
WakePending == Contains(cq, Wake) \/ Contains(ready, Wake)

(* The flag is set only as long as the read of the eventfd is submitted or *)
(* its completion not yet handled; and what is published is found by the   *)
(* drain that is under way or follows a wakeup that is still to come.      *)
WakeInv ==
  /\ wakeup_armed => wakeup_read \/ WakePending
  /\ loop_pc = "wait" => wakeup_armed
  /\ loop_pc \in {"top", "wait", "exited"} => push[Loop] = NoPush
  /\ loop_pc \in {"top", "wait"} => ready = <<>>
  /\ running /\ queue # <<>> /\ Head(queue).published =>
       eventfd \/ WakePending \/ loop_pc = "drain" \/ Notifying

(* Before the loop starts nothing is pushed, queued or submitted. *)
LEMMA LoopInit == ProactorConstants /\ ProactorInit => LoopTypes /\ WakeInv
<1> SUFFICES ASSUME ProactorConstants, ProactorInit PROVE LoopTypes /\ WakeInv
  OBVIOUS
<1> USE DEF ProactorConstants, ProactorInit
<1>1. push \in [Thread -> PushState]
  BY DEF Thread, PushState, PushStep, NoPush
<1>2. \A t \in Thread : push[t] = NoPush
  BY DEF Thread
<1>3. left \in [Request -> Int] /\ called \in [Request -> Nat]
  OBVIOUS
<1>4. LoopTypes
  <2>1. queue \in Seq(Place) /\ cq \in Seq(Event) /\ ready \in Seq(Event)
    OBVIOUS
  <2>2. todo \in [Pusher -> Seq(Request)]
    OBVIOUS
  <2>3. \A t \in Thread : push[t].step = "idle"
    BY <1>2 DEF NoPush
  <2> QED
    BY <1>1, <1>3, <2>1, <2>2, <2>3, Zenon DEF LoopTypes
<1>5. WakeInv
  BY <1>2 DEF WakeInv, Thread
<1> QED
  BY <1>4, <1>5

(* Taking the first element of a sequence, as a pop does. *)
LEMMA HeadTail ==
  ASSUME NEW S, NEW s \in Seq(S), s # <<>>
  PROVE  /\ Head(s) \in S /\ Tail(s) \in Seq(S) /\ Len(Tail(s)) = Len(s) - 1
         /\ Len(s) \in Nat \ {0} /\ Head(s) = s[1]
         /\ \A i \in 1..(Len(s) - 1) : Tail(s)[i] = s[i + 1]
  OBVIOUS

(* Adding an element to a sequence, as a push or a completion does. *)
LEMMA Appended ==
  ASSUME NEW S, NEW s \in Seq(S), NEW e \in S
  PROVE  /\ Append(s, e) \in Seq(S) /\ Len(Append(s, e)) = Len(s) + 1 /\ Len(s) \in Nat
         /\ \A i \in 1..Len(s) : Append(s, e)[i] = s[i]
         /\ Append(s, e)[Len(s) + 1] = e
  OBVIOUS

(* The positions of a sequence and its elements. *)
LEMMA SeqDomain ==
  ASSUME NEW S, NEW s \in Seq(S)
  PROVE  Len(s) \in Nat /\ DOMAIN s = 1..Len(s) /\ \A i \in 1..Len(s) : s[i] \in S
  OBVIOUS

(* Publishing maps the places of the queue one by one: the result is a     *)
(* sequence of the same length.                                            *)
LEMMA FunctionIsSeq ==
  ASSUME NEW S, NEW n \in Nat, NEW f \in [1..n -> S]
  PROVE  f \in Seq(S) /\ Len(f) = n
  OBVIOUS

(* The elements of a sequence, by their positions. *)
LEMMA ContainsRange ==
  ASSUME NEW S, NEW s \in Seq(S), NEW e
  PROVE  e \in Range(s) <=> Contains(s, e)
<1>1. DOMAIN s = 1..Len(s)
  BY SeqDomain
<1> QED
  BY <1>1 DEF Range, Contains

(* What a completion queue holds after one more completion. *)
LEMMA ContainsAppended ==
  ASSUME NEW S, NEW s \in Seq(S), NEW e \in S, NEW x \in S
  PROVE  Contains(Append(s, e), x) <=> Contains(s, x) \/ e = x
  BY DEF Contains

(* What is left of the completions when the first is handled. *)
LEMMA ContainsTail ==
  ASSUME NEW S, NEW s \in Seq(S), s # <<>>, NEW x \in S
  PROVE  Contains(s, x) <=> Head(s) = x \/ Contains(Tail(s), x)
  BY DEF Contains

(* peek_batch divides the completion queue in two and loses nothing. *)
LEMMA ContainsSplit ==
  ASSUME NEW S, NEW s \in Seq(S), NEW n \in 0..Len(s), NEW x \in S
  PROVE  Contains(s, x) <=> Contains(SubSeq(s, 1, n), x) \/ Contains(SubSeq(s, n + 1, Len(s)), x)
<1> DEFINE a == SubSeq(s, 1, n)
           b == SubSeq(s, n + 1, Len(s))
<1>1. Len(s) \in Nat /\ n \in Nat /\ n <= Len(s)
  OBVIOUS
<1>2. Len(a) = n /\ \A i \in 1..n : a[i] = s[i]
  BY <1>1
<1>3. Len(b) = Len(s) - n /\ \A i \in 1..(Len(s) - n) : b[i] = s[i + n]
  BY <1>1
<1>4. ASSUME NEW i \in 1..Len(s), s[i] = x PROVE Contains(a, x) \/ Contains(b, x)
  <2>1. CASE i <= n
    BY <1>1, <1>2, <1>4, <2>1 DEF Contains
  <2>2. CASE i > n
    <3>1. i - n \in 1..Len(b) /\ b[i - n] = s[i]
      BY <1>1, <1>3, <2>2
    <3> QED
      BY <1>4, <3>1 DEF Contains
  <2> QED
    BY <1>1, <2>1, <2>2
<1>5. Contains(a, x) => Contains(s, x)
  BY <1>1, <1>2 DEF Contains
<1>6. Contains(b, x) => Contains(s, x)
  BY <1>1, <1>3 DEF Contains
<1> QED
  BY <1>4, <1>5, <1>6, Zenon DEF Contains

(* Every step of the pushing threads, the kernel, the loop and stop keeps  *)
(* the types.                                                              *)
LEMMA LoopTypesStep ==
  ASSUME ProactorConstants, LoopTypes, [ProactorNext]_proactor_vars
  PROVE  LoopTypes'
<1> USE DEF LoopTypes, push_vars, loop_vars
<1>c. /\ NoRequest \notin Request /\ Wake \notin Request /\ MaxEvents \in Nat /\ Loop # Stopper
      /\ Loop \notin Pusher /\ Stopper \notin Pusher /\ Loop \in Thread /\ Stopper \in Thread
      /\ Pusher \subseteq Thread /\ Follow \in [Request -> Request \cup {NoRequest}]
  BY DEF ProactorConstants, Thread
<1>p. ASSUME NEW t \in Thread, NEW p \in PushState,
             p.step \in {"place", "publish"} => p.req \in Request,
             push' = [push EXCEPT ![t] = p]
      PROVE  /\ push' \in [Thread -> PushState]
             /\ \A u \in Thread : push'[u].step \in {"place", "publish"} => push'[u].req \in Request
  BY <1>p
<1>1. ASSUME NEW t \in Pusher, BeginPush(t) PROVE LoopTypes'
  <2>1. Head(todo[t]) \in Request /\ Tail(todo[t]) \in Seq(Request)
    BY <1>1 DEF BeginPush
  <2>2. [req |-> Head(todo[t]), step |-> "place"] \in PushState
    BY <2>1 DEF PushState, PushStep
  <2>3. /\ push' \in [Thread -> PushState]
        /\ \A u \in Thread : push'[u].step \in {"place", "publish"} => push'[u].req \in Request
    BY <1>1, <1>c, <1>p, <2>1, <2>2 DEF BeginPush
  <2>4. todo' \in [Pusher -> Seq(Request)]
    BY <1>1, <2>1 DEF BeginPush
  <2> QED
    BY <1>1, <2>3, <2>4 DEF BeginPush
<1>q. ASSUME NEW t \in Thread, NEW to \in PushStep, push' = [push EXCEPT ![t].step = to],
             to # "idle", push[t].step \in {"place", "publish"}
      PROVE  /\ push' \in [Thread -> PushState]
             /\ \A u \in Thread : push'[u].step \in {"place", "publish"} => push'[u].req \in Request
  <2>1. push[t].req \in Request
    BY <1>q
  <2>2. push' = [push EXCEPT ![t] = [push[t] EXCEPT !.step = to]]
    BY <1>q
  <2>3. push[t] \in PushState
    OBVIOUS
  <2>4. [push[t] EXCEPT !.step = to] = [req |-> push[t].req, step |-> to]
    BY <2>3 DEF PushState
  <2>5. [req |-> push[t].req, step |-> to] \in PushState
    BY <2>1 DEF PushState
  <2> QED
    BY <1>p, <2>1, <2>2, <2>4, <2>5
<1>2. ASSUME NEW t \in Thread, TakePlace(t) PROVE LoopTypes'
  <2>1. push[t].req \in Request /\ push[t].step = "place"
    BY <1>2 DEF TakePlace
  <2>2. [req |-> push[t].req, published |-> FALSE] \in Place
    BY <2>1 DEF Place
  <2>3. queue' \in Seq(Place)
    BY <1>2, <2>2, Appended DEF TakePlace
  <2>4. /\ push' \in [Thread -> PushState]
        /\ \A u \in Thread : push'[u].step \in {"place", "publish"} => push'[u].req \in Request
    BY <1>2, <1>q, <2>1, Zenon DEF PushStep, TakePlace
  <2> QED
    BY <1>2, <2>3, <2>4 DEF TakePlace
<1>3. ASSUME NEW t \in Thread, PublishPlace(t) PROVE LoopTypes'
  <2>1. push[t].step = "publish"
    BY <1>3 DEF PublishPlace
  <2>2. queue' \in Seq(Place)
    <3> DEFINE g(i) == IF queue[i].req = push[t].req THEN [queue[i] EXCEPT !.published = TRUE]
                       ELSE queue[i]
    <3>1. Len(queue) \in Nat /\ DOMAIN queue = 1..Len(queue) /\ \A i \in 1..Len(queue) : queue[i] \in Place
      BY SeqDomain
    <3>2. \A q \in Place : [q EXCEPT !.published = TRUE] \in Place
      BY Zenon DEF Place
    <3>3. \A i \in 1..Len(queue) : g(i) \in Place
      BY <3>1, <3>2
    <3>4. queue' = [i \in 1..Len(queue) |-> g(i)]
      BY <1>3, <3>1 DEF PublishPlace
    <3> HIDE DEF g
    <3>5. queue' \in [1..Len(queue) -> Place]
      BY <3>3, <3>4
    <3> QED
      BY <3>1, <3>5, FunctionIsSeq, Zenon
  <2>4. /\ push' \in [Thread -> PushState]
        /\ \A u \in Thread : push'[u].step \in {"place", "publish"} => push'[u].req \in Request
    BY <1>3, <1>q, <2>1, Zenon DEF PushStep, PublishPlace
  <2> QED
    BY <1>3, <2>2, <2>4 DEF PublishPlace
<1>4. ASSUME NEW t \in Thread, notify_wakeup(t) PROVE LoopTypes'
  <2>1. /\ push' \in [Thread -> PushState]
        /\ \A u \in Thread : push'[u].step \in {"place", "publish"} => push'[u].req \in Request
    BY <1>4, <1>p DEF PushState, PushStep, notify_wakeup, NoPush
  <2> QED
    BY <1>4, <2>1 DEF notify_wakeup
<1>5. ASSUME NEW r \in Request, Complete(r) PROVE LoopTypes'
  <2>1. cq' \in Seq(Event)
    BY <1>5, Appended DEF Complete, Event
  <2> QED
    BY <1>5, <2>1 DEF Complete
<1>6. CASE ReadEventfd
  <2>1. cq' \in Seq(Event)
    BY <1>6, Appended DEF ReadEventfd, Event
  <2> QED
    BY <1>6, <2>1, Zenon DEF ReadEventfd
<1>7. CASE Top
  BY <1>7, Zenon DEF Top
<1>8. CASE ArmFails
  BY <1>8, Zenon DEF ArmFails
<1>9. CASE wait_one
  <2>1. Head(cq) \in Event /\ Tail(cq) \in Seq(Event)
    BY <1>9, HeadTail DEF wait_one
  <2> QED
    BY <1>9, <2>1 DEF wait_one
<1>10. CASE WaitFails
  BY <1>10 DEF WaitFails
<1>11. CASE peek_batch
  <2> DEFINE n == IF Len(cq) < MaxEvents THEN Len(cq) ELSE MaxEvents
  <2>1. n \in 0..Len(cq) /\ Len(cq) \in Nat
    BY <1>c
  <2>2. SubSeq(cq, 1, n) \in Seq(Event) /\ SubSeq(cq, n + 1, Len(cq)) \in Seq(Event)
    BY <2>1
  <2>3. ready' = SubSeq(cq, 1, n) /\ cq' = SubSeq(cq, n + 1, Len(cq)) /\ loop_pc' \in {"top", "handle"}
    BY <1>11 DEF peek_batch
  <2> QED
    BY <1>11, <2>2, <2>3 DEF peek_batch
<1>12. CASE handle_wakeup
  <2>1. Tail(ready) \in Seq(Event)
    BY <1>12, HeadTail DEF handle_wakeup
  <2> QED
    BY <1>12, <2>1, Zenon DEF handle_wakeup
<1>i. ASSUME NEW r \in Request, invoke_request_callback(r)
      PROVE  /\ push' \in [Thread -> PushState]
             /\ \A u \in Thread : push'[u].step \in {"place", "publish"} => push'[u].req \in Request
             /\ called' \in [Request -> Nat]
  <2>1. called' \in [Request -> Nat]
    BY <1>i DEF invoke_request_callback
  <2>2. CASE Follow[r] = NoRequest
    BY <1>i, <2>1, <2>2 DEF invoke_request_callback
  <2>3. CASE Follow[r] # NoRequest
    <3>1. Follow[r] \in Request
      BY <1>c, <2>3
    <3>2. push' = [push EXCEPT ![Loop] = [req |-> Follow[r], step |-> "place"]]
      BY <1>i, <2>3 DEF invoke_request_callback
    <3> QED
      BY <1>c, <1>p, <2>1, <3>1, <3>2 DEF PushState, PushStep
  <2> QED
    BY <2>2, <2>3
<1>s. ASSUME NEW r \in Request, submit_request(r)
      PROVE  /\ push' \in [Thread -> PushState]
             /\ \A u \in Thread : push'[u].step \in {"place", "publish"} => push'[u].req \in Request
             /\ called' \in [Request -> Nat]
             /\ kernel' \subseteq Request /\ inflight' \subseteq Request /\ dropped' \subseteq Request
  BY <1>i, <1>s DEF submit_request
<1>13. CASE drain_submissions
  <2>1. CASE queue # <<>> /\ Head(queue).published
    <3>1. /\ Head(queue) \in Place
          /\ Tail(queue) \in Seq(Place)
      BY <2>1, HeadTail
    <3>2. Head(queue).req \in Request
      BY <3>1 DEF Place
    <3>3. queue' = Tail(queue) /\ submit_request(Head(queue).req) /\ loop_pc' = loop_pc
      BY <1>13, <2>1 DEF drain_submissions
    <3> QED
      BY <1>13, <1>s, <3>1, <3>2, <3>3 DEF drain_submissions
  <2>2. CASE ~ (queue # <<>> /\ Head(queue).published)
    BY <1>13, <2>2 DEF drain_submissions
  <2> QED
    BY <2>1, <2>2
<1>14. CASE process
  <2>1. Head(ready) \in Request /\ Tail(ready) \in Seq(Event)
    BY <1>14, HeadTail DEF process
  <2>2. left' \in [Request -> Int] /\ ready' = Tail(ready)
    BY <1>14, <2>1 DEF process
  <2>3. CASE left[Head(ready)] > 1
    BY <1>14, <1>s, <2>1, <2>2, <2>3 DEF process
  <2>4. CASE ~ (left[Head(ready)] > 1)
    BY <1>14, <1>i, <2>1, <2>2, <2>4 DEF process
  <2> QED
    BY <2>3, <2>4
<1>15. CASE stop
  <2>1. CASE running
    <3>1. push' = [push EXCEPT ![Stopper] = [push[Stopper] EXCEPT !.step = "notify"]]
      BY <1>15, <2>1 DEF stop
    <3>2. push[Stopper] \in PushState
      BY <1>c
    <3>4. /\ [push[Stopper] EXCEPT !.step = "notify"] \in PushState
          /\ [push[Stopper] EXCEPT !.step = "notify"].step = "notify"
      BY <3>2, Zenon DEF PushState, PushStep
    <3>3. /\ push' \in [Thread -> PushState]
          /\ \A u \in Thread : push'[u].step \in {"place", "publish"} => push'[u].req \in Request
      BY <1>c, <1>p, <3>1, <3>4
    <3> QED
      BY <1>15, <3>3, Zenon DEF stop
  <2>2. CASE ~ running
    BY <1>15, <2>2, Zenon DEF stop
  <2> QED
    BY <2>1, <2>2
<1>16. CASE UNCHANGED proactor_vars
  BY <1>16 DEF proactor_vars
<1> QED
  BY <1>1, <1>2, <1>3, <1>4, <1>5, <1>6, <1>7, <1>8, <1>9, <1>10, <1>11, <1>12, <1>13, <1>14,
     <1>15, <1>16, <1>c DEF ProactorNext, LoopStep, Push

(* The part of WakeInv about the queue. *)
Heard == running /\ queue # <<>> /\ Head(queue).published =>
           eventfd \/ WakePending \/ loop_pc = "drain" \/ Notifying

(* Every step keeps WakeInv: what is published is noticed by a drain that  *)
(* is under way or by a wakeup that comes.                                 *)
LEMMA WakeStep ==
  ASSUME ProactorConstants, LoopTypes, WakeInv, [ProactorNext]_proactor_vars
  PROVE  WakeInv'
<1> USE DEF push_vars, loop_vars
<1>c. /\ Wake \notin Request /\ MaxEvents \in Nat \ {0} /\ Loop # Stopper
      /\ Loop \notin Pusher /\ Stopper \notin Pusher /\ Wake \in Event
      /\ Pusher \subseteq Thread /\ Loop \in Thread /\ Stopper \in Thread
  BY DEF ProactorConstants, Thread, Event
<1>h. Heard
  BY DEF WakeInv, Heard
<1>i. NoPush.step = "idle"
  BY DEF NoPush
(* A push step: the loop's flags are left alone. *)
<1>p. ASSUME NEW t \in Thread, NEW p, push' = [push EXCEPT ![t] = p],
             t = Loop => push[Loop] # NoPush \/ p = NoPush,
             UNCHANGED <<running, wakeup_armed, wakeup_read, cq, ready, loop_pc>>, Heard'
      PROVE  WakeInv'
  <2>1. loop_pc \in {"top", "wait", "exited"} => push'[Loop] = NoPush
    BY <1>c, <1>p DEF LoopTypes, WakeInv
  <2> QED
    BY <1>p, <2>1 DEF WakeInv, WakePending, Heard
<1>1. ASSUME NEW t \in Pusher, BeginPush(t) PROVE WakeInv'
  <2>1. /\ push[t] = NoPush /\ push' = [push EXCEPT ![t] = [req |-> Head(todo[t]), step |-> "place"]]
        /\ UNCHANGED <<running, queue, eventfd, wakeup_read, cq, wakeup_armed, ready, loop_pc>>
    BY <1>1 DEF BeginPush
  <2>2. Notifying => Notifying'
    BY <1>c, <1>i, <2>1 DEF Notifying, LoopTypes
  <2>3. Heard'
    BY <1>h, <2>1, <2>2 DEF Heard, WakePending
  <2> QED
    BY <1>c, <1>p, <2>1, <2>3, Zenon
<1>2. ASSUME NEW t \in Pusher \cup {Loop}, TakePlace(t) PROVE WakeInv'
  <2>1. /\ push[t].step = "place" /\ push' = [push EXCEPT ![t] = [push[t] EXCEPT !.step = "publish"]]
        /\ queue' = Append(queue, [req |-> push[t].req, published |-> FALSE])
        /\ UNCHANGED <<running, eventfd, wakeup_read, cq, wakeup_armed, ready, loop_pc>>
    BY <1>2 DEF TakePlace
  <2>2. Notifying => Notifying'
    BY <1>c, <2>1 DEF Notifying, LoopTypes
  <2>3. [req |-> push[t].req, published |-> FALSE] \in Place
    BY <1>c, <2>1 DEF Place, LoopTypes
  <2>4. CASE queue = <<>>
    <3>1. ~ Head(queue').published
      BY <2>1, <2>3, <2>4
    <3> QED
      BY <1>c, <1>i, <1>p, <2>1, <3>1, Zenon DEF Heard
  <2>5. CASE queue # <<>>
    <3>1. Head(queue') = Head(queue)
      BY <2>1, <2>3, <2>5, Appended, HeadTail DEF LoopTypes
    <3>2. Heard'
      BY <1>h, <2>1, <2>2, <2>5, <3>1 DEF Heard, WakePending
    <3> QED
      BY <1>c, <1>i, <1>p, <2>1, <3>2, Zenon
  <2> QED
    BY <2>4, <2>5
<1>3. ASSUME NEW t \in Pusher \cup {Loop}, PublishPlace(t) PROVE WakeInv'
  <2>1. /\ push[t].step = "publish" /\ push' = [push EXCEPT ![t] = [push[t] EXCEPT !.step = "notify"]]
        /\ UNCHANGED <<running, eventfd, wakeup_read, cq, wakeup_armed, ready, loop_pc>>
    BY <1>3 DEF PublishPlace
  <2>2. push[t] \in PushState /\ t \in Thread
    BY <1>c DEF LoopTypes
  <2>3. push'[t].step = "notify"
    BY <2>1, <2>2 DEF LoopTypes, PushState
  <2>4. Heard'
    BY <2>3 DEF Heard, Notifying
  <2> QED
    BY <1>i, <1>p, <2>1, <2>2, <2>4, Zenon
<1>4. ASSUME NEW t \in Thread, notify_wakeup(t) PROVE WakeInv'
  <2>1. /\ push' = [push EXCEPT ![t] = NoPush] /\ eventfd'
        /\ UNCHANGED <<running, wakeup_read, cq, wakeup_armed, ready, loop_pc>>
    BY <1>4 DEF notify_wakeup
  <2> QED
    BY <1>p, <2>1, Zenon DEF Heard
<1>5. ASSUME NEW r \in Request, Complete(r) PROVE WakeInv'
  <2>1. /\ cq' = Append(cq, r)
        /\ UNCHANGED <<running, push, queue, eventfd, wakeup_read, wakeup_armed, ready, loop_pc>>
    BY <1>5 DEF Complete
  <2>2. r \in Event /\ cq \in Seq(Event)
    BY DEF LoopTypes, Event
  <2>3. Contains(cq, Wake) => Contains(cq', Wake)
    BY <1>c, <2>1, <2>2, ContainsAppended
  <2> QED
    BY <2>1, <2>3 DEF WakeInv, WakePending, Notifying
<1>6. CASE ReadEventfd
  <2>1. /\ cq' = Append(cq, Wake)
        /\ UNCHANGED <<running, push, queue, wakeup_armed, ready, loop_pc>>
    BY <1>6 DEF ReadEventfd
  <2>2. Contains(cq', Wake)
    BY <1>c, <2>1, ContainsAppended DEF LoopTypes
  <2> QED
    BY <2>1, <2>2 DEF WakeInv, WakePending
<1>7. CASE Top
  <2>1. UNCHANGED <<running, push, queue, eventfd, cq, ready>> /\ loop_pc = "top" /\ push[Loop] = NoPush
    BY <1>7 DEF Top, At
  <2>2. CASE ~ running
    BY <1>7, <2>1, <2>2 DEF Top, WakeInv, WakePending
  <2>3. CASE running
    <3>1. loop_pc' = "wait" /\ wakeup_armed' /\ wakeup_read' = (wakeup_read \/ ~ wakeup_armed)
      BY <1>7, <2>3 DEF Top
    <3> QED
      BY <2>1, <3>1, Zenon DEF WakeInv, WakePending, Notifying
  <2> QED
    BY <2>2, <2>3
<1>8. CASE ArmFails
  BY <1>8 DEF ArmFails, At, WakeInv, WakePending
<1>9. CASE wait_one
  <2>1. /\ UNCHANGED <<running, push, queue, eventfd, wakeup_read, wakeup_armed>> /\ loop_pc = "wait"
        /\ cq # <<>> /\ ready' = <<Head(cq)>> /\ cq' = Tail(cq) /\ loop_pc' = "handle"
    BY <1>9 DEF wait_one, At
  <2>2. ready = <<>>
    BY <2>1 DEF WakeInv
  <2>3. WakePending => WakePending'
    BY <1>c, <2>1, <2>2, ContainsTail DEF WakePending, Contains, LoopTypes
  <2> QED
    BY <2>1, <2>3 DEF WakeInv, Notifying
<1>10. CASE WaitFails
  <2>1. /\ UNCHANGED <<running, push, queue, eventfd, wakeup_read, cq, ready, wakeup_armed>>
        /\ loop_pc = "wait" /\ loop_pc' \in {"top", "exited"}
    BY <1>10 DEF WaitFails, At
  <2> QED
    BY <2>1 DEF WakeInv, WakePending, Notifying
<1>11. CASE peek_batch
  <2> DEFINE n == IF Len(cq) < MaxEvents THEN Len(cq) ELSE MaxEvents
  <2>1. n \in 0..Len(cq) /\ Len(cq) \in Nat
    BY <1>c DEF LoopTypes
  <2>2. ready' = SubSeq(cq, 1, n) /\ cq' = SubSeq(cq, n + 1, Len(cq)) /\ ready = <<>>
    BY <1>11 DEF peek_batch
  <2>3. /\ UNCHANGED <<running, push, queue, eventfd, wakeup_read, wakeup_armed>>
        /\ push[Loop] = NoPush /\ loop_pc = "handle" /\ loop_pc' = IF n = 0 THEN "top" ELSE "handle"
    BY <1>11 DEF peek_batch, At
  <2>4. WakePending => WakePending'
    <3>1. ~ Contains(ready, Wake)
      BY <2>2 DEF Contains
    <3>2. Contains(cq, Wake) => WakePending'
      BY <1>c, <2>1, <2>2, ContainsSplit DEF LoopTypes, WakePending
    <3> QED
      BY <3>1, <3>2 DEF WakePending
  <2>5. n = 0 => ready' = <<>>
    BY <2>2 DEF LoopTypes
  <2> HIDE DEF n
  <2> QED
    BY <2>3, <2>4, <2>5 DEF WakeInv, Notifying
<1>12. CASE handle_wakeup
  <2>1. /\ UNCHANGED <<running, push, queue, eventfd, wakeup_read, cq>> /\ ~ wakeup_armed'
        /\ loop_pc' = IF running THEN "drain" ELSE "handle"
    BY <1>12 DEF handle_wakeup
  <2> QED
    BY <2>1 DEF WakeInv
(* Submitting a request and calling back push nothing that is published. *)
<1>n. ASSUME push[Loop] = NoPush, push' = push \/ \E p : push' = [push EXCEPT ![Loop] = p]
      PROVE  Notifying => Notifying'
  BY <1>c, <1>i, <1>n DEF Notifying, LoopTypes
<1>13. CASE drain_submissions
  <2>1. UNCHANGED <<running, eventfd, wakeup_read, cq, ready, wakeup_armed>> /\ loop_pc = "drain"
    BY <1>13 DEF drain_submissions, At
  <2>2. CASE queue # <<>> /\ Head(queue).published
    <3>1. loop_pc' = loop_pc
      BY <1>13, <2>2 DEF drain_submissions
    <3> QED
      BY <2>1, <3>1 DEF WakeInv, WakePending
  <2>3. CASE ~ (queue # <<>> /\ Head(queue).published)
    <3>1. loop_pc' = "handle" /\ queue' = queue
      BY <1>13, <2>3 DEF drain_submissions
    <3> QED
      BY <2>1, <2>3, <3>1 DEF WakeInv, WakePending
  <2> QED
    BY <2>2, <2>3
<1>14. CASE process
  <2>1. /\ UNCHANGED <<running, queue, eventfd, wakeup_read, cq, wakeup_armed, loop_pc>>
        /\ loop_pc = "handle" /\ push[Loop] = NoPush
        /\ ready # <<>> /\ Head(ready) \in inflight /\ ready' = Tail(ready)
    BY <1>14 DEF process, At
  <2>2. Contains(ready, Wake) => Contains(ready', Wake)
    BY <1>c, <2>1, ContainsTail DEF LoopTypes
  <2>3. push' = push \/ \E p : push' = [push EXCEPT ![Loop] = p]
    BY <1>14 DEF process, submit_request, invoke_request_callback
  <2>4. Notifying => Notifying'
    BY <1>n, <2>1, <2>3
  <2> QED
    BY <2>1, <2>2, <2>4 DEF WakeInv, WakePending
<1>15. CASE stop
  <2>1. ~ running' /\ UNCHANGED <<wakeup_armed, wakeup_read, cq, ready, loop_pc>>
    BY <1>15 DEF stop
  <2>2. push'[Loop] = push[Loop]
    BY <1>15, <1>c DEF stop, LoopTypes
  <2> QED
    BY <2>1, <2>2 DEF WakeInv, WakePending
<1>16. CASE UNCHANGED proactor_vars
  BY <1>16 DEF proactor_vars, WakeInv, WakePending, Notifying
<1> QED
  BY <1>1, <1>2, <1>3, <1>4, <1>5, <1>6, <1>7, <1>8, <1>9, <1>10, <1>11, <1>12, <1>13, <1>14,
     <1>15, <1>16, <1>c DEF ProactorNext, LoopStep, Push

(* No wakeup is lost: whenever the loop waits while the oldest place of    *)
(* the queue is published, a wakeup is set, under way or about to be set.  *)
(* The queue may have any capacity and any number of threads may push,     *)
(* though the read of the eventfd is submitted, and its flag cleared, at   *)
(* other times than a push publishes and notifies.                         *)
THEOREM NoWakeupLost ==
  ASSUME ProactorConstants
  PROVE  ProactorSpec => []WakeupPending
<1>1. ProactorInit => LoopTypes /\ WakeInv
  BY LoopInit
<1>2. LoopTypes /\ WakeInv /\ [ProactorNext]_proactor_vars => (LoopTypes /\ WakeInv)'
  BY LoopTypesStep, WakeStep
<1>3. LoopTypes /\ WakeInv => WakeupPending
  <2> SUFFICES ASSUME LoopTypes, WakeInv, loop_pc = "wait", running
               PROVE  /\ wakeup_read \/ Contains(cq, Wake)
                      /\ queue # <<>> /\ Head(queue).published =>
                           eventfd \/ Contains(cq, Wake) \/ \E t \in Pusher : push[t].step = "notify"
    <3>1. LoopTypes => (Wake \in Range(cq) <=> Contains(cq, Wake))
      BY ContainsRange DEF LoopTypes
    <3> QED
      BY <3>1 DEF WakeupPending
  <2>1. ready = <<>> /\ push[Loop] = NoPush /\ wakeup_armed
    BY DEF WakeInv
  <2>2. ~ Contains(ready, Wake) /\ push[Loop].step = "idle"
    BY <2>1 DEF Contains, NoPush
  <2> QED
    BY <2>1, <2>2 DEF WakeInv, WakePending, Notifying
<1> QED
  BY <1>1, <1>2, <1>3, PTL DEF ProactorSpec

-----------------------------------------------------------------------------
(* Every request is in one place at a time *)

Distinct(s) == \A i, j \in 1..Len(s) : s[i] = s[j] => i = j

(* The stages of a request: nobody has pushed it yet, a thread waits for a *)
(* place for it, it is in the queue; the later ones are inflight, called   *)
(* and dropped.                                                            *)
Fresh(r) ==
  \/ \E t \in Pusher : Contains(todo[t], r)
  \/ \E s \in Request : Follow[s] = r /\ called[s] = 0
Placing(t, r) == push[t].step = "place" /\ push[t].req = r
Queued(r) == \E i \in 1..Len(queue) : queue[i].req = r
Started(r) == r \in inflight \/ r \in dropped \/ called[r] # 0

TodoInv ==
  /\ \A t \in Pusher : Distinct(todo[t])
  /\ \A t, u \in Pusher, r \in Request : Contains(todo[t], r) /\ Contains(todo[u], r) => t = u
  /\ \A t \in Pusher, s \in Request : ~ Contains(todo[t], Follow[s])

StageInv ==
  /\ \A r \in Request, t \in Thread : Fresh(r) => ~ Placing(t, r)
  /\ \A r \in Request : Fresh(r) => ~ Queued(r) /\ ~ Started(r)
  /\ \A r \in Request, t, u \in Thread : Placing(t, r) /\ Placing(u, r) => t = u
  /\ \A r \in Request, t \in Thread : Placing(t, r) => ~ Queued(r) /\ ~ Started(r)
  /\ \A i, j \in 1..Len(queue) : queue[i].req = queue[j].req => i = j
  /\ \A r \in Request : Queued(r) => ~ Started(r)

(* A request that is finished was neither refused nor is it in flight.     *)
EndInv ==
  \A r \in Request :
    /\ called[r] <= 1
    /\ called[r] = 0 => left[r] >= 1
    /\ called[r] = 1 => r \notin dropped \cup inflight /\ (left[r] = 0 \/ r \in Immediate)
    /\ r \in inflight => r \notin dropped \cup Immediate

(* The requests of the ring, the read of the eventfd included. *)
Submitted == inflight \cup (IF wakeup_armed THEN {Wake} ELSE {})
AtKernel == kernel \cup (IF wakeup_read THEN {Wake} ELSE {})

RingInv ==
  /\ AtKernel \subseteq Submitted
  /\ \A e \in Event : Contains(cq, e) \/ Contains(ready, e) => e \in Submitted \ AtKernel
  /\ \A e \in Event : ~ (Contains(cq, e) /\ Contains(ready, e))
  /\ Distinct(cq) /\ Distinct(ready)

Bounded == stop_called \in BOOLEAN /\ Len(queue) <= QueueCapacity
CallInv == Bounded /\ TodoInv /\ StageInv /\ EndInv /\ RingInv

(* A completion that is new keeps the completions distinct. *)
LEMMA DistinctAppended ==
  ASSUME NEW S, NEW s \in Seq(S), NEW e \in S, Distinct(s), ~ Contains(s, e)
  PROVE  Distinct(Append(s, e))
  BY DEF Distinct, Contains

(* When the first of distinct completions is handled it is not among the   *)
(* others.                                                                 *)
LEMMA DistinctTail ==
  ASSUME NEW S, NEW s \in Seq(S), s # <<>>, Distinct(s)
  PROVE  Distinct(Tail(s)) /\ ~ Contains(Tail(s), Head(s))
<1>1. \A i \in 1..Len(Tail(s)) : i + 1 \in 1..Len(s) /\ Tail(s)[i] = s[i + 1]
  BY HeadTail
<1>2. Len(Tail(s)) \in Nat /\ 1 \in 1..Len(s) /\ Head(s) = s[1]
  BY HeadTail
<1> HIDE DEF Distinct
<1>3. Distinct(Tail(s))
  BY <1>1, <1>2 DEF Distinct
<1> QED
  BY <1>1, <1>2, <1>3 DEF Distinct, Contains

(* The two parts of a divided completion queue have nothing in common. *)
LEMMA DistinctSplit ==
  ASSUME NEW S, NEW s \in Seq(S), NEW n \in 0..Len(s), Distinct(s)
  PROVE  /\ Distinct(SubSeq(s, 1, n)) /\ Distinct(SubSeq(s, n + 1, Len(s)))
         /\ \A x : ~ (Contains(SubSeq(s, 1, n), x) /\ Contains(SubSeq(s, n + 1, Len(s)), x))
<1> DEFINE a == SubSeq(s, 1, n)
           b == SubSeq(s, n + 1, Len(s))
<1>1. Len(s) \in Nat /\ n \in Nat /\ n <= Len(s)
  OBVIOUS
<1>2. Len(a) = n /\ \A i \in 1..n : a[i] = s[i]
  BY <1>1
<1>3. Len(b) = Len(s) - n /\ \A i \in 1..(Len(s) - n) : b[i] = s[i + n]
  BY <1>1
<1> HIDE DEF a, b
<1>4. Distinct(a)
  BY <1>1, <1>2 DEF Distinct
<1>5. Distinct(b)
  BY <1>1, <1>3 DEF Distinct
<1>6. ASSUME NEW x, Contains(a, x), Contains(b, x) PROVE FALSE
  <2>1. PICK i \in 1..n : a[i] = x
    BY <1>2, <1>6 DEF Contains
  <2>2. PICK j \in 1..(Len(s) - n) : b[j] = x
    BY <1>3, <1>6 DEF Contains
  <2>3. s[i] = s[j + n] /\ i \in 1..Len(s) /\ j + n \in 1..Len(s) /\ i # j + n
    BY <1>1, <1>2, <1>3, <2>1, <2>2
  <2> QED
    BY <2>3 DEF Distinct
<1> QED
  BY <1>4, <1>5, <1>6 DEF a, b

(* What the threads still have to push stays free of repetitions. *)
LEMMA TodoStep ==
  ASSUME ProactorConstants, LoopTypes, TodoInv, [ProactorNext]_proactor_vars
  PROVE  TodoInv'
<1> USE DEF push_vars, loop_vars
<1>1. ASSUME NEW t \in Pusher, BeginPush(t) PROVE TodoInv'
  <2>1. todo[t] \in Seq(Request) /\ todo[t] # <<>> /\ todo' = [todo EXCEPT ![t] = Tail(todo[t])]
    BY <1>1 DEF BeginPush, LoopTypes
  <2>2. Distinct(todo[t])
    BY DEF TodoInv
  <2>3. Distinct(todo'[t])
    BY <2>1, <2>2, DistinctTail DEF LoopTypes
  <2>4. \A u \in Pusher : u # t => todo'[u] = todo[u]
    BY <2>1 DEF LoopTypes
  <2>5. \A r \in Request : Contains(Tail(todo[t]), r) => Contains(todo[t], r)
    BY <2>1, ContainsTail
  <2>6. \A r : Contains(Tail(todo[t]), r) => r \in Request
    <3>1. Tail(todo[t]) \in Seq(Request)
      BY <2>1, HeadTail
    <3> QED
      BY <3>1, SeqDomain DEF Contains
  <2>7. \A u \in Pusher : \A r : Contains(todo'[u], r) => Contains(todo[u], r)
    BY <2>1, <2>4, <2>5, <2>6 DEF LoopTypes
  <2> QED
    BY <2>2, <2>3, <2>4, <2>7 DEF TodoInv
<1>2. CASE UNCHANGED todo
  BY <1>2 DEF TodoInv
<1> QED
  BY <1>1, <1>2, Zenon DEF ProactorNext, Push, TakePlace, PublishPlace, notify_wakeup, Complete, ReadEventfd, LoopStep,
     Top, wait_one, peek_batch, handle_wakeup, drain_submissions, process, ArmFails, WaitFails, stop, proactor_vars

(* What a step may do to the requests: it takes one from those that nobody *)
(* has pushed yet, gives one a place, or starts one of the queue.          *)
LEMMA StageMove ==
  ASSUME StageInv, NEW t0,
         \A r \in Request : Fresh(r)' => Fresh(r),
         \A r \in Request, t \in Thread :
           Placing(t, r)' => Placing(t, r) \/ (t = t0 /\ Fresh(r) /\ ~ Fresh(r)'),
         \A r \in Request : Queued(r)' =>
           Queued(r) \/ ((\E t \in Thread : Placing(t, r)) /\ \A t \in Thread : ~ Placing(t, r)'),
         \A r \in Request : Started(r)' => Started(r) \/ (Queued(r) /\ ~ Queued(r)'),
         (\A i, j \in 1..Len(queue) : queue[i].req = queue[j].req => i = j)'
  PROVE  StageInv'
<1>1. ASSUME NEW r \in Request, Fresh(r)'
      PROVE  (\A t \in Thread : ~ Placing(t, r)') /\ ~ Queued(r)' /\ ~ Started(r)'
  BY <1>1 DEF StageInv
<1>2. ASSUME NEW r \in Request, NEW t \in Thread, Placing(t, r)'
      PROVE  ~ Queued(r)' /\ ~ Started(r)' /\ \A u \in Thread : Placing(u, r)' => t = u
  BY <1>2 DEF StageInv
<1>3. ASSUME NEW r \in Request, Queued(r)' PROVE ~ Started(r)'
  BY <1>3 DEF StageInv
<1> QED
  BY <1>1, <1>2, <1>3 DEF StageInv

(* A thread that pushes changes what it is placing, and nobody else does.  *)
LEMMA PlacingChange ==
  ASSUME LoopTypes, NEW t \in Thread, NEW p, push' = [push EXCEPT ![t] = p]
  PROVE  \A r \in Request, u \in Thread :
           Placing(u, r)' <=> IF u = t THEN p.step = "place" /\ p.req = r ELSE Placing(u, r)
  BY DEF Placing, LoopTypes

(* The callback of a request that was not called back leaves one request   *)
(* fewer to be pushed, and the loop has it in hand.                        *)
LEMMA CallbackMove ==
  ASSUME ProactorConstants, LoopTypes, TodoInv, NEW q \in Request, called[q] = 0, push[Loop] = NoPush,
         invoke_request_callback(q), todo' = todo
  PROVE  /\ \A r \in Request : Fresh(r)' => Fresh(r)
         /\ \A r \in Request, t \in Thread :
              Placing(t, r)' => Placing(t, r) \/ (t = Loop /\ Fresh(r) /\ ~ Fresh(r)')
         /\ called' = [called EXCEPT ![q] = 1]
<1>1. called' = [called EXCEPT ![q] = 1] /\ called'[q] = 1
  BY DEF invoke_request_callback, LoopTypes
<1>2. \A s \in Request : called'[s] = 0 <=> called[s] = 0 /\ s # q
  BY <1>1 DEF LoopTypes
<1>3. \A r \in Request : Fresh(r)' => Fresh(r)
  BY <1>2 DEF Fresh
<1>4. CASE Follow[q] = NoRequest
  BY <1>1, <1>3, <1>4 DEF invoke_request_callback, Placing
<1>5. CASE Follow[q] # NoRequest
  <2>1. push' = [push EXCEPT ![Loop] = [req |-> Follow[q], step |-> "place"]]
    BY <1>5 DEF invoke_request_callback
  <2>2. Fresh(Follow[q])
    BY DEF Fresh
  <2>3. ~ Fresh(Follow[q])'
    <3>1. \A s \in Request : Follow[s] = Follow[q] => s = q
      BY <1>5 DEF ProactorConstants, PushedOnce
    <3>2. \A t \in Pusher : ~ Contains(todo'[t], Follow[q])
      BY DEF TodoInv
    <3> QED
      BY <1>2, <3>1, <3>2 DEF Fresh
  <2>4. Loop \in Thread
    BY DEF Thread
  <2>5. \A r \in Request, t \in Thread :
          Placing(t, r)' => Placing(t, r) \/ (t = Loop /\ Follow[q] = r)
    BY <2>1, <2>4, PlacingChange, Zenon
  <2> QED
    BY <1>1, <1>3, <2>2, <2>3, <2>5
<1> QED
  BY <1>4, <1>5

(* The oldest place of the queue leaves it. *)
LEMMA QueueTail ==
  ASSUME LoopTypes, StageInv, queue # <<>>, queue' = Tail(queue), NEW q, q = Head(queue).req
  PROVE  /\ q \in Request /\ Queued(q) /\ ~ Queued(q)'
         /\ \A r \in Request : Queued(r)' => Queued(r)
         /\ (\A i, j \in 1..Len(queue) : queue[i].req = queue[j].req => i = j)'
<1>1. /\ Head(queue) \in Place /\ Len(queue') = Len(queue) - 1 /\ Len(queue) \in Nat \ {0}
      /\ Head(queue) = queue[1] /\ \A i \in 1..(Len(queue) - 1) : queue'[i] = queue[i + 1]
  BY HeadTail DEF LoopTypes
<1>2. \A i, j \in 1..Len(queue) : queue[i].req = queue[j].req => i = j
  BY DEF StageInv
<1>3. q \in Request /\ Queued(q)
  BY <1>1 DEF Place, Queued
<1>4. \A i \in 1..Len(queue') : i + 1 \in 1..Len(queue) /\ queue'[i] = queue[i + 1]
  BY <1>1
<1>5. ~ Queued(q)'
  BY <1>1, <1>2, <1>4 DEF Queued
<1>6. \A r \in Request : Queued(r)' => Queued(r)
  BY <1>4 DEF Queued
<1>7. (\A i, j \in 1..Len(queue) : queue[i].req = queue[j].req => i = j)'
  BY <1>1, <1>2, <1>4
<1> QED
  BY <1>3, <1>5, <1>6, <1>7

(* Every step keeps StageInv: a request goes from one stage to the next    *)
(* and is never in two.                                                    *)
LEMMA StageStep ==
  ASSUME ProactorConstants, LoopTypes, TodoInv, StageInv, EndInv, [ProactorNext]_proactor_vars
  PROVE  StageInv'
<1> USE DEF push_vars, loop_vars
<1>c. Pusher \subseteq Thread /\ Loop \in Thread /\ Stopper \in Thread
  BY DEF Thread
<1>u. (\A i, j \in 1..Len(queue) : queue[i].req = queue[j].req => i = j)
  BY DEF StageInv
<1>1. ASSUME NEW t \in Pusher, BeginPush(t) PROVE StageInv'
  <2> DEFINE q == Head(todo[t])
  <2>1. /\ push' = [push EXCEPT ![t] = [req |-> q, step |-> "place"]]
        /\ todo' = [todo EXCEPT ![t] = Tail(todo[t])] /\ todo[t] \in Seq(Request) /\ todo[t] # <<>>
        /\ UNCHANGED <<queue, inflight, dropped, called>>
    BY <1>1 DEF BeginPush, LoopTypes
  <2>2. q \in Request /\ Contains(todo[t], q) /\ ~ Contains(Tail(todo[t]), q)
    BY <2>1, HeadTail, ContainsTail, DistinctTail DEF TodoInv
  <2>3. PICK r0 \in Request : r0 = q
    BY <2>2
  <2> HIDE DEF q
  <2>4. \A r \in Request, u \in Pusher : Contains(todo'[u], r) => Contains(todo[u], r)
    BY <2>1, ContainsTail DEF LoopTypes
  <2>5. \A r \in Request : Fresh(r)' => Fresh(r)
    BY <2>1, <2>4 DEF Fresh
  <2>6. Fresh(r0)
    BY <2>2, <2>3 DEF Fresh
  <2>7. ~ Fresh(r0)'
    <3>1. \A u \in Pusher : ~ Contains(todo'[u], r0)
      <4>1. ~ Contains(todo'[t], r0)
        BY <2>1, <2>2, <2>3 DEF LoopTypes
      <4> QED
        BY <2>2, <2>3, <2>4, <4>1 DEF TodoInv
    <3>2. \A s \in Request : Follow[s] # r0
      BY <2>2, <2>3 DEF TodoInv
    <3> QED
      BY <3>1, <3>2 DEF Fresh
  <2>8. \A r \in Request, u \in Thread : Placing(u, r)' => Placing(u, r) \/ (u = t /\ r = r0)
    BY <1>c, <2>1, <2>3, PlacingChange, Zenon
  <2>9. \A r \in Request : (Queued(r)' <=> Queued(r)) /\ (Started(r)' <=> Started(r))
    BY <2>1 DEF Queued, Started
  <2>10. \A r \in Request, u \in Thread :
           Placing(u, r)' => Placing(u, r) \/ (u = t /\ Fresh(r) /\ ~ Fresh(r)')
    BY <2>6, <2>7, <2>8
  <2>11. (\A i, j \in 1..Len(queue) : queue[i].req = queue[j].req => i = j)'
    BY <1>u, <2>1
  <2> QED
    BY <2>5, <2>9, <2>10, <2>11, StageMove
<1>2. ASSUME NEW t \in Pusher \cup {Loop}, TakePlace(t) PROVE StageInv'
  <2>1. /\ push[t].step = "place" /\ push' = [push EXCEPT ![t] = [push[t] EXCEPT !.step = "publish"]]
        /\ queue' = Append(queue, [req |-> push[t].req, published |-> FALSE])
        /\ UNCHANGED <<todo, inflight, dropped, called>>
    BY <1>2 DEF TakePlace
  <2>2. t \in Thread /\ push[t] \in PushState /\ push[t].req \in Request
    BY <1>c, <2>1 DEF LoopTypes
  <2>3. PICK q \in Request : q = push[t].req
    BY <2>2
  <2>4. [req |-> push[t].req, published |-> FALSE] \in Place
    BY <2>2 DEF Place
  <2>5. /\ Len(queue') = Len(queue) + 1 /\ Len(queue) \in Nat
        /\ \A i \in 1..Len(queue) : queue'[i] = queue[i]
        /\ queue'[Len(queue) + 1].req = q
    BY <2>1, <2>3, <2>4, Appended DEF LoopTypes
  <2>6. Placing(t, q)
    BY <2>1, <2>3 DEF Placing
  <2>7. ~ Queued(q) /\ \A u \in Thread : Placing(u, q) => u = t
    BY <2>2, <2>6 DEF StageInv
  <2>8. \A r \in Request, u \in Thread : Placing(u, r)' <=> Placing(u, r) /\ u # t
    <3>1. PICK p : p = [push[t] EXCEPT !.step = "publish"]
      BY Zenon
    <3>2. p.step = "publish"
      BY <2>2, <3>1 DEF PushState
    <3>3. push' = [push EXCEPT ![t] = p]
      BY <2>1, <3>1
    <3>4. \A r \in Request, u \in Thread :
            Placing(u, r)' <=> IF u = t THEN p.step = "place" /\ p.req = r ELSE Placing(u, r)
      BY <2>2, <3>3, PlacingChange, Zenon
    <3> QED
      BY <3>2, <3>4
  <2>9. \A r \in Request : Queued(r)' => Queued(r) \/ r = q
    BY <2>5 DEF Queued
  <2>10. (\A i, j \in 1..Len(queue) : queue[i].req = queue[j].req => i = j)'
    BY <1>u, <2>5, <2>7 DEF Queued
  <2>11. \A r \in Request : (Fresh(r)' <=> Fresh(r)) /\ (Started(r)' <=> Started(r))
    BY <2>1 DEF Fresh, Started
  <2> QED
    BY <2>2, <2>6, <2>7, <2>8, <2>9, <2>10, <2>11, StageMove
<1>3. ASSUME NEW t \in Pusher \cup {Loop}, PublishPlace(t) PROVE StageInv'
  <2>1. /\ push' = [push EXCEPT ![t] = [push[t] EXCEPT !.step = "notify"]]
        /\ queue' = [i \in DOMAIN queue |->
                       IF queue[i].req = push[t].req THEN [queue[i] EXCEPT !.published = TRUE]
                       ELSE queue[i]]
        /\ UNCHANGED <<todo, inflight, dropped, called>>
    BY <1>3 DEF PublishPlace
  <2>2. t \in Thread /\ push[t] \in PushState
    BY <1>c DEF LoopTypes
  <2>3. Len(queue) \in Nat /\ DOMAIN queue = 1..Len(queue) /\ \A i \in 1..Len(queue) : queue[i] \in Place
    BY SeqDomain DEF LoopTypes
  <2>4. \A i \in 1..Len(queue) : queue'[i] \in Place /\ queue'[i].req = queue[i].req
    BY <2>1, <2>3, Zenon DEF Place
  <2>5. Len(queue') = Len(queue)
    <3>1. queue' \in [1..Len(queue) -> Place]
      BY <2>1, <2>3, <2>4
    <3> QED
      BY <2>3, <3>1, FunctionIsSeq
  <2>6. \A r \in Request, u \in Thread : Placing(u, r)' => Placing(u, r)
    <3>1. [push[t] EXCEPT !.step = "notify"].step = "notify"
      BY <2>2 DEF PushState
    <3> QED
      BY <2>1, <2>2, <3>1, PlacingChange, Zenon
  <2>7. \A r \in Request :
          (Fresh(r)' <=> Fresh(r)) /\ (Started(r)' <=> Started(r)) /\ (Queued(r)' <=> Queued(r))
    BY <2>1, <2>4, <2>5, Zenon DEF Fresh, Started, Queued
  <2>8. (\A i, j \in 1..Len(queue) : queue[i].req = queue[j].req => i = j)'
    BY <1>u, <2>4, <2>5
  <2> QED
    BY <2>6, <2>7, <2>8, StageMove
<1>4. ASSUME NEW t \in Thread, NEW p, push' = [push EXCEPT ![t] = p], p.step # "place",
             UNCHANGED <<queue, todo, inflight, dropped, called>>
      PROVE  StageInv'
  <2>1. \A r \in Request, u \in Thread : Placing(u, r)' => Placing(u, r)
    BY <1>4, PlacingChange, Zenon
  <2>2. \A r \in Request :
          (Fresh(r)' <=> Fresh(r)) /\ (Started(r)' <=> Started(r)) /\ (Queued(r)' <=> Queued(r))
    BY <1>4 DEF Fresh, Started, Queued
  <2> QED
    BY <1>4, <1>u, <2>1, <2>2, StageMove
<1>5. ASSUME NEW t \in Thread, notify_wakeup(t) PROVE StageInv'
  <2>1. NoPush.step # "place"
    BY DEF NoPush
  <2> QED
    BY <1>4, <1>5, <2>1, Zenon DEF notify_wakeup
<1>6. CASE stop
  <2>1. CASE running
    <3>1. push' = [push EXCEPT ![Stopper] = [push[Stopper] EXCEPT !.step = "notify"]]
      BY <1>6, <2>1 DEF stop
    <3>2. [push[Stopper] EXCEPT !.step = "notify"].step = "notify"
      BY <1>c DEF LoopTypes, PushState
    <3> QED
      BY <1>4, <1>6, <1>c, <3>1, <3>2, Zenon DEF stop
  <2>2. CASE ~ running
    BY <1>6, <2>2 DEF stop, StageInv, Fresh, Placing, Queued, Started
  <2> QED
    BY <2>1, <2>2
<1>7. CASE UNCHANGED <<queue, todo, push, inflight, dropped, called>>
  BY <1>7 DEF StageInv, Fresh, Placing, Queued, Started
<1>8. CASE drain_submissions
  <2>1. todo' = todo /\ push[Loop] = NoPush
    BY <1>8 DEF drain_submissions, At
  <2>2. CASE queue # <<>> /\ Head(queue).published
    <3>1. PICK q : q = Head(queue).req
      OBVIOUS
    <3>2. queue' = Tail(queue) /\ submit_request(q)
      BY <1>8, <2>2, <3>1 DEF drain_submissions
    <3>3. /\ q \in Request /\ Queued(q) /\ ~ Queued(q)'
          /\ \A r \in Request : Queued(r)' => Queued(r)
          /\ (\A i, j \in 1..Len(queue) : queue[i].req = queue[j].req => i = j)'
      BY <2>2, <3>1, <3>2, QueueTail
    <3>4. ~ Started(q)
      BY <3>3 DEF StageInv
    <3>5. CASE invoke_request_callback(q) /\ UNCHANGED <<inflight, dropped>>
      <4>1. called[q] = 0
        BY <3>4 DEF Started
      <4>2. /\ \A r \in Request : Fresh(r)' => Fresh(r)
            /\ \A r \in Request, t \in Thread :
                 Placing(t, r)' => Placing(t, r) \/ (t = Loop /\ Fresh(r) /\ ~ Fresh(r)')
            /\ called' = [called EXCEPT ![q] = 1]
        BY <2>1, <3>3, <3>5, <4>1, CallbackMove
      <4>3. \A r \in Request : Started(r)' => Started(r) \/ r = q
        BY <3>5, <4>2 DEF Started, LoopTypes
      <4> QED
        BY <3>3, <4>2, <4>3, StageMove
    <3>6. CASE UNCHANGED <<push, called>> /\ inflight' \cup dropped' \subseteq inflight \cup dropped \cup {q}
      <4>1. \A r \in Request : Started(r)' => Started(r) \/ r = q
        BY <3>6 DEF Started
      <4>2. \A r \in Request : Fresh(r)' <=> Fresh(r)
        BY <2>1, <3>6 DEF Fresh
      <4>3. \A r \in Request, t \in Thread : Placing(t, r)' <=> Placing(t, r)
        BY <3>6 DEF Placing
      <4> QED
        BY <3>3, <4>1, <4>2, <4>3, StageMove
    <3> QED
      BY <3>2, <3>5, <3>6 DEF submit_request
  <2>3. CASE ~ (queue # <<>> /\ Head(queue).published)
    BY <1>7, <1>8, <2>3 DEF drain_submissions
  <2> QED
    BY <2>2, <2>3
<1>9. CASE process
  <2>1. PICK q \in Request : q = Head(ready) /\ q \in inflight
    BY <1>9 DEF process, LoopTypes
  <2>2. todo' = todo /\ queue' = queue /\ push[Loop] = NoPush
    BY <1>9 DEF process, At
  <2>3. q \notin Immediate /\ called[q] = 0 /\ Started(q)
    <3>1. called[q] \in Nat /\ called[q] <= 1 /\ called[q] # 1
      BY <2>1 DEF EndInv, LoopTypes
    <3>2. called[q] = 0
      BY <3>1
    <3> QED
      BY <2>1, <3>2 DEF EndInv, Started
  <2>4. CASE left[q] > 1
    <3>1. submit_request(q)
      BY <1>9, <2>1, <2>4 DEF process
    <3>2. UNCHANGED <<push, called>> /\ inflight' \cup dropped' \subseteq inflight \cup dropped \cup {q}
      BY <2>3, <3>1 DEF submit_request
    <3>3. \A r \in Request : Started(r)' => Started(r)
      BY <2>3, <3>2 DEF Started
    <3>4. \A r \in Request : (Fresh(r)' <=> Fresh(r)) /\ (Queued(r)' <=> Queued(r))
      BY <2>2, <3>2, Zenon DEF Fresh, Queued
    <3>5. \A r \in Request, t \in Thread : Placing(t, r)' <=> Placing(t, r)
      BY <3>2 DEF Placing
    <3> QED
      BY <1>u, <2>2, <3>3, <3>4, <3>5, StageMove
  <2>5. CASE ~ (left[q] > 1)
    <3>1. invoke_request_callback(q) /\ inflight' = inflight \ {q} /\ dropped' = dropped
      BY <1>9, <2>1, <2>5 DEF process
    <3>2. /\ \A r \in Request : Fresh(r)' => Fresh(r)
          /\ \A r \in Request, t \in Thread :
               Placing(t, r)' => Placing(t, r) \/ (t = Loop /\ Fresh(r) /\ ~ Fresh(r)')
          /\ called' = [called EXCEPT ![q] = 1]
      BY <2>2, <2>3, <3>1, CallbackMove
    <3>3. \A r \in Request : (Started(r)' => Started(r)) /\ (Queued(r)' <=> Queued(r))
      BY <2>2, <2>3, <3>1, <3>2, Zenon DEF Started, Queued, LoopTypes
    <3> QED
      BY <1>u, <2>2, <3>2, <3>3, StageMove
  <2> QED
    BY <2>4, <2>5
<1> QED
  <2>1. CASE \/ \E r \in Request : Complete(r)
             \/ ReadEventfd \/ Top \/ wait_one \/ peek_batch \/ handle_wakeup \/ ArmFails \/ WaitFails
             \/ UNCHANGED proactor_vars
    BY <1>7, <2>1 DEF Complete, ReadEventfd, Top, wait_one, peek_batch, handle_wakeup, ArmFails,
       WaitFails, proactor_vars
  <2> QED
    BY <1>1, <1>2, <1>3, <1>5, <1>6, <1>8, <1>9, <1>c, <2>1 DEF ProactorNext, Push, LoopStep

(* Every step keeps EndInv: a callback ends a request that is in flight    *)
(* or in the queue, once.                                                  *)
LEMMA EndStep ==
  ASSUME ProactorConstants, LoopTypes, StageInv, EndInv, [ProactorNext]_proactor_vars
  PROVE  EndInv'
<1> USE DEF push_vars, loop_vars
<1>1. CASE UNCHANGED <<inflight, left, called, dropped>>
  BY <1>1 DEF EndInv
<1>2. CASE drain_submissions
  <2>1. CASE queue # <<>> /\ Head(queue).published
    <3>1. PICK q : q = Head(queue).req
      OBVIOUS
    <3>2. submit_request(q) /\ left' = left
      BY <1>2, <2>1, <3>1 DEF drain_submissions
    <3>3. q \in Request /\ ~ Started(q)
      <4>1. q \in Request /\ Queued(q)
        BY <1>2, <2>1, <3>1, QueueTail DEF drain_submissions
      <4> QED
        BY <4>1 DEF StageInv
    <3>4. q \notin inflight /\ q \notin dropped /\ called[q] = 0
      BY <3>3 DEF Started
    <3>5. CASE q \in Immediate /\ invoke_request_callback(q) /\ UNCHANGED <<inflight, dropped>>
      <4>1. called' = [called EXCEPT ![q] = 1]
        BY <3>4, <3>5 DEF invoke_request_callback
      <4> QED
        BY <3>2, <3>3, <3>4, <3>5, <4>1 DEF EndInv, LoopTypes
    <3>6. CASE q \notin Immediate /\ called' = called /\ inflight' = inflight \cup {q} /\ dropped' = dropped
      BY <3>2, <3>3, <3>4, <3>6 DEF EndInv, LoopTypes
    <3>7. CASE called' = called /\ inflight' = inflight \ {q} /\ dropped' = dropped \cup {q}
      BY <3>2, <3>3, <3>4, <3>7 DEF EndInv, LoopTypes
    <3> QED
      BY <3>2, <3>5, <3>6, <3>7 DEF submit_request
  <2>2. CASE ~ (queue # <<>> /\ Head(queue).published)
    BY <1>1, <1>2, <2>2 DEF drain_submissions
  <2> QED
    BY <2>1, <2>2
<1>3. CASE process
  <2>1. PICK q \in Request : q = Head(ready) /\ q \in inflight
    BY <1>3 DEF process, LoopTypes
  <2>2. left' = [left EXCEPT ![q] = left[q] - 1]
    BY <1>3, <2>1 DEF process
  <2>3. q \notin Immediate /\ q \notin dropped /\ called[q] = 0 /\ left[q] >= 1 /\ left[q] \in Int
    <3>1. called[q] \in Nat /\ called[q] <= 1 /\ called[q] # 1
      BY <2>1 DEF EndInv, LoopTypes
    <3>2. called[q] = 0
      BY <3>1
    <3> QED
      BY <2>1, <3>2 DEF EndInv, LoopTypes
  <2>4. CASE left[q] > 1
    <3>1. submit_request(q)
      BY <1>3, <2>1, <2>4 DEF process
    <3>2. CASE called' = called /\ inflight' = inflight \cup {q} /\ dropped' = dropped
      BY <2>1, <2>2, <2>3, <2>4, <3>2 DEF EndInv, LoopTypes
    <3>3. CASE called' = called /\ inflight' = inflight \ {q} /\ dropped' = dropped \cup {q}
      BY <2>1, <2>2, <2>3, <2>4, <3>3 DEF EndInv, LoopTypes
    <3> QED
      BY <2>3, <3>1, <3>2, <3>3 DEF submit_request
  <2>5. CASE ~ (left[q] > 1)
    <3>1. inflight' = inflight \ {q} /\ dropped' = dropped /\ called' = [called EXCEPT ![q] = 1]
      BY <1>3, <2>1, <2>3, <2>5 DEF process, invoke_request_callback
    <3>2. left[q] = 1
      BY <2>3, <2>5
    <3> QED
      BY <2>1, <2>2, <2>3, <3>1, <3>2 DEF EndInv, LoopTypes
  <2> QED
    BY <2>4, <2>5
<1> QED
  BY <1>1, <1>2, <1>3, Zenon DEF ProactorNext, Push, BeginPush, TakePlace, PublishPlace, notify_wakeup, Complete, ReadEventfd,
     LoopStep, Top, wait_one, peek_batch, handle_wakeup, ArmFails, WaitFails, stop, proactor_vars

(* The wait is entered with no completion left to handle. *)
WaitsEmpty == loop_pc = "wait" => ready = <<>>

(* Every step keeps RingInv: what was submitted is at the kernel or        *)
(* completed once.                                                         *)
LEMMA RingStep ==
  ASSUME ProactorConstants, LoopTypes, WaitsEmpty, StageInv, EndInv, RingInv, [ProactorNext]_proactor_vars
  PROVE  RingInv'
<1> USE DEF push_vars, loop_vars
<1>c. Wake \notin Request /\ Wake \in Event /\ Request \subseteq Event /\ MaxEvents \in Nat
  BY DEF ProactorConstants, Event
<1>t. cq \in Seq(Event) /\ ready \in Seq(Event) /\ inflight \subseteq Request /\ kernel \subseteq Request
  BY DEF LoopTypes
<1>d. Distinct(cq) /\ Distinct(ready)
  BY DEF RingInv
<1>s. \A e \in Event : (e \in Submitted <=> e \in inflight \/ (e = Wake /\ wakeup_armed))
                       /\ (e \in AtKernel <=> e \in kernel \/ (e = Wake /\ wakeup_read))
  BY <1>c, <1>t DEF Submitted, AtKernel
(* Something is completed. *)
<1>1. ASSUME NEW e \in Event, e \in AtKernel, cq' = Append(cq, e), ready' = ready,
             AtKernel' = AtKernel \ {e}, Submitted' = Submitted
      PROVE  RingInv'
  <2>1. ~ Contains(cq, e) /\ ~ Contains(ready, e)
    BY <1>1 DEF RingInv
  <2>2. Distinct(cq')
    BY <1>1, <1>d, <1>t, <2>1, DistinctAppended
  <2>3. \A x \in Event : Contains(cq', x) <=> Contains(cq, x) \/ e = x
    BY <1>1, <1>t, ContainsAppended
  <2> QED
    BY <1>1, <1>d, <2>1, <2>2, <2>3 DEF RingInv
<1>2. ASSUME NEW r \in Request, Complete(r) PROVE RingInv'
  <2>1. r \in AtKernel /\ AtKernel' = AtKernel \ {r} /\ Submitted' = Submitted
    BY <1>2, <1>c, <1>t DEF Complete, AtKernel, Submitted
  <2> QED
    BY <1>1, <1>2, <1>c, <2>1 DEF Complete
<1>3. CASE ReadEventfd
  <2>1. Wake \in AtKernel /\ AtKernel' = AtKernel \ {Wake} /\ Submitted' = Submitted
    BY <1>3, <1>c, <1>t DEF ReadEventfd, AtKernel, Submitted
  <2> QED
    BY <1>1, <1>3, <1>c, <2>1 DEF ReadEventfd
(* Nothing is taken from the ring, and what is added is at the kernel.     *)
<1>4. ASSUME UNCHANGED <<cq, ready>>, AtKernel' \subseteq Submitted', Submitted \subseteq Submitted',
             \A e \in AtKernel' : e \in AtKernel \/ e \notin Submitted
      PROVE  RingInv'
  BY <1>4 DEF RingInv
<1>5. CASE UNCHANGED <<wakeup_armed, inflight, wakeup_read, kernel, cq, ready>>
  BY <1>5 DEF RingInv, Submitted, AtKernel
<1>6. CASE Top
  <2>1. CASE ~ running
    BY <1>5, <1>6, <2>1 DEF Top
  <2>2. CASE running
    <3>1. wakeup_armed' /\ wakeup_read' = (wakeup_read \/ ~ wakeup_armed) /\ UNCHANGED <<kernel, cq, ready, inflight>>
      BY <1>6, <2>2 DEF Top
    <3>2. Submitted' = Submitted \cup {Wake} /\ AtKernel' = AtKernel \cup (IF wakeup_armed THEN {} ELSE {Wake})
      BY <3>1, Zenon DEF Submitted, AtKernel
    <3>3. ~ wakeup_armed => Wake \notin Submitted
      BY <1>c, <1>t DEF Submitted
    <3>4. AtKernel \subseteq Submitted
      BY DEF RingInv
    <3> QED
      BY <1>4, <3>1, <3>2, <3>3, <3>4
  <2> QED
    BY <2>1, <2>2
(* Completions are taken from the completion queue. *)
<1>7. CASE wait_one
  <2>1. /\ cq # <<>> /\ ready' = <<Head(cq)>> /\ cq' = Tail(cq) /\ ready = <<>>
        /\ UNCHANGED <<wakeup_armed, inflight, wakeup_read, kernel>>
    BY <1>7 DEF wait_one, At, WaitsEmpty
  <2>2. Submitted' = Submitted /\ AtKernel' = AtKernel
    BY <2>1 DEF Submitted, AtKernel
  <2>3. Distinct(cq') /\ ~ Contains(cq', Head(cq))
    BY <1>d, <1>t, <2>1, DistinctTail
  <2>4. \A x \in Event : Contains(cq, x) <=> Head(cq) = x \/ Contains(cq', x)
    BY <1>t, <2>1, ContainsTail
  <2>5. Distinct(ready') /\ \A x \in Event : Contains(ready', x) <=> x = Head(cq)
    BY <2>1 DEF Distinct, Contains
  <2> QED
    BY <2>2, <2>3, <2>4, <2>5 DEF RingInv
<1>8. CASE peek_batch
  <2>1. PICK n : n = IF Len(cq) < MaxEvents THEN Len(cq) ELSE MaxEvents
    OBVIOUS
  <2>2. n \in 0..Len(cq)
    BY <1>c, <1>t, <2>1
  <2>3. /\ ready' = SubSeq(cq, 1, n) /\ cq' = SubSeq(cq, n + 1, Len(cq))
        /\ UNCHANGED <<wakeup_armed, inflight, wakeup_read, kernel>>
    BY <1>8, <2>1 DEF peek_batch
  <2>4. Submitted' = Submitted /\ AtKernel' = AtKernel
    BY <2>3 DEF Submitted, AtKernel
  <2>5. Distinct(ready') /\ Distinct(cq') /\ \A x : ~ (Contains(ready', x) /\ Contains(cq', x))
    BY <1>d, <1>t, <2>2, <2>3, DistinctSplit
  <2>6. \A x \in Event : Contains(cq, x) <=> Contains(ready', x) \/ Contains(cq', x)
    BY <1>t, <2>2, <2>3, ContainsSplit
  <2> QED
    BY <2>4, <2>5, <2>6 DEF RingInv
(* The first of the completions at hand is handled. *)
<1>9. ASSUME NEW q \in Event, ready # <<>>, q = Head(ready), ready' = Tail(ready), cq' = cq
      PROVE  /\ Distinct(cq') /\ Distinct(ready') /\ ~ Contains(ready', q) /\ ~ Contains(cq', q)
             /\ \A e \in Event : Contains(ready', e) => Contains(ready, e)
             /\ q \in Submitted \ AtKernel
  <2>1. Distinct(ready') /\ ~ Contains(ready', q)
    BY <1>9, <1>d, <1>t, DistinctTail
  <2>2. \A e \in Event : Contains(ready, e) <=> q = e \/ Contains(ready', e)
    BY <1>9, <1>t, ContainsTail
  <2> QED
    BY <1>9, <1>d, <2>1, <2>2 DEF RingInv
<1>10. CASE handle_wakeup
  <2>1. /\ ready # <<>> /\ Wake = Head(ready) /\ ready' = Tail(ready) /\ cq' = cq /\ ~ wakeup_armed'
        /\ UNCHANGED <<inflight, wakeup_read, kernel>>
    BY <1>10 DEF handle_wakeup
  <2>2. /\ Distinct(cq') /\ Distinct(ready') /\ ~ Contains(ready', Wake) /\ ~ Contains(cq', Wake)
        /\ \A e \in Event : Contains(ready', e) => Contains(ready, e)
        /\ Wake \in Submitted \ AtKernel
    BY <1>9, <1>c, <2>1
  <2>3. Submitted' = Submitted \ {Wake} /\ AtKernel' = AtKernel
    BY <1>c, <1>t, <2>1 DEF Submitted, AtKernel
  <2> QED
    BY <2>1, <2>2, <2>3 DEF RingInv
<1>11. CASE drain_submissions
  <2>1. CASE queue # <<>> /\ Head(queue).published
    <3>1. PICK q : q = Head(queue).req
      OBVIOUS
    <3>2. submit_request(q) /\ UNCHANGED <<wakeup_armed, wakeup_read, cq, ready>>
      BY <1>11, <2>1, <3>1, Zenon DEF drain_submissions
    <3>3. q \in Request /\ q \notin inflight
      <4>1. q \in Request /\ Queued(q)
        BY <1>11, <2>1, <3>1, QueueTail DEF drain_submissions
      <4> QED
        BY <4>1 DEF StageInv, Started
    <3>4. q \notin Submitted /\ AtKernel \subseteq Submitted
      BY <1>c, <1>s, <3>3 DEF RingInv
    <3>5. CASE UNCHANGED <<kernel, inflight>>
      BY <1>5, <3>2, <3>5
    <3>6. CASE kernel' = kernel \cup {q} /\ inflight' = inflight \cup {q}
      <4>1. Submitted' = Submitted \cup {q} /\ AtKernel' = AtKernel \cup {q}
        BY <3>2, <3>6 DEF Submitted, AtKernel
      <4> QED
        BY <1>4, <3>2, <3>4, <4>1
    <3>7. CASE kernel' = kernel /\ inflight' = inflight \ {q}
      <4>1. inflight' = inflight
        BY <3>3, <3>7
      <4> QED
        BY <1>5, <3>2, <3>7, <4>1
    <3> QED
      BY <3>2, <3>5, <3>6, <3>7 DEF submit_request
  <2>2. CASE ~ (queue # <<>> /\ Head(queue).published)
    BY <1>5, <1>11, <2>2 DEF drain_submissions
  <2> QED
    BY <2>1, <2>2
<1>12. CASE process
  <2>1. PICK q \in Request : q = Head(ready) /\ q \in inflight
    BY <1>12 DEF process, LoopTypes
  <2>2. ready # <<>> /\ ready' = Tail(ready) /\ UNCHANGED <<wakeup_armed, wakeup_read, cq>>
    BY <1>12 DEF process
  <2>3. /\ Distinct(cq') /\ Distinct(ready') /\ ~ Contains(ready', q) /\ ~ Contains(cq', q)
        /\ \A e \in Event : Contains(ready', e) => Contains(ready, e)
        /\ q \in Submitted \ AtKernel
    BY <1>9, <1>c, <2>1, <2>2
  <2>4. q # Wake /\ q \notin Immediate
    BY <1>c, <2>1 DEF EndInv
  <2>5. CASE kernel' = kernel \cup {q} /\ inflight' = inflight \cup {q}
    <3>1. Submitted' = Submitted /\ AtKernel' = AtKernel \cup {q}
      BY <2>1, <2>2, <2>5 DEF Submitted, AtKernel
    <3> QED
      BY <2>2, <2>3, <3>1 DEF RingInv
  <2>6. CASE kernel' = kernel /\ inflight' = inflight \ {q}
    <3>1. Submitted' = Submitted \ {q} /\ AtKernel' = AtKernel
      BY <2>2, <2>4, <2>6 DEF Submitted, AtKernel
    <3> QED
      BY <2>2, <2>3, <3>1 DEF RingInv
  <2>7. \/ kernel' = kernel \cup {q} /\ inflight' = inflight \cup {q}
        \/ kernel' = kernel /\ inflight' = inflight \ {q}
    BY <1>12, <2>1, <2>4 DEF process, submit_request
  <2> QED
    BY <2>5, <2>6, <2>7
<1> QED
  <2>1. CASE \/ \E t \in Pusher : BeginPush(t) \/ Push(t)
             \/ Push(Loop) \/ ArmFails \/ WaitFails \/ stop \/ notify_wakeup(Stopper) \/ UNCHANGED proactor_vars
    BY <1>5, <2>1, Zenon DEF BeginPush, Push, TakePlace, PublishPlace, notify_wakeup, ArmFails, WaitFails, stop, proactor_vars
  <2> QED
    BY <1>2, <1>3, <1>6, <1>7, <1>8, <1>10, <1>11, <1>12, <2>1 DEF ProactorNext, LoopStep

(* push_wait takes no place of a full queue. *)
LEMMA BoundedStep ==
  ASSUME ProactorConstants, LoopTypes, Bounded, [ProactorNext]_proactor_vars
  PROVE  Bounded'
<1> USE DEF push_vars, loop_vars
<1>c. QueueCapacity \in Nat /\ Pusher \subseteq Thread /\ Loop \in Thread
  BY DEF ProactorConstants, Thread
<1>l. Len(queue) \in Nat
  BY SeqDomain DEF LoopTypes
<1>1. ASSUME NEW t \in Pusher \cup {Loop}, TakePlace(t) PROVE Bounded'
  <2>1. push[t].req \in Request
    BY <1>1, <1>c DEF TakePlace, LoopTypes
  <2>2. [req |-> push[t].req, published |-> FALSE] \in Place
    BY <2>1 DEF Place
  <2>3. Len(queue') = Len(queue) + 1
    BY <1>1, <2>2, Appended DEF TakePlace, LoopTypes
  <2> QED
    BY <1>1, <1>c, <1>l, <2>3 DEF TakePlace, Bounded
<1>2. ASSUME NEW t \in Pusher \cup {Loop}, PublishPlace(t) PROVE Bounded'
  <2>1. DOMAIN queue' = 1..Len(queue) /\ queue' \in Seq(Place)
    <3>1. LoopTypes'
      BY LoopTypesStep
    <3>2. DOMAIN queue = 1..Len(queue)
      BY SeqDomain DEF LoopTypes
    <3> QED
      BY <1>2, <3>1, <3>2 DEF PublishPlace, LoopTypes
  <2>2. DOMAIN queue' = 1..Len(queue') /\ Len(queue') \in Nat
    BY <2>1, SeqDomain
  <2>3. Len(queue') = Len(queue)
    BY <1>c, <1>l, <2>1, <2>2
  <2> QED
    BY <1>2, <2>3 DEF PublishPlace, Bounded
<1>3. CASE UNCHANGED <<stop_called, queue>>
  BY <1>3 DEF Bounded
<1>4. CASE drain_submissions
  <2>1. queue # <<>> => Len(Tail(queue)) = Len(queue) - 1
    BY HeadTail DEF LoopTypes
  <2> QED
    BY <1>4, <1>c, <1>l, <2>1 DEF drain_submissions, Bounded
<1>5. CASE stop
  BY <1>5 DEF stop, Bounded
<1> QED
  BY <1>1, <1>2, <1>3, <1>4, <1>5, Zenon DEF ProactorNext, Push, BeginPush, notify_wakeup, Complete, ReadEventfd, LoopStep,
     Top, wait_one, peek_batch, handle_wakeup, process, ArmFails, WaitFails, proactor_vars

(* Before the loop starts every request is still to be pushed. *)
LEMMA CallInit ==
  ASSUME ProactorConstants, ProactorInit
  PROVE  CallInv
<1> USE DEF ProactorInit
<1>1. Bounded
  <2>1. QueueCapacity \in Nat /\ 0 <= QueueCapacity
    BY DEF ProactorConstants
  <2>2. Len(queue) = 0
    OBVIOUS
  <2> QED
    BY <2>1, <2>2, Zenon DEF Bounded
<1>2. TodoInv
  <2>1. \A t, u \in Pusher : \A i \in 1..Len(todo[t]), j \in 1..Len(todo[u]) :
          todo[t][i] = todo[u][j] => t = u /\ i = j
    BY DEF ProactorConstants, PushedOnce
  <2>2. \A t \in Pusher : Distinct(todo[t])
    BY <2>1 DEF Distinct
  <2>3. \A t, u \in Pusher, r \in Request : Contains(todo[t], r) /\ Contains(todo[u], r) => t = u
    BY <2>1 DEF Contains
  <2>4. \A t \in Pusher, s \in Request : ~ Contains(todo[t], Follow[s])
    BY ContainsRange DEF ProactorConstants, PushedOnce
  <2> QED
    BY <2>2, <2>3, <2>4 DEF TodoInv
<1>3. EndInv
  <2>1. \A r \in Request : called[r] = 0
    OBVIOUS
  <2>2. \A r \in Request : left[r] \in Nat \ {0}
    BY DEF ProactorConstants
  <2>3. inflight = {} /\ dropped = {}
    OBVIOUS
  <2> QED
    BY <2>1, <2>2, <2>3 DEF EndInv
<1>4. RingInv
  BY DEF RingInv, AtKernel, Submitted, Distinct, Contains
<1>5. StageInv
  <2>1. \A t \in Thread : push[t].step = "idle"
    BY DEF Thread, NoPush
  <2>2. \A r \in Request : ~ Queued(r) /\ ~ Started(r) /\ \A t \in Thread : ~ Placing(t, r)
    BY <2>1 DEF Queued, Started, Placing
  <2> QED
    BY <2>2 DEF StageInv
<1> QED
  BY <1>1, <1>2, <1>3, <1>4, <1>5 DEF CallInv

(* What is in the concatenation of two sequences is in one of them. *)
LEMMA ContainsConcat ==
  ASSUME NEW S, NEW a \in Seq(S), NEW b \in Seq(S), NEW x, Contains(a \o b, x)
  PROVE  Contains(a, x) \/ Contains(b, x)
<1>1. PICK i \in 1..Len(a \o b) : (a \o b)[i] = x
  BY DEF Contains
<1>2. Len(a) \in Nat /\ Len(b) \in Nat /\ Len(a \o b) = Len(a) + Len(b)
  OBVIOUS
<1>3. CASE i <= Len(a)
  BY <1>1, <1>2, <1>3 DEF Contains
<1>4. CASE i > Len(a)
  <2>1. (a \o b)[i] = b[i - Len(a)] /\ i - Len(a) \in 1..Len(b)
    BY <1>1, <1>2, <1>4
  <2> QED
    BY <1>1, <2>1 DEF Contains
<1> QED
  BY <1>1, <1>2, <1>3, <1>4

(* A request is called back once.  Whatever threads push, however often a  *)
(* request is submitted again and whatever submissions fail, no callback   *)
(* comes twice or for a request that was refused, a request is never in    *)
(* the queue and in flight, and none that the kernel has is among the      *)
(* completions that are still to be handled.                               *)
THEOREM OneCallbackPerRequest ==
  ASSUME ProactorConstants
  PROVE  ProactorSpec => []CallbackOnce
<1> DEFINE Inv == LoopTypes /\ WakeInv /\ CallInv
<1>1. ProactorInit => Inv
  BY LoopInit, CallInit
<1>2. Inv /\ [ProactorNext]_proactor_vars => Inv'
  <2> SUFFICES ASSUME Inv, [ProactorNext]_proactor_vars PROVE Inv'
    OBVIOUS
  <2>1. LoopTypes' /\ WakeInv'
    BY LoopTypesStep, WakeStep
  <2>2. Bounded' /\ TodoInv'
    BY BoundedStep, TodoStep DEF CallInv
  <2>3. StageInv' /\ EndInv'
    BY StageStep, EndStep DEF CallInv
  <2>4. RingInv'
    <3>1. WaitsEmpty
      BY DEF WakeInv, WaitsEmpty
    <3> QED
      BY <3>1, RingStep DEF CallInv
  <2> QED
    BY <2>1, <2>2, <2>3, <2>4 DEF CallInv
<1>3. Inv => CallbackOnce
  <2> SUFFICES ASSUME LoopTypes, CallInv PROVE CallbackOnce
    OBVIOUS
  <2>1. Wake \notin Request
    BY DEF ProactorConstants
  <2>2. kernel \subseteq inflight
    BY <2>1 DEF CallInv, RingInv, AtKernel, Submitted, LoopTypes
  <2>3. \A i \in DOMAIN queue : queue[i].req \in Request \ inflight
    <3>1. DOMAIN queue = 1..Len(queue) /\ \A i \in 1..Len(queue) : queue[i] \in Place
      BY SeqDomain DEF LoopTypes
    <3>2. \A i \in 1..Len(queue) : queue[i].req \in Request
      BY <3>1 DEF Place
    <3> QED
      BY <3>1, <3>2 DEF CallInv, StageInv, Queued, Started
  <2>4. \A r \in kernel : r \notin Range(cq \o ready)
    <3>1. \A r \in kernel : r \in Event /\ r \in AtKernel
      BY DEF LoopTypes, Event, AtKernel
    <3>2. \A r \in kernel : ~ Contains(cq, r) /\ ~ Contains(ready, r)
      BY <3>1 DEF CallInv, RingInv
    <3>3. cq \in Seq(Event) /\ ready \in Seq(Event) /\ cq \o ready \in Seq(Event)
      BY DEF LoopTypes
    <3> QED
      BY <3>2, <3>3, ContainsConcat, ContainsRange, Zenon
  <2> QED
    BY <2>2, <2>3, <2>4 DEF CallbackOnce, ProactorTypeOK, CallInv, EndInv, Bounded, LoopTypes
<1> QED
  BY <1>1, <1>2, <1>3, PTL DEF ProactorSpec
=============================================================================
