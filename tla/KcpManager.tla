----------------------------- MODULE KcpManager -----------------------------
(***************************************************************************)
(* KcpManager of myring: the timers that drive its KCP sessions.  Every    *)
(* session has a node in a heap, due when ikcp_check asks for the next     *)
(* ikcp_update; old nodes stay in the heap and are told apart by a         *)
(* sequence number.  One timeout, the tick, is armed for the earliest due  *)
(* time; older timeouts are told apart by a sequence number as well.       *)
(* Everything here runs on the loop thread of the dispatcher, one callback *)
(* after the other; time stands still in a callback.                       *)
(*                                                                         *)
(* The manager counts time without bound, KCP modulo Wrap (2^32).  Of a    *)
(* KCP control block the model keeps what update and check look at: when   *)
(* to flush, whether data waits for a flush, and when the segments that    *)
(* are sent are to be sent again.                                          *)
(***************************************************************************)
EXTENDS Integers, FiniteSets, FiniteSetsExt

CONSTANTS
  Key,          \* KcpSessionKey
  Wrap,         \* 2^32
  Jump,         \* the 10000 ms of ikcp_update
  Interval, Rto,
  FallbackTick, \* fallback_tick_ms_
  IdleTimeout,  \* idle_timeout_ms_
  GcPeriod,     \* the 1000 ms between two collections
  Late,         \* how late a timeout may be delivered
  Start,        \* the time of the first step
  MaxTime,      \* bound on time
  MaxTouches    \* bound on datagrams and sends

Constants ==
  /\ {Wrap, Jump, Interval, Rto, FallbackTick, IdleTimeout, GcPeriod, Start, MaxTime}
       \subseteq Nat \ {0}
  /\ {Late, MaxTouches} \subseteq Nat
  /\ Wrap % 2 = 0
  /\ Interval + Late + 1 < Jump /\ 2 * Jump < Wrap /\ 2 * Rto < Wrap

VARIABLES
  now,          \* monotonic_ms()
  running,
  joined,       \* has stop joined the loop thread?
  initialised,  \* has the task posted by start run?
  sessions,     \* the keys in sessions_
  kcp,          \* the control blocks
  next_due, schedule_seq, last_active,   \* the rest of the entries
  timer_heap,   \* a set: two equal nodes act like one
  armed_due, armed_seq, next_gc,
  timeouts,     \* timeouts that are submitted and not delivered
  tick,         \* mono_now of the handle_tick that is running, or 0
  touches       \* how many datagrams and sends there were

vars == <<now, running, joined, initialised, sessions, kcp, next_due, schedule_seq,
          last_active, timer_heap, armed_due, armed_seq, next_gc, timeouts, tick, touches>>

-----------------------------------------------------------------------------
(* KCP time *)

kcp_now_ms(t) == t % Wrap

_itimediff(a, b) ==
  LET d == (a - b) % Wrap IN IF d < Wrap \div 2 THEN d ELSE d - Wrap

kcp_time_reached(n, due) == _itimediff(n, due) >= 0

(* Mutant: a time that is reached gives no delay. *)
kcp_delay_ms_Zero(n, due) ==
  IF kcp_time_reached(n, due) THEN 0 ELSE (due - n) % Wrap

kcp_delay_ms(n, due) ==
  IF kcp_time_reached(n, due) THEN 1 ELSE (due - n) % Wrap

(* What is kept of a control block. *)
NewKcp == [updated |-> FALSE, ts_flush |-> 0, queued |-> FALSE, resend |-> {}]

(* The send window has room, and the time of retransmission does not grow *)
(* from one to the next.                                                   *)
ikcp_flush(c, n) ==
  [c EXCEPT !.queued = FALSE,
            !.resend = {IF kcp_time_reached(n, r) THEN (n + Rto) % Wrap ELSE r : r \in @}
                         \cup IF c.queued THEN {(n + Rto) % Wrap} ELSE {}]

ikcp_update(c, n) ==
  LET far   == \/ ~ c.updated
               \/ _itimediff(n, c.ts_flush) >= Jump
               \/ _itimediff(n, c.ts_flush) < -Jump
      flush == IF far THEN n ELSE c.ts_flush
      later == (flush + Interval) % Wrap
      u     == [c EXCEPT !.updated = TRUE, !.ts_flush = flush]
  IN  IF _itimediff(n, flush) < 0 THEN u
      ELSE ikcp_flush([u EXCEPT !.ts_flush = IF kcp_time_reached(n, later)
                                             THEN (n + Interval) % Wrap ELSE later], n)

ikcp_check(c, n) ==
  LET d == _itimediff(n, c.ts_flush) IN
  IF \/ ~ c.updated
     \/ d >= Jump \/ d < -Jump \/ d >= 0
     \/ \E r \in c.resend : _itimediff(r, n) <= 0
  THEN n
  ELSE (n + Min({Interval, -d} \cup {_itimediff(r, n) : r \in c.resend})) % Wrap

-----------------------------------------------------------------------------
Init ==
  /\ now = Start
  /\ running = TRUE /\ joined = FALSE /\ initialised = FALSE
  /\ sessions = {}
  /\ kcp = [k \in Key |-> NewKcp]
  /\ next_due = [k \in Key |-> 0]
  /\ schedule_seq = [k \in Key |-> 0]
  /\ last_active = [k \in Key |-> 0]
  /\ timer_heap = {}
  /\ armed_due = 0 /\ armed_seq = 0 /\ next_gc = 0
  /\ timeouts = {}
  /\ tick = 0
  /\ touches = 0

arm_tick_for_due_in_loop(due) ==
  IF ~ running \/ (armed_due # 0 /\ due >= armed_due)
  THEN UNCHANGED <<armed_due, armed_seq, timeouts>>
  ELSE /\ armed_due' = due
       /\ armed_seq' = armed_seq + 1
       /\ timeouts' = timeouts \cup
            {[at |-> now + (IF due > now THEN due - now ELSE 1), seq |-> armed_seq + 1]}

(* c is the control block after the update, seq the entry's last number,   *)
(* and heap what is left of the heap.                                      *)
schedule_session_in_loop(k, c, seq, heap) ==
  LET due == now + kcp_delay_ms(kcp_now_ms(now), ikcp_check(c, kcp_now_ms(now))) IN
  /\ kcp' = [kcp EXCEPT ![k] = c]
  /\ next_due' = [next_due EXCEPT ![k] = due]
  /\ schedule_seq' = [schedule_seq EXCEPT ![k] = seq + 1]
  /\ timer_heap' = heap \cup {[due |-> due, seq |-> seq + 1, key |-> k]}
  /\ arm_tick_for_due_in_loop(due)

(* The task posted by start; a datagram may come before it. *)
InitialTick ==
  /\ ~ joined /\ ~ initialised /\ tick = 0
  /\ initialised' = TRUE
  /\ next_gc' = now + GcPeriod
  /\ arm_tick_for_due_in_loop(now + FallbackTick)
  /\ UNCHANGED <<now, running, joined, sessions, kcp, next_due, schedule_seq, last_active,
                 timer_heap, tick, touches>>

(* An entry that is found, or created with sequence number 0. *)
EntryKcp(k) == IF k \in sessions THEN kcp[k] ELSE NewKcp
EntrySeq(k) == IF k \in sessions THEN schedule_seq[k] ELSE 0

find_or_create_session_entry_in_loop(k) ==
  /\ touches < MaxTouches
  /\ touches' = touches + 1
  /\ sessions' = sessions \cup {k}
  /\ last_active' = [last_active EXCEPT ![k] = now]

(* The block is c after input or send; ikcp_update follows. *)
Touch(k, c) ==
  /\ ~ joined /\ tick = 0
  /\ find_or_create_session_entry_in_loop(k)
  /\ schedule_session_in_loop(k, ikcp_update(c, kcp_now_ms(now)), EntrySeq(k), timer_heap)
  /\ UNCHANGED <<now, running, joined, initialised, next_gc, tick>>

(* The block refuses the datagram or the data: nothing is scheduled. *)
TouchFails(k) ==
  /\ ~ joined /\ tick = 0
  /\ find_or_create_session_entry_in_loop(k)
  /\ kcp' = [kcp EXCEPT ![k] = EntryKcp(k)]
  /\ schedule_seq' = [schedule_seq EXCEPT ![k] = EntrySeq(k)]
  /\ next_due' = [next_due EXCEPT ![k] = IF k \in sessions THEN @ ELSE 0]
  /\ UNCHANGED <<now, running, joined, initialised, timer_heap, armed_due, armed_seq, next_gc,
                 timeouts, tick>>

(* A datagram may acknowledge segments. *)
handle_udp_packet(k) ==
  \E acked \in SUBSET EntryKcp(k).resend :
    Touch(k, [EntryKcp(k) EXCEPT !.resend = @ \ acked])

send_in_loop(k) == Touch(k, [EntryKcp(k) EXCEPT !.queued = TRUE])

-----------------------------------------------------------------------------
(* Mutant: the armed time is not reset when its timeout fires. *)
TimeoutFires_NoReset(t) ==
  /\ ~ joined /\ tick = 0
  /\ t \in timeouts /\ t.at <= now
  /\ timeouts' = timeouts \ {t}
  /\ tick' = IF running /\ t.seq = armed_seq THEN now ELSE tick
  /\ UNCHANGED <<now, running, joined, initialised, sessions, kcp, next_due, schedule_seq,
                 last_active, timer_heap, armed_due, armed_seq, next_gc, touches>>

(* The callback of a timeout; handle_tick begins, if it is the armed one. *)
TimeoutFires(t) ==
  /\ ~ joined /\ tick = 0
  /\ t \in timeouts /\ t.at <= now
  /\ timeouts' = timeouts \ {t}
  /\ IF running /\ t.seq = armed_seq
     THEN armed_due' = 0 /\ tick' = now
     ELSE UNCHANGED <<armed_due, tick>>
  /\ UNCHANGED <<now, running, joined, initialised, sessions, kcp, next_due, schedule_seq,
                 last_active, timer_heap, armed_seq, next_gc, touches>>

Earliest == {n \in timer_heap : \A m \in timer_heap : n.due <= m.due}

(* handle_tick takes a node that is due off the heap. *)
TickPops(n) ==
  /\ tick # 0
  /\ n \in Earliest /\ n.due <= tick
  /\ LET k == n.key IN
     IF k \in sessions /\ schedule_seq[k] = n.seq /\ next_due[k] = n.due
     THEN LET c == kcp[k]
              t == kcp_now_ms(tick)
          IN  schedule_session_in_loop(
                k, IF kcp_time_reached(t, ikcp_check(c, t)) THEN ikcp_update(c, t) ELSE c,
                schedule_seq[k], timer_heap \ {n})
     ELSE /\ timer_heap' = timer_heap \ {n}
          /\ UNCHANGED <<kcp, next_due, schedule_seq, armed_due, armed_seq, timeouts>>
  /\ UNCHANGED <<now, running, joined, initialised, sessions, last_active, next_gc, tick, touches>>

maybe_collect_idle_sessions_in_loop ==
  IF next_gc # 0 /\ tick < next_gc THEN UNCHANGED <<next_gc, sessions>>
  ELSE /\ next_gc' = tick + GcPeriod
       /\ sessions' = {k \in sessions : tick - last_active[k] < IdleTimeout}

(* handle_tick arms the next tick and collects idle sessions. *)
TickEnds ==
  /\ tick # 0
  /\ \A n \in timer_heap : n.due > tick
  /\ arm_tick_for_due_in_loop(IF timer_heap = {} THEN tick + FallbackTick
                              ELSE Min({n.due : n \in timer_heap}))
  /\ maybe_collect_idle_sessions_in_loop
  /\ tick' = 0
  /\ UNCHANGED <<now, running, joined, initialised, kcp, next_due, schedule_seq, last_active,
                 timer_heap, touches>>

handle_tick == (\E n \in timer_heap : TickPops(n)) \/ TickEnds

-----------------------------------------------------------------------------
stop ==
  /\ running
  /\ running' = FALSE
  /\ UNCHANGED <<now, joined, initialised, sessions, kcp, next_due, schedule_seq, last_active,
                 timer_heap, armed_due, armed_seq, next_gc, timeouts, tick, touches>>

(* The loop thread has ended; the rest of stop. *)
StopClears ==
  /\ ~ running /\ ~ joined /\ tick = 0
  /\ joined' = TRUE
  /\ sessions' = {} /\ timer_heap' = {}
  /\ next_gc' = 0 /\ armed_due' = 0 /\ armed_seq' = 0
  /\ UNCHANGED <<now, running, initialised, kcp, next_due, schedule_seq, last_active, timeouts,
                 tick, touches>>

(* Time passes between callbacks; no callback is more than Late behind. *)
Advance ==
  /\ now < MaxTime /\ running /\ tick = 0
  /\ initialised \/ now < Start + Late
  /\ \A t \in timeouts : now < t.at + Late
  /\ now' = now + 1
  /\ UNCHANGED <<running, joined, initialised, sessions, kcp, next_due, schedule_seq,
                 last_active, timer_heap, armed_due, armed_seq, next_gc, timeouts, tick, touches>>

Next ==
  \/ InitialTick
  \/ \E k \in Key : handle_udp_packet(k) \/ send_in_loop(k) \/ TouchFails(k)
  \/ \E t \in timeouts : TimeoutFires(t)
  \/ handle_tick
  \/ stop \/ StopClears \/ Advance

Spec == Init /\ [][Next]_vars

-----------------------------------------------------------------------------
(* Properties *)

(* Types; numbers grow only. *)
TypeOK ==
  /\ now \in Start..MaxTime
  /\ running \in BOOLEAN /\ joined \in BOOLEAN /\ initialised \in BOOLEAN
  /\ sessions \subseteq Key
  /\ \A k \in Key : kcp[k].ts_flush \in 0..(Wrap - 1)
  /\ tick \in {0, now}
  /\ \A t \in timeouts : t.seq <= armed_seq \/ joined
  /\ \A k \in sessions : last_active[k] \in Start..now

(* Between callbacks every session that was scheduled has its node in the  *)
(* heap, the tick is armed no later than the first of these is due, and    *)
(* the timeout with the armed number is on its way.                        *)
TickCovers ==
  running /\ tick = 0 =>
    /\ initialised => armed_due # 0
    /\ armed_due # 0 => \E t \in timeouts : t.seq = armed_seq /\ t.at <= armed_due + 1
    /\ \A k \in sessions : schedule_seq[k] > 0 =>
         /\ [due |-> next_due[k], seq |-> schedule_seq[k], key |-> k] \in timer_heap
         /\ armed_due # 0 /\ armed_due <= next_due[k]

(* Every deadline is kept.  Data that is sent waits for its flush, and a   *)
(* segment that is not acknowledged for its retransmission, no longer than *)
(* the interval and the lateness of the timers, across the wrap of KCP's   *)
(* time; and an idle session is removed at the first collection after its  *)
(* timeout, since ticks come often enough for that.                        *)
Timely ==
  running /\ tick = 0 => \A k \in sessions :
    /\ kcp[k].queued => _itimediff(kcp_now_ms(now), kcp[k].ts_flush) <= Late
    /\ \A r \in kcp[k].resend : _itimediff(kcp_now_ms(now), r) < Interval + Late
    /\ now < last_active[k] + IdleTimeout + GcPeriod
             + (IF Interval > FallbackTick THEN Interval ELSE FallbackTick) + Late

(* handle_tick ends: with every node it takes off the heap fewer are due,  *)
(* since what it schedules again is not due in the same tick.              *)
DueNodes == {n \in timer_heap : n.due <= tick}
TickTakesOne ==
  tick # 0 /\ timer_heap' # timer_heap => Cardinality(DueNodes') < Cardinality(DueNodes)
=============================================================================
