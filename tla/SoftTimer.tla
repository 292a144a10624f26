------------------------------ MODULE SoftTimer ------------------------------
(***************************************************************************)
(* common/soft_timer/soft_timer.c: timers on a delta list, expired in the  *)
(* tick interrupt and called back from soft_timer_poll in the main loop.   *)
(*                                                                         *)
(* What runs between _lock and _unlock is one step.  The tick falls        *)
(* between any two steps of the main loop, and an interrupt handler of the *)
(* application may call the API for its own timers; whether it may do so   *)
(* inside the tick, before that takes the lock, is Preempt.                *)
(***************************************************************************)
EXTENDS Naturals, FiniteSets, SequencesExt

CONSTANTS
  Timers,
  Periods,    \* the periods the application asks for
  Modes,      \* whether it creates timers that repeat
  Word,       \* 2^32, the range of _timer_count
  IsrTimers,  \* environment: the timers an interrupt handler starts and stops;
              \* the others belong to the main loop and the callbacks
  Preempt,    \* environment: the handler has a higher priority than the tick
  MaxCalls    \* bound: API calls after a timer is created

TimerAssumption ==
  /\ Periods \subseteq 1 .. Word - 1
  /\ Word \in Nat \ {0} /\ MaxCalls \in Nat
  /\ IsrTimers \subseteq Timers
  /\ Modes \subseteq BOOLEAN /\ Preempt \in BOOLEAN

VARIABLES
  config, \* timer_tcb.mode and .period of the timers that exist
  active, \* _timer_active_list: tcb and remaining
  ready,  \* _timer_ready_list
  count,  \* _timer_count
  tick,   \* "counted": soft_timer_tick has decremented, and not locked yet
  main,   \* op, on: the API call of the main loop that waits for the lock;
          \* cb: the timer poll took last; at: "taken" until its cb is entered
  calls   \* API calls so far, create aside

vars == <<config, active, ready, count, tick, main, calls>>

None == "none"
Created == DOMAIN config
Names(l) == {l[i].tcb : i \in DOMAIN l}
IndexOf(l, t) == CHOOSE i \in DOMAIN l : l[i].tcb = t
Sum(l, n) ==
  LET s[i \in 0 .. n] == IF i = 0 THEN 0 ELSE s[i - 1] + l[i].remaining IN s[n]

\* Ticks until the i-th active timer expires: what the deltas stand for.
Left(i) == count + Sum(active, i) - active[1].remaining

Init ==
  /\ config = <<>>
  /\ active = <<>> /\ ready = <<>>
  /\ count = 0
  /\ tick = "idle"
  /\ main = [op |-> None, on |-> None, cb |-> None, at |-> "loop"]
  /\ calls = 0

-----------------------------------------------------------------------------
(* The lists.  An operator works on q, a record of the active list and the *)
(* counter.                                                                *)

Q == [active |-> active, count |-> count]

\* list_first_entry(...)->remaining = _timer_count
Synced(q) == [q.active EXCEPT ![1].remaining = q.count]

\* _timer_count = list_first_entry(...)->remaining.  Of an empty list that
\* reads whatever lies behind the list head: garbage.
Counted(l, garbage) ==
  [active |-> l, count |-> IF l = <<>> THEN garbage ELSE l[1].remaining]

\* Mutant: the successor does not get the time of the timer taken out.
RemoveFromActiveBug(q, t, garbage) ==
  Counted(RemoveAt(Synced(q), IndexOf(q.active, t)), garbage)

RemoveFromActive(q, t, garbage) ==
  LET l == Synced(q)
      i == IndexOf(l, t)
  IN Counted(RemoveAt(IF i < Len(l)
                      THEN [l EXCEPT ![i + 1].remaining = @ + l[i].remaining]
                      ELSE l, i), garbage)

\* Behind every timer that expires no later.
InsertToActive(q, t, period) ==
  IF q.active = <<>>
  THEN Counted(<<[tcb |-> t, remaining |-> period]>>, 0)
  ELSE LET l == Synced(q)
           later == {i \in DOMAIN l : Sum(l, i) > period}
           at == IF later = {} THEN Len(l) + 1
                 ELSE CHOOSE i \in later : \A j \in later : i <= j
           delta == period - Sum(l, at - 1)
       IN Counted(InsertAt(IF later = {} THEN l
                           ELSE [l EXCEPT ![at].remaining = @ - delta],
                           at, [tcb |-> t, remaining |-> delta]), 0)

\* Mutant: list_add instead of list_add_tail.
InsertToReadyBug(l) == [i \in DOMAIN l |-> l[Len(l) + 1 - i].tcb] \o ready

\* The timers of l, one after the other.
InsertToReady(l) == ready \o [i \in DOMAIN l |-> l[i].tcb]

\* if(tcb->ops.remove) tcb->ops.remove(tcb)
Removed(t, garbage) ==
  IF t \in Names(active) THEN RemoveFromActive(Q, t, garbage) ELSE Q

\* Mutant: a timer is taken off the active list only.
RemoveFromReadyBug(t) == ready
RemoveFromReady(t) ==
  IF t \in ToSet(ready) THEN RemoveAt(ready, CHOOSE i \in DOMAIN ready : ready[i] = t)
  ELSE ready

\* tcb->ops.remove is not NULL
Listed(t) == t \in Names(active) \/ t \in ToSet(ready)

-----------------------------------------------------------------------------
(* The API.  MainTurn and IsrTurn say who may call for which timer.        *)

MainTurn == tick = "idle" /\ main.op = None /\ main.at # "taken"
IsrTurn == tick = "idle" \/ Preempt
Turn(t) ==
  /\ calls < MaxCalls /\ calls' = calls + 1
  /\ IF t \in IsrTimers THEN IsrTurn ELSE MainTurn

SoftTimerCreate(t, period, repeat) ==
  /\ MainTurn
  /\ t \notin Created
  /\ config' = [u \in Created \union {t} |->
                  IF u = t THEN [period |-> period, repeat |-> repeat] ELSE config[u]]
  /\ UNCHANGED <<active, ready, count, tick, main, calls>>

SoftTimerSetReloadMode(t, repeat) ==
  /\ t \in Created /\ Turn(t)
  /\ config[t].repeat # repeat
  /\ config' = [config EXCEPT ![t].repeat = repeat]
  /\ UNCHANGED <<active, ready, count, tick, main>>

\* start, restart (the same period) and change_period
StartWith(t, period) ==
  /\ t \in Created /\ Turn(t)
  /\ config' = [config EXCEPT ![t].period = period]
  /\ LET q == InsertToActive(Removed(t, 0), t, period)
     IN active' = q.active /\ count' = q.count
  /\ ready' = RemoveFromReady(t)
  /\ UNCHANGED <<tick, main>>

SoftTimerStart(t) == t \in Created /\ StartWith(t, config[t].period)
SoftTimerChangePeriod(t, period) ==
  t \in Created /\ period # config[t].period /\ StartWith(t, period)

\* The locked part of stop and destroy.
Unlist(t) ==
  /\ \E garbage \in 0 .. Word - 1 :
       LET q == Removed(t, garbage) IN active' = q.active /\ count' = q.count
  /\ ready' = RemoveFromReady(t)

\* An interrupt handler stops its timer; nothing runs between its steps that
\* touches the timer.
IsrStop(t) ==
  /\ t \in Created \cap IsrTimers /\ Turn(t)
  /\ Listed(t) /\ Unlist(t)
  /\ UNCHANGED <<config, tick, main>>

\* The main loop looks at ops.remove first, and takes the lock then.
StopCheck(t, op) ==
  /\ t \in Created \ IsrTimers /\ Turn(t)
  /\ IF Listed(t) THEN main' = [main EXCEPT !.op = op, !.on = t] /\ UNCHANGED config
     ELSE /\ main' = main
          /\ config' = IF op = "destroy" THEN RestrictDomain(config, LAMBDA u : u # t)
                       ELSE config
  /\ UNCHANGED <<active, ready, count, tick>>

StopRemove ==
  /\ tick = "idle" /\ main.op # None
  /\ Unlist(main.on)
  /\ config' = IF main.op = "destroy"
               THEN RestrictDomain(config, LAMBDA u : u # main.on) ELSE config
  /\ main' = [main EXCEPT !.op = None, !.on = None]
  /\ UNCHANGED <<tick, calls>>

-----------------------------------------------------------------------------
(* soft_timer_poll *)

PollTake ==
  /\ MainTurn /\ main.at = "loop" /\ ready # <<>>
  /\ LET t == Head(ready)
         q == IF config[t].repeat THEN InsertToActive(Q, t, config[t].period) ELSE Q
     IN /\ ready' = Tail(ready)
        /\ active' = q.active /\ count' = q.count
        /\ main' = [main EXCEPT !.cb = t, !.at = "taken"]
  /\ UNCHANGED <<config, tick, calls>>

PollCall ==
  /\ tick = "idle" /\ main.at = "taken"
  /\ main' = [main EXCEPT !.at = "callback"]
  /\ UNCHANGED <<config, active, ready, count, tick, calls>>

PollReturn ==
  /\ MainTurn /\ main.at = "callback"
  /\ main' = [main EXCEPT !.at = "loop", !.cb = None]
  /\ UNCHANGED <<config, active, ready, count, tick, calls>>

-----------------------------------------------------------------------------
(* soft_timer_tick *)

TickCount ==
  /\ tick = "idle"
  /\ count' = (count + Word - 1) % Word
  /\ tick' = IF count' = 0 /\ active # <<>> THEN "counted" ELSE "idle"
  /\ UNCHANGED <<config, active, ready, main, calls>>

\* Mutant: only the first is moved.
ExpiredBug == 1

\* How many timers the loop moves: those at the front with nothing remaining.
\* The first counts as such; when _timer_count is not 0 it is the only one,
\* for its removal gives the counter to its successor.
Expired ==
  IF count # 0 THEN 1
  ELSE CHOOSE n \in 1 .. Len(active) :
         /\ \A i \in 2 .. n : active[i].remaining = 0
         /\ n < Len(active) => active[n + 1].remaining # 0

TickExpire ==
  /\ tick = "counted"
  /\ tick' = "idle"
  /\ IF active = <<>> THEN UNCHANGED <<active, ready, count>>
     ELSE /\ ready' = InsertToReady(SubSeq(active, 1, Expired))
          /\ \E garbage \in 0 .. Word - 1 :
               LET l == SubSeq(active, Expired + 1, Len(active))
                   q == Counted(IF l = <<>> THEN l
                                ELSE [l EXCEPT ![1].remaining = @ + count], garbage)
               IN active' = q.active /\ count' = q.count
  /\ UNCHANGED <<config, main, calls>>

-----------------------------------------------------------------------------
Tick == TickCount \/ TickExpire
MainLoop == StopRemove \/ PollTake \/ PollCall \/ PollReturn

Next ==
  \/ \E t \in Timers :
       \/ \E p \in Periods : \/ \E r \in Modes : SoftTimerCreate(t, p, r)
                             \/ SoftTimerChangePeriod(t, p)
       \/ \E r \in BOOLEAN : SoftTimerSetReloadMode(t, r)
       \/ SoftTimerStart(t)
       \/ IsrStop(t)
       \/ StopCheck(t, "stop") \/ StopCheck(t, "destroy")
  \/ MainLoop
  \/ Tick

Spec == Init /\ [][Next]_vars

\* The tick interrupt keeps coming; the main loop keeps polling, callbacks and
\* locked sections end.  Of either group one step at most is enabled at a time.
FairSpec == Spec /\ WF_vars(Tick) /\ SF_vars(MainLoop)

-----------------------------------------------------------------------------
(* Properties *)

TypeOK ==
  /\ Created \subseteq Timers
  /\ \A t \in Created : config[t] \in [period : Periods, repeat : BOOLEAN]
  /\ active \in Seq([tcb : Created, remaining : 0 .. Word - 1])
  /\ ready \in Seq(Created)
  /\ count \in 0 .. Word - 1
  /\ tick \in {"idle", "counted"}
  /\ main \in [op : {None, "stop", "destroy"}, on : Timers \union {None},
              cb : Timers \union {None}, at : {"loop", "taken", "callback"}]
  /\ calls \in 0 .. MaxCalls

\* A timer hangs on one list, once, and the counter is the time of the first
\* active timer whenever the tick is not about to expire it: a counter of zero
\* would wrap at the next tick and hold every timer back for 2^32 ticks.
ListsSound ==
  /\ Cardinality(Names(active)) = Len(active)
  /\ Cardinality(ToSet(ready)) = Len(ready)
  /\ Names(active) \cap ToSet(ready) = {}
  /\ active # <<>> /\ tick = "idle" => count > 0

\* The delta list keeps the deadline of every timer, whatever is inserted before
\* it or taken out, and expired timers are taken in the order of their expiry
\* (soft_timer.h: "soft_timer_tick() will be call 100 counts and then cb will
\* be called").
Deadlines == INSTANCE TimerSpec WITH
  left <- [t \in Names(active) |-> Left(IndexOf(active, t))], due <- ready
ImplementsDeadlines == Deadlines!Spec

\* The tick expires a timer only when its ticks have passed.
NeverEarly ==
  [][\A i \in DOMAIN active :
       active[i].tcb \in ToSet(ready') => tick = "counted" /\ Left(i) = 0]_vars

\* A running timer gets its callback, unless it is stopped or destroyed.
Running(t) == t \in Names(active) \union ToSet(ready)
Called(t) == main.cb = t /\ main.at = "callback"
Dormant(t) == ~Running(t) /\ main.cb # t
ExpiryIsCalled ==
  \A t \in Timers : Running(t) ~> (Called(t) \/ Dormant(t))
=============================================================================
