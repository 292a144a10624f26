------------------------------ MODULE TimerSpec ------------------------------
(***************************************************************************)
(* What common/soft_timer promises: every running timer has ticks left, a  *)
(* tick takes one from each, a timer with none left becomes due, and due   *)
(* timers are taken in the order in which they became due.                 *)
(***************************************************************************)
EXTENDS Naturals, SequencesExt

CONSTANTS Timers, Periods

VARIABLES
  config, \* the created timers, with mode and period
  left,   \* the ticks left of each running timer
  due     \* the expired timers that wait for their callback, oldest first

vars == <<config, left, due>>

Init == config = <<>> /\ left = <<>> /\ due = <<>>

Without(t) == RestrictDomain(left, LAMBDA u : u # t)
NotDue(t) == IF t \in ToSet(due) THEN RemoveAt(due, CHOOSE i \in DOMAIN due : due[i] = t)
             ELSE due

Configure(t) ==
  /\ \E p \in Periods, m \in BOOLEAN :
       config' = [u \in DOMAIN config \union {t} |->
                    IF u = t THEN [period |-> p, repeat |-> m] ELSE config[u]]
  /\ UNCHANGED <<left, due>>

Start(t) ==
  /\ t \in DOMAIN config
  /\ \E p \in Periods :
       /\ config' = [config EXCEPT ![t].period = p]
       /\ left' = [u \in DOMAIN left \union {t} |-> IF u = t THEN p ELSE left[u]]
  /\ due' = NotDue(t)

Stop(t) == config' \in {config, RestrictDomain(config, LAMBDA u : u # t)}
           /\ left' = Without(t) /\ due' = NotDue(t)

\* No tick passes while an expired timer has not been made due.
Tick ==
  /\ \A t \in DOMAIN left : left[t] > 0
  /\ left' = [t \in DOMAIN left |-> left[t] - 1]
  /\ UNCHANGED <<config, due>>

Expire ==
  LET Z == {t \in DOMAIN left : left[t] = 0}
  IN /\ Z # {}
     /\ left' = RestrictDomain(left, LAMBDA t : t \notin Z)
     /\ \E order \in SetToSeqs(Z) : due' = due \o order
     /\ UNCHANGED config

\* The oldest due timer is taken; a repeating one runs again from here.
Take ==
  /\ due # <<>>
  /\ due' = Tail(due)
  /\ left' = IF config[Head(due)].repeat
             THEN [u \in DOMAIN left \union {Head(due)} |->
                     IF u = Head(due) THEN config[u].period ELSE left[u]]
             ELSE left
  /\ UNCHANGED config

Next ==
  \/ \E t \in Timers : Configure(t) \/ Start(t) \/ Stop(t)
  \/ Tick \/ Expire \/ Take

Spec == Init /\ [][Next]_vars
=============================================================================
