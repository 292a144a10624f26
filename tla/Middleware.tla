----------------------------- MODULE Middleware -----------------------------
(***************************************************************************)
(* The radio MAC, the soft timer and the parameter store.  Each is a       *)
(* module of its own; this one checks them side by side, with the fairness *)
(* each of them needs: `part` says which of them a behaviour is about, and *)
(* the others stay as they began.                                          *)
(***************************************************************************)
EXTENDS Integers, Sequences, FiniteSets

CONSTANTS Difs, Bbte, MaxBackoff, Retrans, AirTicks, Gap, PollPeriod, ParseTicks, ShortPackets,
          Assesses, MaxReplies, MaxPackets
VARIABLES bus, tx, rsp, rx, fifo, events, main, own, peer, waited, packets, overlap, aborted, silence
radioVars == <<bus, tx, rsp, rx, fifo, events, main, own, peer, waited, packets, overlap, aborted, silence>>
Radio == INSTANCE RadioMac

CONSTANTS Timers, Periods, Modes, CountWord, IsrTimers, Preempt, MaxCalls
VARIABLES config, active, ready, count, tick, loop, calls
timerVars == <<config, active, ready, count, tick, loop, calls>>
Timer == INSTANCE SoftTimer WITH main <- loop, Word <- CountWord

CONSTANTS NSlots, PerBlock, Word, Values, Zeros, MaxSaves, MaxFaults
VARIABLES erased, flash, para, pc, offset, new, saved, worn, saves, faults
storeVars == <<erased, flash, para, pc, offset, new, saved, worn, saves, faults>>
Store == INSTANCE Parameters

\* What every part assumes of its constants.
ASSUME PartsAssumption ==
  Radio!RadioAssumption /\ Timer!TimerAssumption /\ Store!ParametersAssumption

VARIABLE part

-----------------------------------------------------------------------------
\* Where a part has several initial states, one that is not looked at has one of them.
Init == /\ part \in {"radio", "timer", "store"}
        /\ Radio!Init /\ Timer!Init
        /\ Store!Init /\ (part # "store" => erased = "one")

Others == /\ UNCHANGED part
          /\ IF part = "radio" THEN TRUE ELSE UNCHANGED radioVars
          /\ IF part = "timer" THEN TRUE ELSE UNCHANGED timerVars
          /\ IF part = "store" THEN TRUE ELSE UNCHANGED storeVars

Next == \/ part = "radio" /\ Radio!Next /\ Others
        \/ part = "timer" /\ Timer!Next /\ Others
        \/ part = "store" /\ Store!Next /\ Others

vars == <<part, radioVars, timerVars, storeVars>>

(* Each part's own fairness: the radio's clock, channel and main loop go   *)
(* on; the tick interrupt keeps coming and the main loop keeps polling; a  *)
(* save runs to its end, or power comes back.  A part is chosen once for a *)
(* behaviour, so actions of different parts can share a WF.                *)
Spec == /\ Init /\ [][Next]_vars
        /\ WF_vars(/\ \/ part = "radio" /\ Radio!Tick
                      \/ part = "timer" /\ Timer!Tick
                      \/ part = "store" /\ (Store!Search \/ Store!Write \/ Store!Verify \/ Store!PowerUp)
                   /\ Others)
        /\ WF_vars(part = "radio" /\ Radio!Poll /\ Others)
        /\ WF_vars(part = "radio" /\ Radio!Announce /\ Others)
        /\ WF_vars(part = "radio" /\ Radio!PeerDone /\ Others)
        /\ WF_vars(part = "radio" /\ Radio!Transmitted /\ Others)
        /\ SF_vars(part = "timer" /\ Timer!MainLoop /\ Others)

-----------------------------------------------------------------------------
(* radio_media_access_control.c: the station starts no transmission during *)
(* one of its own, although three places send; what the parser gets is one *)
(* packet, never the bytes of two; a busy bus has a timeout.               *)
RadioSound == part = "radio" => Radio!TypeOK /\ Radio!OneOnAir /\ Radio!NoMixture

(* A cached message is sent only after the channel was silent for difs     *)
(* ticks ("silence bus for DISF ticks"), in the tick that claims the bus   *)
(* too, which the channel assessment sees to.                              *)
ClaimsAfterSilence ==
  [][part = "radio" /\ tx.state # "wait_post" /\ tx'.state = "wait_post" => silence' = Difs]_vars

(* soft_timer.c: a timer hangs on one list, once, and _timer_count is the  *)
(* time of the first whenever the tick is not about to expire it.          *)
TimerSound == part = "timer" => Timer!TypeOK /\ Timer!ListsSound

(* The delta list keeps the deadline of every timer, whatever is inserted  *)
(* before it or taken out, and timers are called in the order they expire. *)
ImplementsDeadlines == Timer!ImplementsDeadlines

(* A timer that runs gets its callback, unless it is stopped or destroyed. *)
ExpiryIsCalled == Timer!ExpiryIsCalled

(* parameters.c: at any moment, power or not, a start would find the block *)
(* saved last or the one being saved, and parameters_get answers with the  *)
(* block saved last.                                                       *)
StoreSound == part = "store" => Store!TypeOK /\ Store!Durable /\ Store!GetsSaved

(* No message of the radio and no save waits for ever: the one is answered *)
(* or given up, as long as the other stations fall silent in the end (a    *)
(* channel that is not clear locks the bus again, without a count); the    *)
(* other returns.                                                          *)
Waiting == \/ part = "radio" /\ tx.state # "idle"
           \/ part = "store" /\ pc # "idle"
Settles == Radio!ChannelFallsSilent => (Waiting ~> ~Waiting)
=============================================================================
