---------------------------- MODULE MultiButton ----------------------------
(***************************************************************************)
(* common/z_key/multi_button.c: buttons sampled by a periodic tick.  A     *)
(* level counts after DebounceTicks equal samples, a click is single or    *)
(* double once no other press follows within ShortTicks, and a press of    *)
(* more than LongTicks is long.                                            *)
(*                                                                         *)
(* Level 1 is the active one; repeat and ticks keep their widths, scaled.  *)
(***************************************************************************)
EXTENDS Naturals, SequencesExt

CONSTANTS
  Buttons,
  DebounceTicks, ShortTicks, LongTicks,
  TickMod,       \* 2^16, the range of ticks,
  RepeatMod,     \* and 2^4, of repeat
  MaxPresses,    \* environment: presses in a row
  MbReinit       \* environment: button_init is called on a started button

MultiButtonAssumption ==
  /\ DebounceTicks \in Nat \ {0} /\ ShortTicks \in Nat /\ LongTicks \in Nat
  /\ TickMod \in Nat /\ RepeatMod \in Nat /\ MaxPresses \in Nat
  /\ TickMod > LongTicks + 1 /\ TickMod > ShortTicks + 1 /\ RepeatMod > 2
  /\ MbReinit \in BOOLEAN

VARIABLES
  mb,        \* struct Button, for each of them
  mbList,    \* the list from head_handle on
  mbHistory  \* history: presses in a row, samples unlike the level in a row,
             \* the event and change of level of this tick, and whether the button was started

mbVars == <<mb, mbList, mbHistory>>

New(level) == [level |-> level, debounce |-> 0, ticks |-> 0, state |-> 0, repeat |-> 0]
Unheard == [presses |-> 0, unlike |-> 0, changed |-> FALSE, event |-> "none", started |-> FALSE]

MbInit == /\ mb = [b \in Buttons |-> New(0)] /\ mbList = <<>>
          /\ mbHistory = [b \in Buttons |-> Unheard]

\* Mutant: every sample counts.
NoDebounce(button, sample) == [button EXCEPT !.level = sample]

\* A sample unlike the level counts when it has come DebounceTicks times.
Debounced(button, sample) ==
  IF sample = button.level THEN [button EXCEPT !.debounce = 0]
  ELSE IF button.debounce + 1 >= DebounceTicks
       THEN [button EXCEPT !.level = sample, !.debounce = 0]
       ELSE [button EXCEPT !.debounce = @ + 1]

Ticked(button) == IF button.state > 0 THEN [button EXCEPT !.ticks = (@ + 1) % TickMod] ELSE button

To(button, state) == [button EXCEPT !.state = state]
Restart(button, state) == [button EXCEPT !.state = state, !.ticks = 0]
Now(button, event) == [button |-> button, event |-> event]

\* button_handler after the level is known: the button and the event told.
Handled(b) ==
  CASE b.state = 0 /\ b.level = 1 -> Now([Restart(b, 1) EXCEPT !.repeat = 1], "press_down")
    [] b.state = 1 /\ b.level = 0 -> Now(Restart(b, 2), "press_up")
    [] b.state = 1 /\ b.level = 1 /\ b.ticks > LongTicks -> Now(To(b, 5), "long_press_start")
    [] b.state = 2 /\ b.level = 1 ->
         Now([Restart(b, 3) EXCEPT !.repeat = (@ + 1) % RepeatMod], "press_down")
    [] b.state = 2 /\ b.level = 0 /\ b.ticks > ShortTicks ->
         Now(To(b, 0), CASE b.repeat = 1 -> "single_click" [] b.repeat = 2 -> "double_click"
                         [] OTHER -> "none")
    [] b.state = 3 /\ b.level = 0 ->
         Now(IF b.ticks < ShortTicks THEN Restart(b, 2) ELSE To(b, 0), "press_up")
    [] b.state = 5 /\ b.level = 1 -> Now(b, "long_press_hold")
    [] b.state = 5 /\ b.level = 0 -> Now(To(b, 0), "press_up")
    [] OTHER -> Now(b, "none")

Handler(b, sample) == Handled(Debounced(Ticked(b), sample))

\* button_ticks: every button of the list is handled.
Ticks(sample) ==
  /\ \A b \in Buttons : sample[b] = 1 => mbHistory[b].presses < MaxPresses \/ mb[b].state \in {1, 3, 5}
  /\ mb' = [b \in Buttons |-> IF b \in ToSet(mbList) THEN Handler(mb[b], sample[b]).button ELSE mb[b]]
  /\ mbHistory' = [b \in Buttons |->
       IF b \notin ToSet(mbList) THEN mbHistory[b]
       ELSE LET event == Handler(mb[b], sample[b]).event
                before == IF mb[b].state = 0 THEN 0 ELSE mbHistory[b].presses
            IN  [mbHistory[b] EXCEPT
                   !.event = event,
                   !.changed = Debounced(Ticked(mb[b]), sample[b]).level # mb[b].level,
                   !.presses = IF event = "press_down" THEN before + 1 ELSE before,
                   !.unlike = IF sample[b] = mb[b].level THEN 0
                              ELSE IF mbHistory[b].unlike >= DebounceTicks THEN 1 ELSE @ + 1]]
  /\ UNCHANGED mbList

\* button_start: a button that is in the list is not put there again, and so
\* it is there once and button_stop takes it out at one place.
Start(b) == /\ b \notin ToSet(mbList)
            /\ mbList' = <<b>> \o mbList
            /\ mbHistory' = [mbHistory EXCEPT ![b].started = TRUE]
            /\ UNCHANGED mb

Stop(b) == /\ \E i \in DOMAIN mbList : mbList[i] = b /\ mbList' = RemoveAt(mbList, i)
           /\ mbHistory' = [mbHistory EXCEPT ![b].started = FALSE]
           /\ UNCHANGED mb

\* button_init clears next too: what followed in the list is gone.
Reset(b, level) ==
  /\ b \notin ToSet(mbList) \/ MbReinit
  /\ mb' = [mb EXCEPT ![b] = New(level)]
  /\ mbList' = IF b \in ToSet(mbList) THEN SubSeq(mbList, 1, CHOOSE i \in DOMAIN mbList : mbList[i] = b)
               ELSE mbList
  /\ mbHistory' = [mbHistory EXCEPT ![b] = [Unheard EXCEPT !.started = mbHistory[b].started]]

MbNext == \/ \E sample \in [Buttons -> {0, 1}] : Ticks(sample)
          \/ \E b \in Buttons : Start(b) \/ Stop(b) \/ \E level \in {0, 1} : Reset(b, level)
MbSpec == MbInit /\ [][MbNext]_mbVars

-----------------------------------------------------------------------------
(* A single click is told after one press, a double click after two, and   *)
(* nothing that lasts less than DebounceTicks samples is a press or a      *)
(* release; every button that was started is sampled.                      *)
ClicksAreCounted ==
  \A b \in Buttons :
    LET h == mbHistory[b] IN
    /\ h.event = "single_click" => h.presses = 1
    /\ h.event = "double_click" => h.presses = 2
    /\ h.changed => h.unlike = DebounceTicks
    /\ h.started => b \in ToSet(mbList)
=============================================================================
