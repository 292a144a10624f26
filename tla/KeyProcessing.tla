--------------------------- MODULE KeyProcessing ---------------------------
(***************************************************************************)
(* common/key/key_processing.c: a key polled by the main loop.  A sample   *)
(* counts once the next one is equal, and a press is told as pressed,      *)
(* pressing and long pressed, then short clicked or clicked, and released. *)
(* The polls come whenever the main loop gets to them.                     *)
(***************************************************************************)
EXTENDS Naturals, SequencesExt

CONSTANTS
  LongTimes,     \* values of long_pressing_time,
  PressingPeriod,\* pressing_read_period
  KeyTime,       \* bound on the clock
  ChangedInPress \* environment: long_pressing_time is set during a press too

KeyAssumption == /\ LongTimes \subseteq Nat \ {0} /\ LongTimes # {}
                 /\ PressingPeriod \in Nat \ {0} /\ KeyTime \in Nat
                 /\ ChangedInPress \in BOOLEAN

VARIABLES
  key,       \* struct key_proc
  keyPin,    \* what the input callback returns
  keyNow,    \* the clock, in ms
  keyEvents, \* history: the events of the last press,
  keySamples \* and the last two samples

keyVars == <<key, keyPin, keyNow, keyEvents, keySamples>>

KpInit == /\ key = [pressed |-> FALSE, last |-> FALSE, since |-> 0, read |-> 0, long |-> FALSE,
                    limit |-> (CHOOSE t \in LongTimes : \A u \in LongTimes : t <= u)]
          /\ keyPin = FALSE /\ keyNow = 0 /\ keyEvents = <<>> /\ keySamples = <<FALSE, FALSE>>

Press == /\ ~key.pressed /\ keyPin
         /\ key' = [key EXCEPT !.pressed = TRUE, !.since = keyNow, !.read = 0]
         /\ keyEvents' = <<"pressed">>

Held == keyNow - key.since

Hold ==
  LET told == Held - key.read >= PressingPeriod
      long == Held >= key.limit /\ ~key.long
  IN  /\ key.pressed /\ keyPin
      /\ key' = [key EXCEPT !.read = IF told THEN Held ELSE @, !.long = @ \/ long]
      /\ keyEvents' = keyEvents \o (IF told THEN <<"pressing">> ELSE <<>>)
                                \o (IF long THEN <<"long_pressed">> ELSE <<>>)

\* Mutant: the limit itself counts as short.
LateClick == IF Held <= key.limit THEN "short_clicked" ELSE "clicked"
\* By the time since the press, not by what was told.
Click == IF Held < key.limit THEN "short_clicked" ELSE "clicked"

Release == /\ key.pressed /\ ~keyPin
           /\ keyEvents' = keyEvents \o <<Click, "released">>
           /\ key' = [key EXCEPT !.pressed = FALSE, !.since = 0, !.read = 0, !.long = FALSE]

Nothing == ~key.pressed /\ ~keyPin /\ UNCHANGED <<key, keyEvents>>

\* key_processing: a sample that differs from the last one is only remembered.
Poll == /\ keySamples' = <<keySamples[2], keyPin>>
        /\ IF key.last # keyPin THEN key' = [key EXCEPT !.last = keyPin] /\ UNCHANGED keyEvents
           ELSE Press \/ Hold \/ Release \/ Nothing
        /\ UNCHANGED <<keyPin, keyNow>>

SetLongPressingTime(t) == /\ ~key.pressed \/ ChangedInPress
                          /\ key' = [key EXCEPT !.limit = t]
                          /\ UNCHANGED <<keyPin, keyNow, keyEvents, keySamples>>

Move == keyPin' = ~keyPin /\ UNCHANGED <<key, keyNow, keyEvents, keySamples>>
Pass == /\ keyNow < KeyTime /\ keyNow' = keyNow + 1
        /\ UNCHANGED <<key, keyPin, keyEvents, keySamples>>

KpNext == Poll \/ Move \/ Pass \/ \E t \in LongTimes : SetLongPressingTime(t)
KpSpec == KpInit /\ [][KpNext]_keyVars

-----------------------------------------------------------------------------
(* However the polls fall, a press is told as one story: pressed after two *)
(* equal samples, long pressed at most once, and at the end one click and  *)
(* released; a click is short only if no long press was told.              *)
PressIsOneStory ==
  LET n == Len(keyEvents)
      told(e) == {i \in 1 .. n : keyEvents[i] = e}
      clicks == told("short_clicked") \cup told("clicked")
  IN  n > 0 =>
        /\ told("pressed") = {1}
        /\ \A i, j \in told("long_pressed") : i = j
        /\ key.pressed => clicks = {} /\ told("released") = {}
        /\ ~key.pressed => clicks = {n - 1} /\ told("released") = {n}
        /\ told("long_pressed") # {} => told("short_clicked") = {}
        /\ key.pressed = (keySamples[2] /\ keySamples[1]) \/ keySamples[1] # keySamples[2]
=============================================================================
