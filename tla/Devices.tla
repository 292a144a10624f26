------------------------------ MODULE Devices ------------------------------
(***************************************************************************)
(* drv/device.c and the drivers that are a table of commands in front of   *)
(* the hooks of a board: led, buzzer, infrared, timer, pwmc, serial, gpio, *)
(* gpio_group, analog, rtc, wdt and the flash of the MCU.  A call is the   *)
(* sequence of hooks and assignments its driver makes of it, and each of   *)
(* them is a step, so that a tick interrupt, or with Preempt another user, *)
(* may come in between.                                                    *)
(*                                                                         *)
(* Abstracted: what get and read commands return, channels and duties.     *)
(* Arguments are never null.  Every hook is there.                         *)
(***************************************************************************)
EXTENDS Naturals, FiniteSets, SequencesExt

CONSTANTS
  Kinds,       \* drivers a device may have
  Users,       \* tasks that open it
  Freqs,       \* frequencies and baud rates
  Counts,      \* toggles asked for,
  Forever,     \* and the one that means no end: 0xFFFFFFFF
  OpenFails,   \* environment: the kinds whose hook init may fail in open,
  ReinitFails, \* and where the driver calls it again
  Interrupted, \* environment: the kinds whose tick is an interrupt
  Preempt      \* environment: users preempt each other

DevicesAssumption ==
  /\ Kinds \subseteq {"led", "buzzer", "infrared", "timer", "pwmc", "serial", "gpio",
                      "gpio_group", "analog", "rtc", "wdt", "flash"}
  /\ Counts \subseteq Nat \ {0} /\ Freqs # {} /\ Forever \notin Nat
  /\ OpenFails \subseteq Kinds /\ ReinitFails \subseteq Kinds /\ Interrupted \subseteq Kinds
  /\ Preempt \in BOOLEAN

VARIABLES
  dvKind,
  dv,       \* device_t, its describe structure and the hardware behind the hooks
  dvHeld,   \* the users that have opened it
  dvCall,   \* what is left of each user's call
  dvAsked   \* history: the toggles asked for last, and the changes since

dvVars == <<dvKind, dv, dvHeld, dvCall, dvAsked>>

-----------------------------------------------------------------------------
(* The steps a call is made of.  A hook that fails ends the call (Must),   *)
(* is an error to return at the end (Also) or is nothing to it (Just).     *)
Must(hook, v) == [do |-> hook, v |-> v, failing |-> "ends"]
Also(hook, v) == [do |-> hook, v |-> v, failing |-> "told"]
Just(hook, v) == [do |-> hook, v |-> v, failing |-> "nothing"]
Keep(field, v) == Just("keep", <<field, v>>)
Clear == <<Keep("ms", 0), Keep("count", 0)>>
Reinit(f) == IF dv.freq = f THEN <<>>
             ELSE <<Keep("freq", f), Just("deinit", 0), Just("reinit", 0)>>
Control(cmd) == <<Also(cmd[1], cmd[2])>>

Commands == {<<"on">>, <<"off">>, <<"once">>, <<"get">>, <<"irq">>}
              \cup ({"set"} \X (Counts \cup {Forever})) \cup ({"freq"} \X Freqs)
              \cup ({"enable", "write", "duty"} \X {0, 1})

Plain == [open |-> <<Must("init", 0)>>, close |-> <<Just("deinit", 0)>>]
LedLife == [open  |-> <<Must("init", 0), Just("ctrl", 0)>>,
            close |-> <<Just("ctrl", 0), Just("deinit", 0)>>]
BuzzerLife == [open  |-> <<Also("init", 0), Just("ctrl", 0)>>,
               close |-> <<Just("ctrl", 0), Just("deinit", 0)>>]
InfraredLife == Plain
TimerLife == Plain
PwmcLife == Plain
SerialLife == Plain
GpioLife == Plain
GroupLife == Plain
AnalogLife == Plain
RtcLife == Plain
WdtLife == Plain
FlashLife == Plain

LedIoctl(cmd) ==
  CASE cmd[1] = "on"   -> <<Also("ctrl", 1)>> \o Clear
    [] cmd[1] = "off"  -> <<Must("ctrl", 0)>> \o Clear
    [] cmd[1] = "once" -> <<Must("toggle", 0)>> \o Clear
    [] cmd[1] = "set"  -> <<Keep("ms", 1), Keep("count", cmd[2])>>
    [] cmd[1] = "get"  -> <<Also("get", 0)>>
    [] OTHER -> <<>>

BuzzerSettings(cmd) ==
  CASE cmd[1] = "freq" -> Reinit(cmd[2])
    [] cmd[1] = "duty" -> Control(cmd)
    [] OTHER -> <<>>
BuzzerIoctl(cmd) ==
  CASE cmd[1] = "on"   -> <<Also("ctrl", 1)>> \o Clear
    [] cmd[1] = "off"  -> <<Also("ctrl", 0)>> \o Clear
    [] cmd[1] = "once" -> <<Also("toggle", 0)>> \o Clear
    [] cmd[1] = "set"  -> <<Keep("ms", 1), Keep("count", cmd[2])>>
    [] cmd[1] = "get"  -> <<Also("get", 0)>>
    [] OTHER -> BuzzerSettings(cmd)

\* INFRARED_TOGGLE comes from whoever keeps the cycle: it toggles whatever the count.
InfraredIoctl(cmd) ==
  CASE cmd[1] = "on"   -> <<Also("ctrl", 1)>>
    [] cmd[1] = "off"  -> <<Must("ctrl", 0)>> \o Clear
    [] cmd[1] = "once" -> <<Must("toggle", 0)>> \o
                          (IF dv.count \in {0, Forever} THEN <<>>
                           ELSE <<Keep("count", dv.count - 1)>>)
    [] cmd[1] = "set"  -> <<Keep("ms", 1), Keep("count", cmd[2])>>
    [] cmd[1] = "freq" -> Reinit(cmd[2])
    [] OTHER -> <<>>

TimerIoctl(cmd) ==
  CASE cmd[1] = "freq"   -> Reinit(cmd[2])
    [] cmd[1] = "irq"    -> <<Keep("irq", TRUE)>>
    [] cmd[1] = "enable" -> Control(cmd)
    [] OTHER -> <<>>

PwmcDuty(cmd) == IF cmd[1] \in {"duty", "get"} THEN <<Also(cmd[1], 0)>> ELSE <<>>
PwmcChannel(cmd) ==
  CASE cmd[1] = "write" -> <<Must("channel", cmd[2])>>
    [] cmd[1] = "irq"   -> <<Keep("irq", TRUE)>>
    [] OTHER -> <<>>
PwmcIoctl(cmd) ==
  CASE cmd[1] = "freq"   -> Reinit(cmd[2])
    [] cmd[1] = "enable" -> Control(cmd)
    [] OTHER -> PwmcDuty(cmd) \o PwmcChannel(cmd)

SerialWrite(v) == <<Also("direction", 1), Also("write", v), Also("direction", 0)>>
SerialIoctl(cmd) ==
  CASE cmd[1] = "freq"  -> IF dv.freq = cmd[2] THEN <<>>
                           ELSE <<Keep("freq", cmd[2]), Just("deinit", 0), Also("reinit", 0)>>
    [] cmd[1] = "irq"   -> <<Keep("irq", TRUE)>>
    [] cmd[1] = "on"    -> <<Also("direction", 1)>>
    [] cmd[1] = "off"   -> <<Also("direction", 0)>>
    [] cmd[1] = "write" -> SerialWrite(cmd[2])
    [] cmd[1] = "get"   -> <<Also("get", 0)>>
    [] OTHER -> <<>>

GpioIoctl(cmd) ==
  CASE cmd[1] = "write"  -> <<Also("ctrl", cmd[2])>>
    [] cmd[1] = "once"   -> <<Also("toggle", 0)>>
    [] cmd[1] = "get"    -> <<Also("get", 0)>>
    [] cmd[1] = "irq"    -> <<Keep("irq", TRUE)>>
    [] cmd[1] = "enable" -> Control(cmd)
    [] OTHER -> <<>>

GroupIoctl(cmd) ==
  CASE cmd[1] \in {"write", "get", "on"} -> <<Also("group", 0)>> [] OTHER -> <<>>

AnalogIoctl(cmd) ==
  CASE cmd[1] = "enable" -> Control(cmd)
    [] cmd[1] = "get"    -> <<Also("get", 0)>>
    [] cmd[1] = "irq"    -> <<Keep("irq", TRUE)>>
    [] OTHER -> <<>>

RtcDo(cmd) == IF cmd[1] \in {"write", "get"} THEN <<Also("utc", 0)>> ELSE <<>>
FlashDo(cmd) ==
  CASE cmd[1] \in {"write", "get"} -> <<Also("flash", 0)>>
    [] cmd[1] \in {"off", "once"}  -> <<Must("flash", 0)>>
    [] OTHER -> <<>>
WdtIoctl(cmd) == IF cmd[1] = "once" THEN <<Also("feed", 0)>> ELSE <<>>

Ioctl(cmd) ==
  CASE dvKind = "led"      -> LedIoctl(cmd)      [] dvKind = "buzzer"     -> BuzzerIoctl(cmd)
    [] dvKind = "infrared" -> InfraredIoctl(cmd) [] dvKind = "timer"      -> TimerIoctl(cmd)
    [] dvKind = "pwmc"     -> PwmcIoctl(cmd)     [] dvKind = "serial"     -> SerialIoctl(cmd)
    [] dvKind = "gpio"     -> GpioIoctl(cmd)     [] dvKind = "gpio_group" -> GroupIoctl(cmd)
    [] dvKind = "analog"   -> AnalogIoctl(cmd)   [] dvKind = "rtc"        -> RtcDo(cmd)
    [] dvKind = "wdt"      -> WdtIoctl(cmd)      [] dvKind = "flash"      -> FlashDo(cmd)
Life ==
  CASE dvKind = "led"      -> LedLife      [] dvKind = "buzzer"     -> BuzzerLife
    [] dvKind = "infrared" -> InfraredLife [] dvKind = "timer"      -> TimerLife
    [] dvKind = "pwmc"     -> PwmcLife     [] dvKind = "serial"     -> SerialLife
    [] dvKind = "gpio"     -> GpioLife     [] dvKind = "gpio_group" -> GroupLife
    [] dvKind = "analog"   -> AnalogLife   [] dvKind = "rtc"        -> RtcLife
    [] dvKind = "wdt"      -> WdtLife      [] dvKind = "flash"      -> FlashLife

-----------------------------------------------------------------------------
Quiet == [what |-> "none", todo |-> <<>>, err |-> FALSE]

DvInit == /\ dvKind \in Kinds
          /\ dv = [users |-> 0, start |-> FALSE, up |-> FALSE, out |-> 0, ms |-> 0, count |-> 0,
                   freq |-> (CHOOSE f \in Freqs : TRUE), irq |-> FALSE, abused |-> FALSE]
          /\ dvHeld = {} /\ dvCall = [u \in Users |-> Quiet]
          /\ dvAsked = [count |-> 0, changes |-> 0]

Busy == {u \in Users : dvCall[u] # Quiet}
Starts(u, what, steps) == dvCall' = [dvCall EXCEPT ![u] = [what |-> what, todo |-> steps, err |-> FALSE]]

\* device_open: the driver is opened by the first user.
Open(u) == /\ (Busy = {} \/ Preempt) /\ dvCall[u] = Quiet /\ u \notin dvHeld
           /\ Starts(u, "open", IF dv.start THEN <<>> ELSE Life.open)
           /\ UNCHANGED <<dvKind, dv, dvHeld, dvAsked>>

\* Mutant: the first to close shuts the hardware down.
EarlyClose(u) ==
  /\ (Busy = {} \/ Preempt) /\ dvCall[u] = Quiet /\ u \in dvHeld
  /\ dv' = [dv EXCEPT !.users = @ - 1]
  /\ Starts(u, "close", IF dv.start THEN Life.close ELSE <<>>)
  /\ dvHeld' = dvHeld \ {u}
  /\ UNCHANGED <<dvKind, dvAsked>>

\* device_close: the last user closes the driver.
Close(u) ==
  /\ (Busy = {} \/ Preempt) /\ dvCall[u] = Quiet /\ u \in dvHeld
  /\ dv' = [dv EXCEPT !.users = IF @ = 0 THEN 0 ELSE @ - 1]
  /\ dvHeld' = dvHeld \ {u}
  /\ Starts(u, IF dv'.users = 0 THEN "close" ELSE "leave",
            IF dv'.users = 0 /\ dv.start THEN Life.close ELSE <<>>)
  /\ UNCHANGED <<dvKind, dvAsked>>

Command(u, cmd) == /\ (Busy = {} \/ Preempt) /\ dvCall[u] = Quiet /\ u \in dvHeld
                   /\ Ioctl(cmd) # <<>>
                   /\ Starts(u, "ioctl", Ioctl(cmd))
                   /\ UNCHANGED <<dvKind, dv, dvHeld, dvAsked>>

\* The next step of a call: ok is what the hook returns.
Fails(hook) == hook \in {"ctrl", "toggle"} \/ (hook = "init" /\ dvKind \in OpenFails)
                 \/ (hook = "reinit" /\ dvKind \in ReinitFails)
Use(s, ok) ==
  CASE ~dv.up -> [dv EXCEPT !.abused = TRUE]
    [] dv.up /\ ok /\ s.do = "ctrl" -> [dv EXCEPT !.out = s.v]
    [] dv.up /\ ok /\ s.do = "toggle" -> [dv EXCEPT !.out = 1 - @]
    [] OTHER -> dv
Hook(s, ok) ==
  CASE s.do = "keep" -> [dv EXCEPT ![s.v[1]] = s.v[2]]
    [] s.do \in {"init", "reinit"} -> IF ok THEN [dv EXCEPT !.up = TRUE] ELSE dv
    [] s.do = "deinit" -> [dv EXCEPT !.up = FALSE]
    [] OTHER -> Use(s, ok)

Step(u, ok) ==
  LET s == dvCall[u].todo[1] IN
  /\ dvCall[u].todo # <<>> /\ (ok \/ Fails(s.do))
  /\ dv' = Hook(s, ok)
  /\ dvCall' = [dvCall EXCEPT ![u].todo = IF ~ok /\ s.failing = "ends" THEN <<>> ELSE Tail(@),
                              ![u].err = @ \/ (~ok /\ s.failing # "nothing")]
  /\ dvAsked' = IF s.do = "keep" /\ s.v[1] = "count" /\ dvKind # "infrared"
                THEN [count |-> s.v[2], changes |-> 0] ELSE dvAsked
  /\ UNCHANGED <<dvKind, dvHeld>>

Return(u) ==
  LET c == dvCall[u] IN
  /\ c # Quiet /\ c.todo = <<>>
  /\ dvCall' = [dvCall EXCEPT ![u] = Quiet]
  /\ \/ c.what = "open" /\ ~c.err
          /\ dv' = [dv EXCEPT !.start = TRUE, !.users = @ + 1] /\ dvHeld' = dvHeld \cup {u}
     \/ c.what = "open" /\ c.err /\ UNCHANGED <<dv, dvHeld>>
     \/ c.what = "close" /\ dv' = [dv EXCEPT !.start = FALSE] /\ UNCHANGED dvHeld
     \/ c.what \in {"leave", "ioctl"} /\ UNCHANGED <<dv, dvHeld>>
  /\ UNCHANGED <<dvKind, dvAsked>>

\* Mutant: a toggle that failed is counted.
CountedAnyway(ok) ==
  LET on == IF ok THEN [dv EXCEPT !.out = 1 - @] ELSE dv
  IN  IF dv.ms = 0 \/ dv.count = 0 THEN dv
      ELSE [on EXCEPT !.count = IF @ = Forever THEN @ ELSE @ - 1]

\* IOCTL_LED_TOGGLE at a tick the period divides: what becomes of the device.
Toggled(ok) == IF dv.ms = 0 \/ dv.count = 0 \/ ~ok THEN dv
               ELSE [dv EXCEPT !.out = 1 - @, !.abused = @ \/ ~dv.up,
                               !.count = IF @ = Forever THEN @ ELSE @ - 1]

\* The tick of a board that toggles while somebody has the device open.
Tick(ok) ==
  /\ dvKind \in {"led", "buzzer"} /\ dv.users > 0
  /\ (Busy = {} \/ dvKind \in Interrupted)
  /\ dv' = Toggled(ok)
  /\ dvAsked' = IF dv'.out # dv.out /\ dvAsked.count # Forever
                THEN [dvAsked EXCEPT !.changes = @ + 1] ELSE dvAsked
  /\ UNCHANGED <<dvKind, dvHeld, dvCall>>

DvNext == \/ \E u \in Users : \/ Open(u) \/ Close(u) \/ Return(u)
                              \/ \E cmd \in Commands : Command(u, cmd)
                              \/ \E ok \in BOOLEAN : Step(u, ok)
          \/ \E ok \in BOOLEAN : Tick(ok)

DvSpec == DvInit /\ [][DvNext]_dvVars

-----------------------------------------------------------------------------
DvTypeOK == /\ dvKind \in Kinds /\ dvHeld \subseteq Users
            /\ dv.users \in Nat /\ dv.start \in BOOLEAN /\ dv.up \in BOOLEAN /\ dv.out \in {0, 1}
            /\ dv.freq \in Freqs

(* Between two calls the hardware is up exactly while somebody has the     *)
(* device open, however opens, failing opens, closes and changes of the    *)
(* frequency follow each other, and no hook is ever called on hardware     *)
(* that is down.                                                           *)
UpWhileHeld ==
  /\ Busy = {} => /\ dv.up = (dvHeld # {}) /\ dv.start = dv.up
                  /\ dv.users = Cardinality(dvHeld)
  /\ ~dv.abused

(* A blink of n toggles changes the output n times, whatever hooks fail    *)
(* and wherever the tick falls: what is left plus what was done is what    *)
(* was asked for, and a blink without end does not end.                    *)
BlinksAsAsked ==
  IF dvAsked.count = Forever THEN dv.count = Forever
  ELSE dvKind # "infrared" => dv.count + dvAsked.changes = dvAsked.count
=============================================================================
