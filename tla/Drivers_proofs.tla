---------------------------- MODULE Drivers_proofs ----------------------------
(***************************************************************************)
(* What is proved of the drivers: of a device, that the hardware is up     *)
(* while somebody has it open and no hook is called while it is down, and  *)
(* that it blinks as often as was asked.  The part's invariant is one of   *)
(* the composition, for the other parts leave its variables alone.         *)
(***************************************************************************)
EXTENDS Drivers, SequenceTheorems, FiniteSetTheorems, TLAPS

-----------------------------------------------------------------------------
(* The steps a call is made of                                             *)

\* The environment in which the hardware is up while it is held: users do not
\* preempt each other, a new frequency can be set, and a buzzer, whose driver
\* uses the hardware after a failed init, has an init that does not fail and
\* no tick from an interrupt.
Orderly == ~ Preempt /\ ReinitFails = {} /\ "buzzer" \notin OpenFails \cup Interrupted

Failings == {"ends", "told", "nothing"}
UseHooks == {"ctrl", "toggle", "get", "enable", "duty", "channel", "direction", "write",
             "group", "utc", "flash", "feed"}
\* A step that uses the hardware or keeps a field, and is done while it is up.
Uses == [do : UseHooks, v : {0, 1}, failing : Failings]
Kept == {Dev!Keep("irq", TRUE)} \cup {Dev!Keep("ms", v) : v \in {0, 1}}
          \cup {Dev!Keep("count", v) : v \in Nat \cup {Forever}}
          \cup {Dev!Keep("freq", f) : f \in Freqs}
Simple == Uses \cup Kept

\* What is left of setting another frequency.
Down == Dev!Just("deinit", 0)
UpAgain == {Dev!Just("reinit", 0), Dev!Also("reinit", 0)}
Reinits(t) == \/ \E f \in Freqs, s \in UpAgain : t = <<Dev!Keep("freq", f), Down, s>>
              \/ \E s \in UpAgain : t = <<Down, s>>
Reinit1(t) == \E s \in UpAgain : t = <<s>>

Shape(t) == t \in Seq(Simple) \/ Reinits(t)

LEMMA EmptyIs == <<>> \in Seq(Simple)
  OBVIOUS

LEMMA OneStep ==
  ASSUME NEW s \in Simple
  PROVE  <<s>> \in Seq(Simple)
  OBVIOUS

LEMMA TwoSteps ==
  ASSUME NEW s \in Simple, NEW t \in Simple
  PROVE  <<s, t>> \in Seq(Simple)
  OBVIOUS

LEMMA UseIs ==
  ASSUME NEW h \in UseHooks, NEW v \in {0, 1}
  PROVE  Dev!Must(h, v) \in Simple /\ Dev!Also(h, v) \in Simple /\ Dev!Just(h, v) \in Simple
  BY DEF Dev!Must, Dev!Also, Dev!Just, Simple, Uses, Failings

LEMMA KeptIs ==
  /\ Dev!Keep("irq", TRUE) \in Simple
  /\ \A v \in {0, 1} : Dev!Keep("ms", v) \in Simple
  /\ \A v \in Nat \cup {Forever} : Dev!Keep("count", v) \in Simple
  /\ \A f \in Freqs : Dev!Keep("freq", f) \in Simple
  BY DEF Simple, Kept

LEMMA ClearIs == Dev!Clear \in Seq(Simple)
  <1>1. Dev!Keep("ms", 0) \in Simple /\ Dev!Keep("count", 0) \in Simple
    BY KeptIs
  <1>. QED  BY <1>1, TwoSteps DEF Dev!Clear

\* A use of the hardware, and then a field or two.
LEMMA UseThen ==
  ASSUME NEW s \in Simple, NEW t \in Seq(Simple)
  PROVE  <<s>> \o t \in Seq(Simple)
  BY OneStep, ConcatProperties

LEMMA CommandIs ==
  ASSUME NEW cmd \in Dev!Commands
  PROVE  \/ cmd[1] \in {"on", "off", "once", "get", "irq"}
         \/ cmd[1] = "set" /\ cmd[2] \in Counts \cup {Forever}
         \/ cmd[1] = "freq" /\ cmd[2] \in Freqs
         \/ cmd[1] \in {"enable", "write", "duty"} /\ cmd[2] \in {0, 1}
  BY DEF Dev!Commands

\* Each driver's commands.
LEMMA OneUse ==
  ASSUME NEW h \in UseHooks, NEW v \in {0, 1}
  PROVE  <<Dev!Must(h, v)>> \in Seq(Simple) /\ <<Dev!Also(h, v)>> \in Seq(Simple)
  BY UseIs, OneStep

LEMMA OneUses ==
  /\ \A h \in UseHooks : <<Dev!Also(h, 0)>> \in Seq(Simple) /\ <<Dev!Must(h, 0)>> \in Seq(Simple)
  /\ \A h \in UseHooks : <<Dev!Also(h, 1)>> \in Seq(Simple)
  /\ {"ctrl", "toggle", "get", "enable", "duty", "channel", "direction", "write",
      "group", "utc", "flash", "feed"} \subseteq UseHooks
  BY OneUse DEF UseHooks

LEMMA AndClear ==
  ASSUME NEW h \in UseHooks, NEW v \in {0, 1}
  PROVE  /\ <<Dev!Must(h, v)>> \o Dev!Clear \in Seq(Simple)
         /\ <<Dev!Also(h, v)>> \o Dev!Clear \in Seq(Simple)
  BY UseIs, UseThen, ClearIs

LEMMA SetIs ==
  ASSUME Dev!DevicesAssumption, NEW n \in Counts \cup {Forever}
  PROVE  <<Dev!Keep("ms", 1), Dev!Keep("count", n)>> \in Seq(Simple)
  <1>1. n \in Nat \cup {Forever}
    BY DEF Dev!DevicesAssumption
  <1>2. Dev!Keep("ms", 1) \in Simple /\ Dev!Keep("count", n) \in Simple
    BY <1>1, KeptIs
  <1>. QED  BY <1>2, TwoSteps

LEMMA IrqIs == <<Dev!Keep("irq", TRUE)>> \in Seq(Simple)
  BY KeptIs, OneStep

LEMMA ReinitIs ==
  ASSUME NEW f \in Freqs
  PROVE  Shape(Dev!Reinit(f))
  <1>1. CASE dv.freq = f
    BY <1>1, EmptyIs DEF Dev!Reinit, Shape
  <1>2. CASE dv.freq # f
    BY <1>2 DEF Dev!Reinit, Shape, Reinits, UpAgain, Down
  <1>. QED  BY <1>1, <1>2

LEMMA ControlIs ==
  ASSUME NEW cmd, cmd[1] \in UseHooks, cmd[2] \in {0, 1}
  PROVE  Dev!Control(cmd) \in Seq(Simple)
  BY OneUse DEF Dev!Control

LEMMA LedIs ==
  ASSUME Dev!DevicesAssumption, NEW cmd \in Dev!Commands
  PROVE  Dev!LedIoctl(cmd) \in Seq(Simple)
  <1>1. CASE cmd[1] = "on" \/ cmd[1] = "off" \/ cmd[1] = "once"
    <2>1. "ctrl" \in UseHooks /\ "toggle" \in UseHooks
      BY OneUses
    <2>2. /\ <<Dev!Also("ctrl", 1)>> \o Dev!Clear \in Seq(Simple)
          /\ <<Dev!Must("ctrl", 0)>> \o Dev!Clear \in Seq(Simple)
          /\ <<Dev!Must("toggle", 0)>> \o Dev!Clear \in Seq(Simple)
      BY <2>1, AndClear
    <2>. QED  BY <1>1, <2>2 DEF Dev!LedIoctl
  <1>2. CASE cmd[1] = "set"
    <2>1. <<Dev!Keep("ms", 1), Dev!Keep("count", cmd[2])>> \in Seq(Simple)
      BY <1>2, CommandIs, SetIs
    <2>. QED  BY <1>2, <2>1 DEF Dev!LedIoctl
  <1>3. CASE cmd[1] = "get"
    <2>1. Dev!LedIoctl(cmd) = <<Dev!Also("get", 0)>>
      BY <1>3 DEF Dev!LedIoctl
    <2>. QED  BY <2>1, OneUses
  <1>4. CASE cmd[1] \notin {"on", "off", "once", "set", "get"}
    <2>1. Dev!LedIoctl(cmd) = <<>>
      BY <1>4 DEF Dev!LedIoctl
    <2>. QED  BY <2>1, EmptyIs
  <1>. QED  BY <1>1, <1>2, <1>3, <1>4

LEMMA BuzzerIs ==
  ASSUME Dev!DevicesAssumption, NEW cmd \in Dev!Commands
  PROVE  Shape(Dev!BuzzerIoctl(cmd))
  <1>1. CASE cmd[1] = "on" \/ cmd[1] = "off" \/ cmd[1] = "once"
    <2>1. "ctrl" \in UseHooks /\ "toggle" \in UseHooks
      BY OneUses
    <2>2. /\ <<Dev!Also("ctrl", 1)>> \o Dev!Clear \in Seq(Simple)
          /\ <<Dev!Also("ctrl", 0)>> \o Dev!Clear \in Seq(Simple)
          /\ <<Dev!Also("toggle", 0)>> \o Dev!Clear \in Seq(Simple)
      BY <2>1, AndClear
    <2>. QED  BY <1>1, <2>2 DEF Dev!BuzzerIoctl, Shape
  <1>2. CASE cmd[1] = "set"
    <2>1. <<Dev!Keep("ms", 1), Dev!Keep("count", cmd[2])>> \in Seq(Simple)
      BY <1>2, CommandIs, SetIs
    <2>. QED  BY <1>2, <2>1 DEF Dev!BuzzerIoctl, Shape
  <1>3. CASE cmd[1] = "get"
    <2>1. Dev!BuzzerIoctl(cmd) = <<Dev!Also("get", 0)>>
      BY <1>3 DEF Dev!BuzzerIoctl
    <2>. QED  BY <2>1, OneUses DEF Shape
  <1>4. CASE cmd[1] = "freq"
    <2>1. Dev!BuzzerIoctl(cmd) = Dev!Reinit(cmd[2]) /\ cmd[2] \in Freqs
      BY <1>4, CommandIs DEF Dev!BuzzerIoctl, Dev!BuzzerSettings
    <2>. QED  BY <2>1, ReinitIs
  <1>5. CASE cmd[1] = "duty"
    <2>1. Dev!BuzzerIoctl(cmd) = Dev!Control(cmd) /\ cmd[1] \in UseHooks /\ cmd[2] \in {0, 1}
      BY <1>5, CommandIs, OneUses DEF Dev!BuzzerIoctl, Dev!BuzzerSettings
    <2>. QED  BY <2>1, ControlIs DEF Shape
  <1>6. CASE cmd[1] \notin {"on", "off", "once", "set", "get", "freq", "duty"}
    <2>1. Dev!BuzzerIoctl(cmd) = <<>>
      BY <1>6 DEF Dev!BuzzerIoctl, Dev!BuzzerSettings
    <2>. QED  BY <2>1, EmptyIs DEF Shape
  <1>. QED  BY <1>1, <1>2, <1>3, <1>4, <1>5, <1>6

LEMMA InfraredIs ==
  ASSUME Dev!DevicesAssumption, dv.count \in Nat \cup {Forever}, NEW cmd \in Dev!Commands
  PROVE  Shape(Dev!InfraredIoctl(cmd))
  <1>1. CASE cmd[1] = "on"
    <2>1. Dev!InfraredIoctl(cmd) = <<Dev!Also("ctrl", 1)>>
      BY <1>1 DEF Dev!InfraredIoctl
    <2>. QED  BY <2>1, OneUses DEF Shape
  <1>2. CASE cmd[1] = "off"
    <2>1. Dev!InfraredIoctl(cmd) = <<Dev!Must("ctrl", 0)>> \o Dev!Clear
      BY <1>2 DEF Dev!InfraredIoctl
    <2>. QED  BY <2>1, OneUses, AndClear DEF Shape
  <1>3. CASE cmd[1] = "once"
    <2>1. PICK t : t = IF dv.count \in {0, Forever} THEN <<>> ELSE <<Dev!Keep("count", dv.count - 1)>>
      OBVIOUS
    <2>2. t \in Seq(Simple)
      <3>1. CASE dv.count \in {0, Forever}
        BY <2>1, <3>1, EmptyIs
      <3>2. CASE dv.count \notin {0, Forever}
        <4>1. dv.count - 1 \in Nat
          BY <3>2
        <4>2. Dev!Keep("count", dv.count - 1) \in Simple
          BY <4>1, KeptIs
        <4>. QED  BY <2>1, <3>2, <4>2, OneStep
      <3>. QED  BY <3>1, <3>2
    <2>3. Dev!InfraredIoctl(cmd) = <<Dev!Must("toggle", 0)>> \o t
      BY <1>3, <2>1 DEF Dev!InfraredIoctl
    <2>4. Dev!Must("toggle", 0) \in Simple
      BY OneUses, UseIs
    <2>. QED  BY <2>2, <2>3, <2>4, UseThen DEF Shape
  <1>4. CASE cmd[1] = "set"
    <2>1. <<Dev!Keep("ms", 1), Dev!Keep("count", cmd[2])>> \in Seq(Simple)
      BY <1>4, CommandIs, SetIs
    <2>. QED  BY <1>4, <2>1 DEF Dev!InfraredIoctl, Shape
  <1>5. CASE cmd[1] = "freq"
    <2>1. Dev!InfraredIoctl(cmd) = Dev!Reinit(cmd[2]) /\ cmd[2] \in Freqs
      BY <1>5, CommandIs DEF Dev!InfraredIoctl
    <2>. QED  BY <2>1, ReinitIs
  <1>6. CASE cmd[1] \notin {"on", "off", "once", "set", "freq"}
    <2>1. Dev!InfraredIoctl(cmd) = <<>>
      BY <1>6 DEF Dev!InfraredIoctl
    <2>. QED  BY <2>1, EmptyIs DEF Shape
  <1>. QED  BY <1>1, <1>2, <1>3, <1>4, <1>5, <1>6

LEMMA TimerIs ==
  ASSUME NEW cmd \in Dev!Commands
  PROVE  Shape(Dev!TimerIoctl(cmd))
  <1>1. CASE cmd[1] = "freq"
    <2>1. Dev!TimerIoctl(cmd) = Dev!Reinit(cmd[2]) /\ cmd[2] \in Freqs
      BY <1>1, CommandIs DEF Dev!TimerIoctl
    <2>. QED  BY <2>1, ReinitIs
  <1>2. CASE cmd[1] = "enable"
    <2>1. Dev!TimerIoctl(cmd) = Dev!Control(cmd) /\ cmd[1] \in UseHooks /\ cmd[2] \in {0, 1}
      BY <1>2, CommandIs, OneUses DEF Dev!TimerIoctl
    <2>. QED  BY <2>1, ControlIs DEF Shape
  <1>3. CASE cmd[1] = "irq"
    BY <1>3, IrqIs DEF Dev!TimerIoctl, Shape
  <1>4. CASE cmd[1] \notin {"freq", "enable", "irq"}
    <2>1. Dev!TimerIoctl(cmd) = <<>>
      BY <1>4 DEF Dev!TimerIoctl
    <2>. QED  BY <2>1, EmptyIs DEF Shape
  <1>. QED  BY <1>1, <1>2, <1>3, <1>4

LEMMA PwmcIs ==
  ASSUME NEW cmd \in Dev!Commands
  PROVE  Shape(Dev!PwmcIoctl(cmd))
  <1>1. CASE cmd[1] = "freq"
    <2>1. Dev!PwmcIoctl(cmd) = Dev!Reinit(cmd[2]) /\ cmd[2] \in Freqs
      BY <1>1, CommandIs DEF Dev!PwmcIoctl
    <2>. QED  BY <2>1, ReinitIs
  <1>2. CASE cmd[1] = "enable"
    <2>1. Dev!PwmcIoctl(cmd) = Dev!Control(cmd) /\ cmd[1] \in UseHooks /\ cmd[2] \in {0, 1}
      BY <1>2, CommandIs, OneUses DEF Dev!PwmcIoctl
    <2>. QED  BY <2>1, ControlIs DEF Shape
  <1>3. CASE cmd[1] # "freq" /\ cmd[1] # "enable"
    <2>1. Dev!PwmcDuty(cmd) \in Seq(Simple)
      <3>1. CASE cmd[1] \in {"duty", "get"}
        <4>1. Dev!PwmcDuty(cmd) = <<Dev!Also(cmd[1], 0)>> /\ cmd[1] \in UseHooks
          BY <3>1, OneUses DEF Dev!PwmcDuty
        <4>. QED  BY <4>1, OneUses
      <3>2. CASE cmd[1] \notin {"duty", "get"}
        <4>1. Dev!PwmcDuty(cmd) = <<>>
          BY <3>2 DEF Dev!PwmcDuty
        <4>. QED  BY <4>1, EmptyIs
      <3>. QED  BY <3>1, <3>2
    <2>2. Dev!PwmcChannel(cmd) \in Seq(Simple)
      <3>1. CASE cmd[1] = "write"
        <4>1. Dev!PwmcChannel(cmd) = <<Dev!Must("channel", cmd[2])>> /\ cmd[2] \in {0, 1}
          BY <3>1, CommandIs DEF Dev!PwmcChannel
        <4>2. "channel" \in UseHooks
          BY OneUses
        <4>3. <<Dev!Must("channel", cmd[2])>> \in Seq(Simple)
          BY <4>1, <4>2, OneUse
        <4>. QED  BY <4>1, <4>3
      <3>2. CASE cmd[1] = "irq"
        BY <3>2, IrqIs DEF Dev!PwmcChannel
      <3>3. CASE cmd[1] # "write" /\ cmd[1] # "irq"
        <4>1. Dev!PwmcChannel(cmd) = <<>>
          BY <3>3 DEF Dev!PwmcChannel
        <4>. QED  BY <4>1, EmptyIs
      <3>. QED  BY <3>1, <3>2, <3>3
    <2>3. Dev!PwmcDuty(cmd) \o Dev!PwmcChannel(cmd) \in Seq(Simple)
      BY <2>1, <2>2, ConcatProperties
    <2>4. Dev!PwmcIoctl(cmd) = Dev!PwmcDuty(cmd) \o Dev!PwmcChannel(cmd)
      BY <1>3 DEF Dev!PwmcIoctl
    <2>. QED  BY <2>3, <2>4 DEF Shape
  <1>. QED  BY <1>1, <1>2, <1>3

LEMMA SerialIs ==
  ASSUME NEW cmd \in Dev!Commands
  PROVE  Shape(Dev!SerialIoctl(cmd))
  <1>1. CASE cmd[1] = "freq"
    <2>1. cmd[2] \in Freqs
      BY <1>1, CommandIs
    <2>2. CASE dv.freq = cmd[2]
      <3>1. Dev!SerialIoctl(cmd) = <<>>
        BY <1>1, <2>2 DEF Dev!SerialIoctl
      <3>. QED  BY <3>1, EmptyIs DEF Shape
    <2>3. CASE dv.freq # cmd[2]
      <3>1. Dev!SerialIoctl(cmd) = <<Dev!Keep("freq", cmd[2]), Down, Dev!Also("reinit", 0)>>
        BY <1>1, <2>3 DEF Dev!SerialIoctl, Down
      <3>. QED  BY <2>1, <3>1 DEF Shape, Reinits, UpAgain
    <2>. QED  BY <2>2, <2>3
  <1>2. CASE cmd[1] = "irq"
    BY <1>2, IrqIs DEF Dev!SerialIoctl, Shape
  <1>3. CASE cmd[1] = "on"
    <2>1. Dev!SerialIoctl(cmd) = <<Dev!Also("direction", 1)>>
      BY <1>3 DEF Dev!SerialIoctl
    <2>. QED  BY <2>1, OneUses DEF Shape
  <1>4. CASE cmd[1] = "off"
    <2>1. Dev!SerialIoctl(cmd) = <<Dev!Also("direction", 0)>>
      BY <1>4 DEF Dev!SerialIoctl
    <2>. QED  BY <2>1, OneUses DEF Shape
  <1>5. CASE cmd[1] = "get"
    <2>1. Dev!SerialIoctl(cmd) = <<Dev!Also("get", 0)>>
      BY <1>5 DEF Dev!SerialIoctl
    <2>. QED  BY <2>1, OneUses DEF Shape
  <1>6. CASE cmd[1] = "write"
    <2>1. cmd[2] \in {0, 1} /\ "direction" \in UseHooks /\ "write" \in UseHooks
      BY <1>6, CommandIs, OneUses
    <2>2. PICK a, b, c \in Simple : /\ a = Dev!Also("direction", 1) /\ b = Dev!Also("write", cmd[2])
                                    /\ c = Dev!Also("direction", 0)
      BY <2>1, UseIs
    <2>3. Dev!SerialIoctl(cmd) = <<a, b, c>>
      BY <1>6, <2>2 DEF Dev!SerialIoctl, Dev!SerialWrite
    <2>4. <<a, b, c>> \in Seq(Simple)
      OBVIOUS
    <2>. QED  BY <2>3, <2>4 DEF Shape
  <1>7. CASE cmd[1] \notin {"freq", "irq", "on", "off", "get", "write"}
    <2>1. Dev!SerialIoctl(cmd) = <<>>
      BY <1>7 DEF Dev!SerialIoctl
    <2>. QED  BY <2>1, EmptyIs DEF Shape
  <1>. QED  BY <1>1, <1>2, <1>3, <1>4, <1>5, <1>6, <1>7

LEMMA GpioIs ==
  ASSUME NEW cmd \in Dev!Commands
  PROVE  Shape(Dev!GpioIoctl(cmd))
  <1>1. CASE cmd[1] = "write"
    <2>1. Dev!GpioIoctl(cmd) = <<Dev!Also("ctrl", cmd[2])>> /\ cmd[2] \in {0, 1}
      BY <1>1, CommandIs DEF Dev!GpioIoctl
    <2>2. "ctrl" \in UseHooks
      BY OneUses
    <2>3. <<Dev!Also("ctrl", cmd[2])>> \in Seq(Simple)
      BY <2>1, <2>2, OneUse
    <2>. QED  BY <2>1, <2>3 DEF Shape
  <1>2. CASE cmd[1] = "once"
    <2>1. Dev!GpioIoctl(cmd) = <<Dev!Also("toggle", 0)>>
      BY <1>2 DEF Dev!GpioIoctl
    <2>. QED  BY <2>1, OneUses DEF Shape
  <1>3. CASE cmd[1] = "get"
    <2>1. Dev!GpioIoctl(cmd) = <<Dev!Also("get", 0)>>
      BY <1>3 DEF Dev!GpioIoctl
    <2>. QED  BY <2>1, OneUses DEF Shape
  <1>4. CASE cmd[1] = "irq"
    BY <1>4, IrqIs DEF Dev!GpioIoctl, Shape
  <1>5. CASE cmd[1] = "enable"
    <2>1. Dev!GpioIoctl(cmd) = Dev!Control(cmd) /\ cmd[1] \in UseHooks /\ cmd[2] \in {0, 1}
      BY <1>5, CommandIs, OneUses DEF Dev!GpioIoctl
    <2>. QED  BY <2>1, ControlIs DEF Shape
  <1>6. CASE cmd[1] \notin {"write", "once", "get", "irq", "enable"}
    <2>1. Dev!GpioIoctl(cmd) = <<>>
      BY <1>6 DEF Dev!GpioIoctl
    <2>. QED  BY <2>1, EmptyIs DEF Shape
  <1>. QED  BY <1>1, <1>2, <1>3, <1>4, <1>5, <1>6

LEMMA AnalogIs ==
  ASSUME NEW cmd \in Dev!Commands
  PROVE  Shape(Dev!AnalogIoctl(cmd))
  <1>1. CASE cmd[1] = "enable"
    <2>1. Dev!AnalogIoctl(cmd) = Dev!Control(cmd) /\ cmd[1] \in UseHooks /\ cmd[2] \in {0, 1}
      BY <1>1, CommandIs, OneUses DEF Dev!AnalogIoctl
    <2>. QED  BY <2>1, ControlIs DEF Shape
  <1>2. CASE cmd[1] = "get"
    <2>1. Dev!AnalogIoctl(cmd) = <<Dev!Also("get", 0)>>
      BY <1>2 DEF Dev!AnalogIoctl
    <2>. QED  BY <2>1, OneUses DEF Shape
  <1>3. CASE cmd[1] = "irq"
    BY <1>3, IrqIs DEF Dev!AnalogIoctl, Shape
  <1>4. CASE cmd[1] \notin {"enable", "get", "irq"}
    <2>1. Dev!AnalogIoctl(cmd) = <<>>
      BY <1>4 DEF Dev!AnalogIoctl
    <2>. QED  BY <2>1, EmptyIs DEF Shape
  <1>. QED  BY <1>1, <1>2, <1>3, <1>4

\* The drivers whose every command is a hook or nothing.
LEMMA HooksAre ==
  ASSUME NEW cmd \in Dev!Commands
  PROVE  /\ Shape(Dev!GroupIoctl(cmd)) /\ Shape(Dev!RtcDo(cmd))
         /\ Shape(Dev!FlashDo(cmd)) /\ Shape(Dev!WdtIoctl(cmd))
  <1>1. /\ <<>> \in Seq(Simple) /\ <<Dev!Also("group", 0)>> \in Seq(Simple)
        /\ <<Dev!Also("utc", 0)>> \in Seq(Simple) /\ <<Dev!Also("flash", 0)>> \in Seq(Simple)
        /\ <<Dev!Must("flash", 0)>> \in Seq(Simple) /\ <<Dev!Also("feed", 0)>> \in Seq(Simple)
    BY OneUses, EmptyIs
  <1>2. Dev!GroupIoctl(cmd) \in {<<>>, <<Dev!Also("group", 0)>>}
    BY DEF Dev!GroupIoctl
  <1>3. Dev!RtcDo(cmd) \in {<<>>, <<Dev!Also("utc", 0)>>}
    BY DEF Dev!RtcDo
  <1>4. Dev!FlashDo(cmd) \in {<<>>, <<Dev!Also("flash", 0)>>, <<Dev!Must("flash", 0)>>}
    BY DEF Dev!FlashDo
  <1>5. Dev!WdtIoctl(cmd) \in {<<>>, <<Dev!Also("feed", 0)>>}
    BY DEF Dev!WdtIoctl
  <1>. QED  BY <1>1, <1>2, <1>3, <1>4, <1>5 DEF Shape

LEMMA IoctlIs ==
  ASSUME Dev!DevicesAssumption, dvKind \in Kinds, dv.count \in Nat \cup {Forever},
         NEW cmd \in Dev!Commands
  PROVE  /\ Shape(Dev!Ioctl(cmd))
         /\ dvKind = "led" => Dev!Ioctl(cmd) \in Seq(Simple)
  <1>1. dvKind \in {"led", "buzzer", "infrared", "timer", "pwmc", "serial", "gpio",
                    "gpio_group", "analog", "rtc", "wdt", "flash"}
    BY DEF Dev!DevicesAssumption
  <1>2. CASE dvKind = "led"
    <2>1. Dev!Ioctl(cmd) = Dev!LedIoctl(cmd)
      BY <1>2 DEF Dev!Ioctl
    <2>. QED  BY <2>1, LedIs DEF Shape
  <1>3. CASE dvKind \in {"buzzer", "infrared", "timer", "pwmc"}
    <2>1. Dev!Ioctl(cmd) \in {Dev!BuzzerIoctl(cmd), Dev!InfraredIoctl(cmd), Dev!TimerIoctl(cmd),
                              Dev!PwmcIoctl(cmd)}
      BY <1>3 DEF Dev!Ioctl
    <2>. QED  BY <1>3, <2>1, BuzzerIs, InfraredIs, TimerIs, PwmcIs
  <1>4. CASE dvKind \in {"serial", "gpio", "gpio_group", "analog"}
    <2>1. Dev!Ioctl(cmd) \in {Dev!SerialIoctl(cmd), Dev!GpioIoctl(cmd), Dev!GroupIoctl(cmd),
                              Dev!AnalogIoctl(cmd)}
      BY <1>4 DEF Dev!Ioctl
    <2>. QED  BY <1>4, <2>1, SerialIs, GpioIs, HooksAre, AnalogIs
  <1>5. CASE dvKind \in {"rtc", "wdt", "flash"}
    <2>1. Dev!Ioctl(cmd) \in {Dev!RtcDo(cmd), Dev!WdtIoctl(cmd), Dev!FlashDo(cmd)}
      BY <1>5 DEF Dev!Ioctl
    <2>. QED  BY <1>5, <2>1, HooksAre
  <1>. QED  BY <1>1, <1>2, <1>3, <1>4, <1>5

-----------------------------------------------------------------------------
(* The inductive invariant                                                 *)

Amount == Nat \cup {Forever}
Fields == [users : Nat, start : BOOLEAN, up : BOOLEAN, out : {0, 1}, ms : {0, 1}, count : Amount,
           freq : Freqs, irq : BOOLEAN, abused : BOOLEAN]

\* Of a blink that was asked for, what is left and what was done.
Told(n, asked) ==
  /\ asked.changes \in Nat
  /\ IF asked.count = Forever THEN n = Forever
     ELSE n \in Nat /\ n + asked.changes = asked.count
Blinking(d, asked) ==
  IF dvKind = "infrared" THEN asked.count = 0 /\ asked.changes \in Nat ELSE Told(d.count, asked)

\* A call that is under way: what is left of it and how the hardware is.
Init0 == Dev!Must("init", 0)
Starting == {<<Init0>>, <<Init0, Dev!Just("ctrl", 0)>>}
              \cup (IF dvKind = "buzzer" THEN {<<Dev!Also("init", 0), Dev!Just("ctrl", 0)>>} ELSE {})
Started == {<<>>, <<Dev!Just("ctrl", 0)>>}
Stopping == {<<Down>>, <<Dev!Just("ctrl", 0), Down>>}

Commanded(d, t) == IF d.up THEN t \in Seq(Simple) \/ (dvKind # "led" /\ Reinits(t))
                   ELSE dvKind # "led" /\ Reinit1(t)
Opened(d, c, held) ==
  IF d.start THEN c.todo = <<>> /\ d.up /\ ~c.err /\ held # {}
  ELSE /\ held = {}
       /\ \/ c.todo \in Starting /\ ~d.up /\ ~c.err
          \/ c.todo \in Started /\ d.up /\ ~c.err
          \/ c.todo = <<>> /\ ~d.up /\ c.err
Closed(d, c, held) == held = {} /\ d.start /\ (IF d.up THEN c.todo \in Stopping ELSE c.todo = <<>>)

Going(d, u, c, held) ==
  /\ c = [what |-> c.what, todo |-> c.todo, err |-> c.err] /\ c.err \in BOOLEAN
  /\ \/ c.what = "ioctl" /\ held # {} /\ d.start /\ Commanded(d, c.todo)
     \/ c.what = "open" /\ u \notin held /\ Opened(d, c, held)
     \/ c.what = "close" /\ Closed(d, c, held)
     \/ c.what = "leave" /\ held # {} /\ d.start /\ d.up /\ c.todo = <<>>

Still(d, held) == IF held = {} THEN ~d.up /\ ~d.start ELSE d.up /\ d.start

\* One call at a time.
Alone(d, call, held) ==
  \/ (\A u \in Users : call[u] = Dev!Quiet) /\ Still(d, held)
  \/ \E u \in Users : /\ \A v \in Users \ {u} : call[v] = Dev!Quiet
                      /\ Going(d, u, call[u], held)

Sound(d, held) == d \in Fields /\ ~d.abused /\ d.users = Cardinality(held)
Holders(held) == held \subseteq Users /\ IsFiniteSet(held)
Calls(call) == call = [u \in Users |-> call[u]]

DvInv == /\ dvKind \in Kinds /\ Sound(dv, dvHeld) /\ Holders(dvHeld) /\ Calls(dvCall)
         /\ Blinking(dv, dvAsked) /\ Alone(dv, dvCall, dvHeld)

-----------------------------------------------------------------------------
(* What a step of a call does to the device                                *)

\* d2 is d with another output, reload, frequency or interrupt.
Alike(d, d2) == /\ d2 \in Fields /\ d2.users = d.users /\ d2.start = d.start
                /\ d2.abused = d.abused /\ d2.up = d.up

LEMMA UseOf ==
  ASSUME dv \in Fields, dv.up, NEW s \in Uses, NEW ok \in BOOLEAN
  PROVE  Alike(dv, Dev!Hook(s, ok)) /\ Dev!Hook(s, ok).count = dv.count
  <1>1. s.do \in UseHooks /\ s.v \in {0, 1}
    BY DEF Uses
  <1>2. s.do \notin {"keep", "init", "reinit", "deinit"}
    BY <1>1 DEF UseHooks
  <1>3. \/ Dev!Hook(s, ok) = [dv EXCEPT !.out = s.v]
        \/ Dev!Hook(s, ok) = [dv EXCEPT !.out = 1 - @]
        \/ Dev!Hook(s, ok) = dv
    BY <1>2 DEF Dev!Hook, Dev!Use
  <1>4. 1 - dv.out \in {0, 1}
    BY DEF Fields
  <1>. QED  BY <1>1, <1>3, <1>4 DEF Alike, Fields

LEMMA KeptOf ==
  ASSUME dv \in Fields, NEW s \in Kept, NEW ok \in BOOLEAN
  PROVE  /\ Alike(dv, Dev!Hook(s, ok)) /\ s.do = "keep"
         /\ IF s.v[1] = "count" THEN s.v[2] \in Amount /\ Dev!Hook(s, ok).count = s.v[2]
            ELSE Dev!Hook(s, ok).count = dv.count
  <1>1. CASE s = Dev!Keep("irq", TRUE)
    <2>1. s.do = "keep" /\ s.v[1] = "irq" /\ s.v[2] = TRUE
      BY <1>1 DEF Dev!Keep, Dev!Just
    <2>2. Dev!Hook(s, ok) = [dv EXCEPT !["irq"] = TRUE]
      BY <2>1 DEF Dev!Hook
    <2>. QED  BY <2>1, <2>2 DEF Alike, Fields
  <1>2. ASSUME NEW v \in {0, 1}, s = Dev!Keep("ms", v)
        PROVE  Alike(dv, Dev!Hook(s, ok)) /\ s.do = "keep" /\ s.v[1] # "count" /\ Dev!Hook(s, ok).count = dv.count
    <2>1. s.do = "keep" /\ s.v[1] = "ms" /\ s.v[2] = v
      BY <1>2 DEF Dev!Keep, Dev!Just
    <2>2. Dev!Hook(s, ok) = [dv EXCEPT !["ms"] = v]
      BY <2>1 DEF Dev!Hook
    <2>. QED  BY <2>1, <2>2 DEF Alike, Fields
  <1>3. ASSUME NEW v \in Nat \cup {Forever}, s = Dev!Keep("count", v)
        PROVE  /\ Alike(dv, Dev!Hook(s, ok)) /\ s.do = "keep" /\ s.v[1] = "count" /\ s.v[2] \in Amount
               /\ Dev!Hook(s, ok).count = s.v[2]
    <2>1. s.do = "keep" /\ s.v[1] = "count" /\ s.v[2] = v
      BY <1>3 DEF Dev!Keep, Dev!Just
    <2>2. Dev!Hook(s, ok) = [dv EXCEPT !["count"] = v]
      BY <2>1 DEF Dev!Hook
    <2>. QED  BY <2>1, <2>2 DEF Alike, Fields, Amount
  <1>4. ASSUME NEW f \in Freqs, s = Dev!Keep("freq", f)
        PROVE  Alike(dv, Dev!Hook(s, ok)) /\ s.do = "keep" /\ s.v[1] # "count" /\ Dev!Hook(s, ok).count = dv.count
    <2>1. s.do = "keep" /\ s.v[1] = "freq" /\ s.v[2] = f
      BY <1>4 DEF Dev!Keep, Dev!Just
    <2>2. Dev!Hook(s, ok) = [dv EXCEPT !["freq"] = f]
      BY <2>1 DEF Dev!Hook
    <2>. QED  BY <2>1, <2>2 DEF Alike, Fields
  <1>5. CASE s.v[1] = "count"
    BY <1>1, <1>2, <1>3, <1>4, <1>5 DEF Kept, Dev!Keep, Dev!Just
  <1>6. CASE s.v[1] # "count"
    BY <1>1, <1>2, <1>3, <1>4, <1>6 DEF Kept, Dev!Keep, Dev!Just
  <1>. QED  BY <1>5, <1>6

\* The hardware goes up or down, or nothing happens to it.
Turned(d, d2, up) == d2 \in Fields /\ d2 = [d EXCEPT !.up = up]

LEMMA DownOf ==
  ASSUME dv \in Fields, NEW ok \in BOOLEAN
  PROVE  Turned(dv, Dev!Hook(Down, ok), FALSE) /\ Down.do = "deinit" /\ Down.failing = "nothing"
  <1>1. Down.do = "deinit" /\ Down.failing = "nothing"
    BY DEF Down, Dev!Just
  <1>2. Dev!Hook(Down, ok) = [dv EXCEPT !.up = FALSE]
    BY <1>1 DEF Dev!Hook
  <1>. QED  BY <1>1, <1>2 DEF Turned, Fields

LEMMA UpOf ==
  ASSUME dv \in Fields, NEW d, d = [dv EXCEPT !.up = TRUE]
  PROVE  Turned(dv, d, TRUE)
  BY DEF Turned, Fields

-----------------------------------------------------------------------------
(* One action at a time                                                    *)

LEMMA SeqStep ==
  ASSUME NEW t \in Seq(Simple), t # <<>>
  PROVE  t[1] \in Simple /\ Tail(t) \in Seq(Simple)
  OBVIOUS

\* What a step makes of the call.
Rest(c, ok) == IF ~ok /\ c.todo[1].failing = "ends" THEN <<>> ELSE Tail(c.todo)
Error(c, ok) == c.err \/ (~ok /\ c.todo[1].failing # "nothing")

LEMMA OnlyTheCaller ==
  ASSUME NEW u \in Users, DvInv, dvCall[u] # Dev!Quiet
  PROVE  /\ Going(dv, u, dvCall[u], dvHeld)
         /\ \A v \in Users \ {u} : dvCall[v] = Dev!Quiet
  <1>1. PICK w \in Users : /\ \A v \in Users \ {w} : dvCall[v] = Dev!Quiet
                           /\ Going(dv, w, dvCall[w], dvHeld)
    BY DEF DvInv, Alone
  <1>2. w = u
    BY <1>1
  <1>. QED  BY <1>1, <1>2

\* Two fields of a record in a function, one after the other.
Changed(f, u, r, x) == [f EXCEPT ![u].todo = r, ![u].err = x]
LEMMA TwoFields ==
  ASSUME NEW S, NEW f, f = [v \in S |-> f[v]], NEW u \in S, NEW a, NEW b, NEW e,
         f[u] = [what |-> a, todo |-> b, err |-> e], NEW r, NEW x,
         NEW f2, f2 = Changed(f, u, r, x)
  PROVE  f2 = [f EXCEPT ![u] = [what |-> a, todo |-> r, err |-> x]]
  <1>1. [[what |-> a, todo |-> b, err |-> e] EXCEPT !.todo = r] = [what |-> a, todo |-> r, err |-> e]
    OBVIOUS
  <1>2. [[what |-> a, todo |-> r, err |-> e] EXCEPT !.err = x] = [what |-> a, todo |-> r, err |-> x]
    OBVIOUS
  <1>3. [f EXCEPT ![u].todo = r] = [f EXCEPT ![u] = [what |-> a, todo |-> r, err |-> e]]
    BY <1>1
  <1>4. PICK g : g = [f EXCEPT ![u] = [what |-> a, todo |-> r, err |-> e]]
    OBVIOUS
  <1>5. [g EXCEPT ![u].err = x] = [g EXCEPT ![u] = [what |-> a, todo |-> r, err |-> x]]
    BY <1>2, <1>4
  <1>6. [g EXCEPT ![u] = [what |-> a, todo |-> r, err |-> x]] = [f EXCEPT ![u] = [what |-> a, todo |-> r, err |-> x]]
    BY <1>4
  <1>7. f2 = [g EXCEPT ![u].err = x]
    BY <1>3, <1>4 DEF Changed
  <1>. QED  BY <1>5, <1>6, <1>7

LEMMA StepOfCall ==
  ASSUME NEW u \in Users, NEW ok \in BOOLEAN, DvInv, Dev!Step(u, ok)
  PROVE  /\ Going(dv, u, dvCall[u], dvHeld) /\ dvCall[u].todo # <<>>
         /\ dvCall'[u] = [what |-> dvCall[u].what, todo |-> Rest(dvCall[u], ok), err |-> Error(dvCall[u], ok)]
         /\ \A v \in Users \ {u} : dvCall'[v] = Dev!Quiet
         /\ Calls(dvCall')
  <1>1. dvCall[u].todo # <<>> /\ dvCall[u] # Dev!Quiet
    BY DEF Dev!Step, Dev!Quiet
  <1>2. /\ Going(dv, u, dvCall[u], dvHeld)
        /\ \A v \in Users \ {u} : dvCall[v] = Dev!Quiet
    BY <1>1, OnlyTheCaller
  <1>3. PICK c : c = dvCall[u]
    OBVIOUS
  <1>4. c = [what |-> c.what, todo |-> c.todo, err |-> c.err]
    BY <1>2, <1>3 DEF Going
  <1>5. dvCall = [v \in Users |-> dvCall[v]]
    BY DEF DvInv, Calls
  <1>6. PICK r, x : r = Rest(c, ok) /\ x = Error(c, ok)
    OBVIOUS
  <1>7. dvCall' = [dvCall EXCEPT ![u] = [what |-> c.what, todo |-> r, err |-> x]]
    <2>1. PICK f, f2 : f = dvCall /\ f2 = dvCall'
      OBVIOUS
    <2>2. f2 = Changed(f, u, r, x)
      BY <1>3, <1>6, <2>1 DEF Dev!Step, Rest, Error, Changed
    <2>3. f[u] = [what |-> c.what, todo |-> c.todo, err |-> c.err] /\ f = [v \in Users |-> f[v]]
      BY <1>3, <1>4, <1>5, <2>1
    <2>4. f2 = [f EXCEPT ![u] = [what |-> c.what, todo |-> r, err |-> x]]
      BY <2>2, <2>3, TwoFields
    <2>. QED  BY <2>1, <2>4
  <1>8. /\ dvCall'[u] = [what |-> c.what, todo |-> r, err |-> x]
        /\ \A v \in Users \ {u} : dvCall'[v] = dvCall[v]
        /\ dvCall' = [v \in Users |-> dvCall'[v]]
    BY <1>5, <1>7
  <1>. QED  BY <1>1, <1>2, <1>3, <1>6, <1>8 DEF Calls

\* The device, the history and the call after a step.
Right(u, d, asked, c) ==
  Sound(d, dvHeld) /\ Blinking(d, asked) /\ Going(d, u, c, dvHeld)

LEMMA BlinkOf ==
  ASSUME NEW u \in Users, NEW ok \in BOOLEAN, DvInv, Dev!Step(u, ok),
         NEW s, s = dvCall[u].todo[1], s.do # "keep", dv'.count = dv.count
  PROVE  Blinking(dv', dvAsked')
  <1>1. dvAsked' = dvAsked
    BY DEF Dev!Step
  <1>. QED  BY <1>1 DEF DvInv, Blinking, Told

LEMMA CommandStep ==
  ASSUME NEW u \in Users, NEW ok \in BOOLEAN, DvInv, Dev!Step(u, ok),
         dvCall[u].what = "ioctl", dv.up, dvCall[u].todo \in Seq(Simple)
  PROVE  Right(u, dv', dvAsked', dvCall'[u])
  <1>1. PICK c : c = dvCall[u]
    OBVIOUS
  <1>2. PICK s : s = c.todo[1]
    OBVIOUS
  <1>3. PICK d : d = dv'
    OBVIOUS
  <1>4. PICK t : t = Rest(c, ok)
    OBVIOUS
  <1>5. PICK e : e = Error(c, ok)
    OBVIOUS
  <1>6. Going(dv, u, c, dvHeld) /\ c.todo # <<>> /\ dvCall'[u] = [what |-> "ioctl", todo |-> t, err |-> e]
    BY <1>1, <1>4, <1>5, StepOfCall
  <1>7. s \in Simple /\ t \in Seq(Simple)
    BY <1>1, <1>2, <1>4, <1>6, SeqStep DEF Rest
  <1>8. e \in BOOLEAN
    BY <1>5, <1>6 DEF Going, Error
  <1>9. dv \in Fields /\ ~dv.abused /\ dv.users = Cardinality(dvHeld) /\ Blinking(dv, dvAsked)
    BY DEF DvInv, Sound
  <1>10. d = Dev!Hook(s, ok)
    BY <1>1, <1>2, <1>3 DEF Dev!Step
  <1>11. dvAsked' = IF s.do = "keep" /\ s.v[1] = "count" /\ dvKind # "infrared"
                    THEN [count |-> s.v[2], changes |-> 0] ELSE dvAsked
    BY <1>1, <1>2 DEF Dev!Step
  <1>12. Alike(dv, d) /\ Blinking(d, dvAsked')
    <2>1. CASE s \in Uses
      <3>1. Alike(dv, d) /\ d.count = dv.count
        BY <1>9, <1>10, <2>1, UseOf
      <3>2. s.do # "keep"
        BY <2>1 DEF Uses, UseHooks
      <3>. QED  BY <1>9, <1>11, <3>1, <3>2 DEF Blinking, Told
    <2>2. CASE s \in Kept
      <3>1. /\ Alike(dv, d) /\ s.do = "keep"
            /\ IF s.v[1] = "count" THEN s.v[2] \in Amount /\ d.count = s.v[2] ELSE d.count = dv.count
        BY <1>9, <1>10, <2>2, KeptOf
      <3>2. CASE s.v[1] = "count" /\ dvKind # "infrared"
        <4>1. dvAsked' = [count |-> s.v[2], changes |-> 0] /\ s.v[2] \in Amount /\ d.count = s.v[2]
          BY <1>11, <3>1, <3>2
        <4>. QED  BY <3>1, <3>2, <4>1 DEF Blinking, Told, Amount
      <3>3. CASE ~(s.v[1] = "count" /\ dvKind # "infrared")
        BY <1>9, <1>11, <3>1, <3>3 DEF Blinking, Told
      <3>. QED  BY <3>2, <3>3
    <2>. QED  BY <1>7, <2>1, <2>2 DEF Simple
  <1>13. Sound(d, dvHeld)
    BY <1>9, <1>12 DEF Alike, Sound
  <1>14. Going(d, u, [what |-> "ioctl", todo |-> t, err |-> e], dvHeld)
    <2>1. dvHeld # {} /\ dv.start
      BY <1>1, <1>6 DEF Going
    <2>2. d.up /\ d.start
      BY <1>12, <2>1 DEF Alike
    <2>. QED  BY <1>7, <1>8, <2>1, <2>2 DEF Going, Commanded
  <1>. QED  BY <1>3, <1>6, <1>12, <1>13, <1>14 DEF Right

\* The hardware goes up or down in a step of a call, and nothing else changes.
LEMMA TurnOf ==
  ASSUME NEW u \in Users, NEW ok \in BOOLEAN, DvInv, Dev!Step(u, ok), NEW up \in BOOLEAN,
         NEW s, s = dvCall[u].todo[1], s.do # "keep", Turned(dv, dv', up)
  PROVE  Sound(dv', dvHeld) /\ Blinking(dv', dvAsked') /\ dv'.up = up /\ dv'.start = dv.start
  <1>1. /\ dv' \in Fields /\ dv'.up = up /\ dv'.start = dv.start /\ dv'.count = dv.count
        /\ dv'.abused = dv.abused /\ dv'.users = dv.users
    BY DEF Turned, DvInv, Sound, Fields
  <1>2. Blinking(dv', dvAsked')
    BY <1>1, BlinkOf
  <1>. QED  BY <1>1, <1>2 DEF DvInv, Sound

LEMMA SameOf ==
  ASSUME NEW u \in Users, NEW ok \in BOOLEAN, DvInv, Dev!Step(u, ok),
         NEW s, s = dvCall[u].todo[1], s.do # "keep", dv' = dv
  PROVE  Sound(dv', dvHeld) /\ Blinking(dv', dvAsked')
  <1>1. Blinking(dv', dvAsked')
    BY BlinkOf
  <1>. QED  BY <1>1 DEF DvInv, Sound

LEMMA ReinitStep ==
  ASSUME NEW u \in Users, NEW ok \in BOOLEAN, Orderly, DvInv, Dev!Step(u, ok),
         dvCall[u].what = "ioctl", dvKind # "led",
         \/ dv.up /\ Reinits(dvCall[u].todo)
         \/ ~dv.up /\ Reinit1(dvCall[u].todo)
  PROVE  Right(u, dv', dvAsked', dvCall'[u])
  <1>1. PICK c, s, d, t, e : /\ c = dvCall[u] /\ s = c.todo[1] /\ d = dv'
                             /\ t = Rest(c, ok) /\ e = Error(c, ok)
    OBVIOUS
  <1>2. Going(dv, u, c, dvHeld) /\ dvCall'[u] = [what |-> "ioctl", todo |-> t, err |-> e]
    BY <1>1, StepOfCall
  <1>3. dvHeld # {} /\ dv.start /\ e \in BOOLEAN
    BY <1>1, <1>2 DEF Going, Error
  <1>4. dv \in Fields /\ ~dv.abused /\ dv.users = Cardinality(dvHeld) /\ Blinking(dv, dvAsked)
    BY DEF DvInv, Sound
  <1>5. d = Dev!Hook(s, ok) /\ (ok \/ Dev!Fails(s.do))
    BY <1>1 DEF Dev!Step
  <1>6. ASSUME Sound(d, dvHeld), Blinking(d, dvAsked'), d.start, Commanded(d, t)
        PROVE  Right(u, dv', dvAsked', dvCall'[u])
    BY <1>1, <1>2, <1>3, <1>6 DEF Right, Going
  <1>7. CASE dv.up
    <2>1. ASSUME NEW f \in Freqs, NEW s2 \in UpAgain, c.todo = <<Dev!Keep("freq", f), Down, s2>>
          PROVE  Right(u, dv', dvAsked', dvCall'[u])
      <3>1. s = Dev!Keep("freq", f) /\ Tail(c.todo) = <<Down, s2>>
        BY <1>1, <2>1
      <3>2. s \in Kept /\ s.failing = "nothing" /\ s.v[1] = "freq"
        BY <3>1 DEF Kept, Dev!Keep, Dev!Just
      <3>3. t = <<Down, s2>>
        BY <1>1, <3>1, <3>2 DEF Rest
      <3>4. Alike(dv, d) /\ d.count = dv.count
        BY <1>4, <1>5, <3>2, KeptOf
      <3>5. dvAsked' = dvAsked
        BY <1>1, <3>2 DEF Dev!Step
      <3>6. Sound(d, dvHeld) /\ Blinking(d, dvAsked') /\ d.start /\ d.up
        BY <1>3, <1>4, <1>7, <3>4, <3>5 DEF Alike, Sound, Blinking, Told
      <3>7. Commanded(d, t)
        BY <3>3, <3>6 DEF Commanded, Reinits
      <3>. QED  BY <1>6, <3>6, <3>7
    <2>2. ASSUME NEW s2 \in UpAgain, c.todo = <<Down, s2>>
          PROVE  Right(u, dv', dvAsked', dvCall'[u])
      <3>1. s = Down /\ Tail(c.todo) = <<s2>>
        BY <1>1, <2>2
      <3>2. Turned(dv, d, FALSE) /\ s.do = "deinit" /\ s.failing = "nothing"
        BY <1>4, <1>5, <3>1, DownOf
      <3>3. t = <<s2>>
        BY <1>1, <3>1, <3>2 DEF Rest
      <3>4. Sound(d, dvHeld) /\ Blinking(d, dvAsked') /\ d.start /\ ~d.up
        BY <1>1, <1>3, <3>2, TurnOf
      <3>5. Commanded(d, t)
        BY <3>3, <3>4 DEF Commanded, Reinit1
      <3>. QED  BY <1>6, <3>4, <3>5
    <2>. QED  BY <1>1, <1>7, <2>1, <2>2 DEF Reinits
  <1>8. CASE ~dv.up
    <2>1. PICK s2 \in UpAgain : c.todo = <<s2>>
      BY <1>1, <1>8 DEF Reinit1
    <2>2. s = s2 /\ Tail(c.todo) = <<>> /\ s.do = "reinit"
      BY <1>1, <2>1 DEF UpAgain, Dev!Just, Dev!Also
    <2>3. ok = TRUE
      BY <1>5, <2>2 DEF Dev!Fails, Orderly
    <2>4. Turned(dv, d, TRUE)
      <3>1. d = [dv EXCEPT !.up = TRUE]
        BY <1>5, <2>2, <2>3 DEF Dev!Hook
      <3>. QED  BY <1>4, <3>1, UpOf
    <2>5. t = <<>>
      BY <1>1, <2>2, <2>3 DEF Rest
    <2>6. Sound(d, dvHeld) /\ Blinking(d, dvAsked') /\ d.start /\ d.up
      BY <1>1, <1>3, <2>2, <2>4, TurnOf
    <2>7. Commanded(d, t)
      BY <2>5, <2>6, EmptyIs DEF Commanded
    <2>. QED  BY <1>6, <2>6, <2>7
  <1>. QED  BY <1>7, <1>8

LEMMA AlikeOf ==
  ASSUME NEW u \in Users, NEW ok \in BOOLEAN, DvInv, Dev!Step(u, ok), dv.up,
         NEW s \in Uses, s = dvCall[u].todo[1]
  PROVE  Sound(dv', dvHeld) /\ Blinking(dv', dvAsked') /\ dv'.up /\ dv'.start = dv.start
  <1>1. dv \in Fields /\ dv' = Dev!Hook(s, ok)
    BY DEF DvInv, Sound, Dev!Step
  <1>2. Alike(dv, dv') /\ dv'.count = dv.count
    BY <1>1, UseOf
  <1>3. s.do # "keep"
    BY DEF Uses, UseHooks
  <1>4. Blinking(dv', dvAsked')
    BY <1>2, <1>3, BlinkOf
  <1>. QED  BY <1>2, <1>4 DEF Alike, DvInv, Sound

LEMMA CtrlIs == Dev!Just("ctrl", 0) \in Uses /\ Dev!Just("ctrl", 0).failing = "nothing"
  BY DEF Uses, UseHooks, Failings, Dev!Just

LEMMA OpenStep ==
  ASSUME NEW u \in Users, NEW ok \in BOOLEAN, Orderly, DvInv, Dev!Step(u, ok),
         dvCall[u].what = "open"
  PROVE  Right(u, dv', dvAsked', dvCall'[u])
  <1>1. PICK c, s, d, t, e : /\ c = dvCall[u] /\ s = c.todo[1] /\ d = dv'
                             /\ t = Rest(c, ok) /\ e = Error(c, ok)
    OBVIOUS
  <1>2. Going(dv, u, c, dvHeld) /\ c.todo # <<>> /\ dvCall'[u] = [what |-> "open", todo |-> t, err |-> e]
    BY <1>1, StepOfCall
  <1>3. u \notin dvHeld /\ dvHeld = {} /\ ~dv.start /\ c.err = FALSE
    BY <1>1, <1>2 DEF Going, Opened
  <1>4. e \in BOOLEAN
    BY <1>1, <1>3 DEF Error
  <1>5. d = Dev!Hook(s, ok) /\ (ok \/ Dev!Fails(s.do)) /\ dv \in Fields
    BY <1>1 DEF Dev!Step, DvInv, Sound
  <1>6. ASSUME Sound(d, dvHeld), Blinking(d, dvAsked'), ~d.start,
               \/ t \in Started /\ d.up /\ ~e
               \/ t = <<>> /\ ~d.up /\ e
        PROVE  Right(u, dv', dvAsked', dvCall'[u])
    BY <1>1, <1>2, <1>3, <1>4, <1>6 DEF Right, Going, Opened
  <1>7. CASE c.todo \in Starting /\ ~dv.up
    <2>1. s \in {Init0, Dev!Also("init", 0)} /\ Tail(c.todo) \in Started
      <3>1. PICK i, a, j : i = Init0 /\ a = Dev!Also("init", 0) /\ j = Dev!Just("ctrl", 0)
        OBVIOUS
      <3>2. c.todo \in {<<i>>, <<i, j>>, <<a, j>>}
        BY <1>7, <3>1 DEF Starting
      <3>3. s \in {i, a} /\ Tail(c.todo) \in {<<>>, <<j>>}
        <4>1. CASE c.todo = <<i>>
          BY <1>1, <4>1
        <4>2. CASE c.todo = <<i, j>>
          BY <1>1, <4>2
        <4>3. CASE c.todo = <<a, j>>
          BY <1>1, <4>3
        <4>. QED  BY <3>2, <4>1, <4>2, <4>3
      <3>. QED  BY <3>1, <3>3 DEF Started
    <2>2. s.do = "init"
      BY <2>1 DEF Init0, Dev!Must, Dev!Also
    <2>3. CASE ok
      <3>1. d = [dv EXCEPT !.up = TRUE]
        BY <1>5, <2>2, <2>3 DEF Dev!Hook
      <3>2. Turned(dv, d, TRUE)
        BY <1>5, <3>1, UpOf
      <3>3. Sound(d, dvHeld) /\ Blinking(d, dvAsked') /\ d.up /\ d.start = dv.start
        BY <1>1, <2>2, <3>2, TurnOf
      <3>4. t \in Started /\ ~e
        BY <1>1, <1>3, <2>1, <2>3 DEF Rest, Error
      <3>. QED  BY <1>3, <1>6, <3>3, <3>4
    <2>4. CASE ~ok
      <3>1. d = dv
        BY <1>5, <2>2, <2>4 DEF Dev!Hook
      <3>2. dvKind # "buzzer"
        BY <1>5, <2>2, <2>4 DEF Dev!Fails, Orderly
      <3>3. s = Init0
        BY <1>1, <1>7, <3>2 DEF Starting
      <3>4. s.failing = "ends"
        BY <3>3 DEF Init0, Dev!Must
      <3>5. t = <<>> /\ e
        BY <1>1, <2>4, <3>4 DEF Rest, Error
      <3>6. Sound(d, dvHeld) /\ Blinking(d, dvAsked')
        BY <1>1, <2>2, <3>1, SameOf
      <3>. QED  BY <1>3, <1>6, <1>7, <3>1, <3>5, <3>6
    <2>. QED  BY <2>3, <2>4
  <1>8. CASE c.todo \in Started /\ dv.up
    <2>1. s = Dev!Just("ctrl", 0) /\ Tail(c.todo) = <<>>
      <3>1. PICK j : j = Dev!Just("ctrl", 0)
        OBVIOUS
      <3>2. c.todo = <<j>>
        BY <1>2, <1>8, <3>1 DEF Started
      <3>. QED  BY <1>1, <3>1, <3>2
    <2>2. s \in Uses /\ s.failing = "nothing"
      BY <2>1, CtrlIs
    <2>3. Sound(d, dvHeld) /\ Blinking(d, dvAsked') /\ d.up /\ d.start = dv.start
      BY <1>1, <1>8, <2>2, AlikeOf
    <2>4. t = <<>> /\ ~e
      BY <1>1, <1>3, <2>1, <2>2 DEF Rest, Error
    <2>. QED  BY <1>3, <1>6, <2>3, <2>4 DEF Started
  <1>9. \/ c.todo \in Starting /\ ~dv.up
        \/ c.todo \in Started /\ dv.up
    BY <1>1, <1>2, <1>3 DEF Going, Opened
  <1>. QED  BY <1>7, <1>8, <1>9

LEMMA CloseStep ==
  ASSUME NEW u \in Users, NEW ok \in BOOLEAN, DvInv, Dev!Step(u, ok),
         dvCall[u].what = "close"
  PROVE  Right(u, dv', dvAsked', dvCall'[u])
  <1>1. PICK c, s, d, t, e : /\ c = dvCall[u] /\ s = c.todo[1] /\ d = dv'
                             /\ t = Rest(c, ok) /\ e = Error(c, ok)
    OBVIOUS
  <1>2. Going(dv, u, c, dvHeld) /\ c.todo # <<>> /\ dvCall'[u] = [what |-> "close", todo |-> t, err |-> e]
    BY <1>1, StepOfCall
  <1>3. dvHeld = {} /\ dv.start /\ dv.up /\ c.todo \in Stopping /\ e \in BOOLEAN
    BY <1>1, <1>2 DEF Going, Closed, Error
  <1>4. d = Dev!Hook(s, ok) /\ dv \in Fields
    BY <1>1 DEF Dev!Step, DvInv, Sound
  <1>5. ASSUME Sound(d, dvHeld), Blinking(d, dvAsked'), d.start,
               IF d.up THEN t \in Stopping ELSE t = <<>>
        PROVE  Right(u, dv', dvAsked', dvCall'[u])
    BY <1>1, <1>2, <1>3, <1>5 DEF Right, Going, Closed
  <1>6. CASE c.todo = <<Down>>
    <2>1. s = Down /\ Tail(c.todo) = <<>>
      BY <1>1, <1>6
    <2>2. Turned(dv, d, FALSE) /\ s.do = "deinit" /\ s.failing = "nothing"
      BY <1>4, <2>1, DownOf
    <2>3. Sound(d, dvHeld) /\ Blinking(d, dvAsked') /\ ~d.up /\ d.start = dv.start
      BY <1>1, <2>2, TurnOf
    <2>4. t = <<>>
      BY <1>1, <2>1, <2>2 DEF Rest
    <2>. QED  BY <1>3, <1>5, <2>3, <2>4
  <1>7. CASE c.todo = <<Dev!Just("ctrl", 0), Down>>
    <2>1. s = Dev!Just("ctrl", 0) /\ Tail(c.todo) = <<Down>>
      BY <1>1, <1>7
    <2>2. s \in Uses /\ s.failing = "nothing"
      BY <2>1, CtrlIs
    <2>3. Sound(d, dvHeld) /\ Blinking(d, dvAsked') /\ d.up /\ d.start = dv.start
      BY <1>1, <1>3, <2>2, AlikeOf
    <2>4. t = <<Down>>
      BY <1>1, <2>1, <2>2 DEF Rest
    <2>. QED  BY <1>3, <1>5, <2>3, <2>4 DEF Stopping
  <1>. QED  BY <1>3, <1>6, <1>7 DEF Stopping

LEMMA StepKeeps ==
  ASSUME NEW u \in Users, NEW ok \in BOOLEAN, Orderly, DvInv, Dev!Step(u, ok)
  PROVE  DvInv'
  <1>1. /\ Going(dv, u, dvCall[u], dvHeld) /\ dvCall[u].todo # <<>> /\ Calls(dvCall')
        /\ \A v \in Users \ {u} : dvCall'[v] = Dev!Quiet
    BY StepOfCall
  <1>2. Right(u, dv', dvAsked', dvCall'[u])
    <2>1. CASE dvCall[u].what = "ioctl"
      <3>1. Commanded(dv, dvCall[u].todo)
        BY <1>1, <2>1 DEF Going
      <3>. QED  BY <2>1, <3>1, CommandStep, ReinitStep DEF Commanded
    <2>. QED  BY <1>1, <2>1, OpenStep, CloseStep DEF Going
  <1>3. dvKind' = dvKind /\ dvHeld' = dvHeld
    BY DEF Dev!Step
  <1>4. dvKind' \in Kinds /\ Holders(dvHeld')
    BY <1>3 DEF DvInv
  <1>5. Sound(dv', dvHeld')
    BY <1>2, <1>3 DEF Right
  <1>6. Blinking(dv, dvAsked)'
    BY <1>2, <1>3 DEF Right, Blinking
  <1>7. Going(dv, u, dvCall[u], dvHeld)'
    BY <1>2, <1>3 DEF Right, Going, Commanded, Opened, Starting, Closed
  <1>8. Alone(dv, dvCall, dvHeld)'
    BY <1>1, <1>7 DEF Alone, Dev!Quiet
  <1>. QED  BY <1>1, <1>4, <1>5, <1>6, <1>8 DEF DvInv

\* A call begins when no other is under way.
LEMMA NobodyBusy ==
  ASSUME Orderly, DvInv, Dev!Busy = {} \/ Preempt
  PROVE  (\A v \in Users : dvCall[v] = Dev!Quiet) /\ Still(dv, dvHeld)
  <1>1. \A v \in Users : dvCall[v] = Dev!Quiet
    BY DEF Orderly, Dev!Busy
  <1>2. ASSUME NEW u \in Users, Going(dv, u, dvCall[u], dvHeld)
        PROVE  FALSE
    <2>1. dvCall[u].what = "none"
      BY <1>1 DEF Dev!Quiet
    <2>. QED  BY <1>2, <2>1 DEF Going
  <1>. QED  BY <1>1, <1>2 DEF DvInv, Alone

LEMMA Begins ==
  ASSUME NEW u \in Users, NEW w, NEW t, Calls(dvCall), Dev!Starts(u, w, t),
         \A v \in Users : dvCall[v] = Dev!Quiet
  PROVE  /\ dvCall'[u] = [what |-> w, todo |-> t, err |-> FALSE] /\ Calls(dvCall')
         /\ \A v \in Users \ {u} : dvCall'[v] = Dev!Quiet
  BY DEF Dev!Starts, Calls

LEMMA LifeIs ==
  ASSUME Dev!DevicesAssumption, dvKind \in Kinds
  PROVE  Dev!Life.open \in Starting /\ Dev!Life.close \in Stopping
  <1>1. dvKind \in {"led", "buzzer", "infrared", "timer", "pwmc", "serial", "gpio",
                    "gpio_group", "analog", "rtc", "wdt", "flash"}
    BY DEF Dev!DevicesAssumption
  <1>2. CASE dvKind = "led"
    <2>1. Dev!Life = Dev!LedLife
      BY <1>2 DEF Dev!Life
    <2>. QED  BY <2>1 DEF Dev!LedLife, Starting, Stopping, Init0, Down
  <1>3. CASE dvKind = "buzzer"
    <2>1. Dev!Life = Dev!BuzzerLife
      BY <1>3 DEF Dev!Life
    <2>. QED  BY <1>3, <2>1 DEF Dev!BuzzerLife, Starting, Stopping, Init0, Down
  <1>4. CASE dvKind \notin {"led", "buzzer"}
    <2>1. Dev!Life = Dev!Plain
      BY <1>1, <1>4 DEF Dev!Life, Dev!InfraredLife, Dev!TimerLife, Dev!PwmcLife, Dev!SerialLife,
           Dev!GpioLife, Dev!GroupLife, Dev!AnalogLife, Dev!RtcLife, Dev!WdtLife, Dev!FlashLife
    <2>. QED  BY <2>1 DEF Dev!Plain, Starting, Stopping, Init0, Down
  <1>. QED  BY <1>2, <1>3, <1>4

LEMMA OpenKeeps ==
  ASSUME NEW u \in Users, Dev!DevicesAssumption, Orderly, DvInv, Dev!Open(u)
  PROVE  DvInv'
  <1>1. (\A v \in Users : dvCall[v] = Dev!Quiet) /\ Still(dv, dvHeld)
    BY NobodyBusy DEF Dev!Open
  <1>2. PICK t : t = IF dv.start THEN <<>> ELSE Dev!Life.open
    OBVIOUS
  <1>3. Dev!Starts(u, "open", t) /\ Calls(dvCall)
    BY <1>2 DEF Dev!Open, DvInv
  <1>4. /\ dvCall'[u] = [what |-> "open", todo |-> t, err |-> FALSE] /\ Calls(dvCall')
        /\ \A v \in Users \ {u} : dvCall'[v] = Dev!Quiet
    BY <1>1, <1>3, Begins
  <1>5. dvKind' = dvKind /\ dv' = dv /\ dvHeld' = dvHeld /\ dvAsked' = dvAsked /\ u \notin dvHeld
    BY DEF Dev!Open
  <1>6. PICK c : c = [what |-> "open", todo |-> t, err |-> FALSE]
    OBVIOUS
  <1>7. Opened(dv, c, dvHeld)
    <2>1. CASE dv.start
      BY <1>1, <1>2, <1>6, <2>1 DEF Opened, Still
    <2>2. CASE ~dv.start
      <3>1. c.todo \in Starting /\ ~c.err
        BY <1>2, <1>6, <2>2, LifeIs DEF DvInv
      <3>. QED  BY <1>1, <2>2, <3>1 DEF Opened, Still
    <2>. QED  BY <2>1, <2>2
  <1>8. Going(dv, u, c, dvHeld)
    BY <1>5, <1>6, <1>7 DEF Going
  <1>9. Going(dv, u, dvCall[u], dvHeld)'
    BY <1>4, <1>5, <1>6, <1>8 DEF Going, Commanded, Opened, Starting, Closed
  <1>10. Alone(dv, dvCall, dvHeld)'
    BY <1>4, <1>9 DEF Alone, Dev!Quiet
  <1>11. dvKind' \in Kinds /\ Sound(dv', dvHeld') /\ Holders(dvHeld') /\ Blinking(dv, dvAsked)'
    BY <1>5 DEF DvInv, Blinking
  <1>. QED  BY <1>4, <1>10, <1>11 DEF DvInv

LEMMA CloseKeeps ==
  ASSUME NEW u \in Users, Dev!DevicesAssumption, Orderly, DvInv, Dev!Close(u)
  PROVE  DvInv'
  <1>1. (\A v \in Users : dvCall[v] = Dev!Quiet) /\ Still(dv, dvHeld)
    BY NobodyBusy DEF Dev!Close
  <1>2. u \in dvHeld /\ dvHeld' = dvHeld \ {u} /\ dvKind' = dvKind /\ dvAsked' = dvAsked
    BY DEF Dev!Close
  <1>3. dv.up /\ dv.start
    BY <1>1, <1>2 DEF Still
  <1>4. /\ dv \in Fields /\ ~dv.abused /\ dv.users = Cardinality(dvHeld) /\ IsFiniteSet(dvHeld)
        /\ dvHeld \subseteq Users /\ Blinking(dv, dvAsked)
    BY DEF DvInv, Sound, Holders
  <1>5. IsFiniteSet(dvHeld') /\ Cardinality(dvHeld') = Cardinality(dvHeld) - 1
    BY <1>2, <1>4, FS_RemoveElement
  <1>6. Cardinality(dvHeld') \in Nat /\ (Cardinality(dvHeld') = 0 <=> dvHeld' = {})
    BY <1>5, FS_CardinalityType, FS_EmptySet
  <1>7. dv.users # 0 /\ dv.users \in Nat
    BY <1>4, <1>5, <1>6 DEF Fields
  <1>8. dv' = [dv EXCEPT !.users = @ - 1]
    BY <1>7 DEF Dev!Close
  <1>9. /\ dv' \in Fields /\ dv'.users = Cardinality(dvHeld') /\ ~dv'.abused /\ dv'.up /\ dv'.start
        /\ dv'.count = dv.count
    BY <1>3, <1>4, <1>5, <1>7, <1>8 DEF Fields
  <1>10. PICK w, t : /\ w = IF dv'.users = 0 THEN "close" ELSE "leave"
                     /\ t = IF dv'.users = 0 /\ dv.start THEN Dev!Life.close ELSE <<>>
    OBVIOUS
  <1>11. Dev!Starts(u, w, t) /\ Calls(dvCall)
    BY <1>10 DEF Dev!Close, DvInv
  <1>12. PICK c : c = [what |-> w, todo |-> t, err |-> FALSE]
    OBVIOUS
  <1>13. /\ dvCall'[u] = c /\ Calls(dvCall')
         /\ \A v \in Users \ {u} : dvCall'[v] = Dev!Quiet
    BY <1>1, <1>11, <1>12, Begins
  <1>14. Going(dv', u, c, dvHeld')
    <2>1. CASE dv'.users = 0
      <3>1. w = "close" /\ t \in Stopping
        BY <1>3, <1>10, <2>1, LifeIs DEF DvInv
      <3>2. Closed(dv', c, dvHeld')
        BY <1>6, <1>9, <1>12, <2>1, <3>1 DEF Closed
      <3>. QED  BY <1>12, <3>1, <3>2 DEF Going
    <2>2. CASE dv'.users # 0
      <3>1. w = "leave" /\ t = <<>> /\ dvHeld' # {}
        BY <1>6, <1>9, <1>10, <2>2
      <3>. QED  BY <1>9, <1>12, <3>1 DEF Going
    <2>. QED  BY <2>1, <2>2
  <1>15. Going(dv, u, dvCall[u], dvHeld)'
    BY <1>2, <1>13, <1>14 DEF Going, Commanded, Opened, Starting, Closed
  <1>16. Alone(dv, dvCall, dvHeld)'
    BY <1>13, <1>15 DEF Alone, Dev!Quiet
  <1>17. Blinking(dv, dvAsked)'
    BY <1>2, <1>4, <1>9 DEF Blinking, Told
  <1>18. dvKind' \in Kinds /\ Sound(dv', dvHeld') /\ Holders(dvHeld')
    BY <1>2, <1>4, <1>5, <1>9 DEF DvInv, Sound, Holders
  <1>. QED  BY <1>13, <1>16, <1>17, <1>18 DEF DvInv

LEMMA CommandKeeps ==
  ASSUME NEW u \in Users, NEW cmd \in Dev!Commands, Dev!DevicesAssumption, Orderly, DvInv,
         Dev!Command(u, cmd)
  PROVE  DvInv'
  <1>1. (\A v \in Users : dvCall[v] = Dev!Quiet) /\ Still(dv, dvHeld)
    BY NobodyBusy DEF Dev!Command
  <1>2. PICK t : t = Dev!Ioctl(cmd)
    OBVIOUS
  <1>3. Dev!Starts(u, "ioctl", t) /\ Calls(dvCall)
    BY <1>2 DEF Dev!Command, DvInv
  <1>4. PICK c : c = [what |-> "ioctl", todo |-> t, err |-> FALSE]
    OBVIOUS
  <1>5. /\ dvCall'[u] = c /\ Calls(dvCall')
        /\ \A v \in Users \ {u} : dvCall'[v] = Dev!Quiet
    BY <1>1, <1>3, <1>4, Begins
  <1>6. dvKind' = dvKind /\ dv' = dv /\ dvHeld' = dvHeld /\ dvAsked' = dvAsked /\ u \in dvHeld
    BY DEF Dev!Command
  <1>7. dv.up /\ dv.start /\ dvHeld # {}
    BY <1>1, <1>6 DEF Still
  <1>8. dv.count \in Nat \cup {Forever} /\ dvKind \in Kinds
    BY DEF DvInv, Sound, Fields, Amount
  <1>9. Shape(t) /\ (dvKind = "led" => t \in Seq(Simple))
    BY <1>2, <1>8, IoctlIs
  <1>10. Commanded(dv, t)
    BY <1>7, <1>9 DEF Commanded, Shape
  <1>11. Going(dv, u, c, dvHeld)
    BY <1>4, <1>7, <1>10 DEF Going
  <1>12. Going(dv, u, dvCall[u], dvHeld)'
    BY <1>5, <1>6, <1>11 DEF Going, Commanded, Opened, Starting, Closed
  <1>13. Alone(dv, dvCall, dvHeld)'
    BY <1>5, <1>12 DEF Alone, Dev!Quiet
  <1>14. dvKind' \in Kinds /\ Sound(dv', dvHeld') /\ Holders(dvHeld') /\ Blinking(dv, dvAsked)'
    BY <1>6 DEF DvInv, Blinking
  <1>. QED  BY <1>5, <1>13, <1>14 DEF DvInv

LEMMA ReturnKeeps ==
  ASSUME NEW u \in Users, DvInv, Dev!Return(u)
  PROVE  DvInv'
  <1>1. PICK c : c = dvCall[u]
    OBVIOUS
  <1>2. c # Dev!Quiet /\ c.todo = <<>> /\ dvKind' = dvKind /\ dvAsked' = dvAsked
    BY <1>1 DEF Dev!Return
  <1>3. Going(dv, u, c, dvHeld) /\ \A v \in Users \ {u} : dvCall[v] = Dev!Quiet
    BY <1>1, <1>2, OnlyTheCaller
  <1>4. /\ dvCall = [v \in Users |-> dvCall[v]] /\ dv \in Fields /\ ~dv.abused
        /\ dv.users = Cardinality(dvHeld) /\ IsFiniteSet(dvHeld) /\ dvHeld \subseteq Users
        /\ Blinking(dv, dvAsked)
    BY DEF DvInv, Calls, Sound, Holders
  <1>5. Calls(dvCall') /\ \A v \in Users : dvCall'[v] = Dev!Quiet
    BY <1>3, <1>4 DEF Dev!Return, Calls
  <1>6. /\ Sound(dv', dvHeld') /\ dv'.count = dv.count /\ Holders(dvHeld')
        /\ Still(dv', dvHeld')
    <2>1. CASE c.what = "open" /\ ~c.err
      <3>1. dv' = [dv EXCEPT !.start = TRUE, !.users = @ + 1] /\ dvHeld' = dvHeld \cup {u}
        BY <1>1, <2>1 DEF Dev!Return
      <3>2. u \notin dvHeld /\ Opened(dv, c, dvHeld)
        BY <1>3, <2>1 DEF Going
      <3>3. dv.up
        BY <1>2, <2>1, <3>2 DEF Opened, Starting
      <3>4. IsFiniteSet(dvHeld') /\ Cardinality(dvHeld') = Cardinality(dvHeld) + 1
        BY <1>4, <3>1, <3>2, FS_AddElement
      <3>5. /\ dv' \in Fields /\ dv'.users = dv.users + 1 /\ ~dv'.abused /\ dv'.up /\ dv'.start
            /\ dv'.count = dv.count
        <4>1. PICK n \in Nat : n = dv.users + 1
          BY <1>4 DEF Fields
        <4>2. dv' = [dv EXCEPT !.start = TRUE, !.users = n]
          BY <3>1, <4>1
        <4>. QED  BY <1>4, <3>3, <4>1, <4>2 DEF Fields
      <3>. QED  BY <1>4, <3>1, <3>4, <3>5 DEF Sound, Holders, Still
    <2>2. CASE c.what = "open" /\ c.err
      <3>1. dv' = dv /\ dvHeld' = dvHeld
        BY <1>1, <2>2 DEF Dev!Return
      <3>2. dvHeld = {} /\ ~dv.start /\ ~dv.up
        BY <1>3, <2>2 DEF Going, Opened
      <3>. QED  BY <1>4, <3>1, <3>2 DEF Sound, Holders, Still
    <2>3. CASE c.what = "close"
      <3>1. dv' = [dv EXCEPT !.start = FALSE] /\ dvHeld' = dvHeld
        BY <1>1, <2>3 DEF Dev!Return
      <3>2. dvHeld = {} /\ ~dv.up
        BY <1>2, <1>3, <2>3 DEF Going, Closed, Stopping
      <3>3. dv' \in Fields /\ dv'.users = dv.users /\ ~dv'.abused /\ ~dv'.up /\ ~dv'.start
            /\ dv'.count = dv.count
        BY <1>4, <3>1, <3>2 DEF Fields
      <3>. QED  BY <1>4, <3>1, <3>2, <3>3 DEF Sound, Holders, Still
    <2>4. CASE c.what \in {"leave", "ioctl"}
      <3>1. dv' = dv /\ dvHeld' = dvHeld
        BY <1>1, <2>4 DEF Dev!Return
      <3>2. dvHeld # {} /\ dv.start /\ dv.up
        BY <1>2, <1>3, <2>4 DEF Going, Commanded, Reinit1
      <3>. QED  BY <1>4, <3>1, <3>2 DEF Sound, Holders, Still
    <2>. QED  BY <1>3, <2>1, <2>2, <2>3, <2>4 DEF Going
  <1>7. Alone(dv, dvCall, dvHeld)'
    BY <1>5, <1>6 DEF Alone, Still, Dev!Quiet
  <1>8. Blinking(dv, dvAsked)'
    BY <1>2, <1>4, <1>6 DEF Blinking, Told
  <1>9. dvKind' \in Kinds
    BY <1>2 DEF DvInv
  <1>. QED  BY <1>5, <1>6, <1>7, <1>8, <1>9 DEF DvInv

\* While somebody has an output open the hardware is up, whatever call is under way.
LEMMA UpAtATick ==
  ASSUME NEW ok \in BOOLEAN, Orderly, DvInv, Dev!Tick(ok)
  PROVE  dv.up
  <1>1. /\ dv.users = Cardinality(dvHeld) /\ IsFiniteSet(dvHeld) /\ dv.users > 0
        /\ dvKind \in {"led", "buzzer"} /\ (Dev!Busy = {} \/ dvKind \in Interrupted)
    BY DEF DvInv, Sound, Holders, Dev!Tick
  <1>2. dvHeld # {}
    BY <1>1, FS_EmptySet
  <1>3. CASE Dev!Busy = {}
    BY <1>2, <1>3, NobodyBusy DEF Still
  <1>4. CASE dvKind \in Interrupted
    <2>1. dvKind = "led"
      BY <1>1, <1>4 DEF Orderly
    <2>2. ASSUME NEW u \in Users, Going(dv, u, dvCall[u], dvHeld)
          PROVE  dv.up
      BY <1>2, <2>1, <2>2 DEF Going, Commanded, Opened, Closed
    <2>. QED  BY <1>2, <2>2 DEF DvInv, Alone, Still
  <1>. QED  BY <1>1, <1>3, <1>4

LEMMA TickKeeps ==
  ASSUME NEW ok \in BOOLEAN, Dev!DevicesAssumption, Orderly, DvInv, Dev!Tick(ok)
  PROVE  DvInv'
  <1>1. dv.up
    BY UpAtATick
  <1>2. dv \in Fields /\ ~dv.abused /\ Blinking(dv, dvAsked) /\ dvKind # "infrared"
    BY DEF DvInv, Sound, Dev!Tick
  <1>3. Told(dv.count, dvAsked) /\ Forever \notin Nat
    BY <1>2 DEF Blinking, Dev!DevicesAssumption
  <1>4. dvKind' = dvKind /\ dvHeld' = dvHeld /\ dvCall' = dvCall
    BY DEF Dev!Tick
  <1>5. dv' = Dev!Toggled(ok)
    BY DEF Dev!Tick
  <1>6. dvAsked' = IF dv'.out # dv.out /\ dvAsked.count # Forever
                   THEN [dvAsked EXCEPT !.changes = @ + 1] ELSE dvAsked
    BY DEF Dev!Tick
  <1>7. Alike(dv, dv') /\ Told(dv'.count, dvAsked')
    <2>1. CASE dv.ms = 0 \/ dv.count = 0 \/ ~ok
      <3>1. dv' = dv
        BY <1>5, <2>1 DEF Dev!Toggled
      <3>2. dvAsked' = dvAsked
        BY <1>6, <3>1
      <3>. QED  BY <1>2, <1>3, <3>1, <3>2 DEF Alike
    <2>2. CASE ~(dv.ms = 0 \/ dv.count = 0 \/ ~ok)
      <3>1. PICK n : n = IF dv.count = Forever THEN dv.count ELSE dv.count - 1
        OBVIOUS
      <3>2. dv' = [dv EXCEPT !.out = 1 - @, !.abused = @ \/ ~dv.up, !.count = n]
        BY <1>5, <2>2, <3>1 DEF Dev!Toggled
      <3>3. n \in Amount
        BY <1>2, <2>2, <3>1 DEF Fields, Amount
      <3>4. dv.out \in {0, 1} /\ 1 - dv.out \in {0, 1} /\ 1 - dv.out # dv.out
        BY <1>2 DEF Fields
      <3>5. PICK o, a : o = 1 - dv.out /\ a = (dv.abused \/ ~dv.up)
        OBVIOUS
      <3>6. a = FALSE
        BY <1>1, <1>2, <3>5
      <3>7. dv' = [dv EXCEPT !.out = o, !.abused = FALSE, !.count = n]
        BY <3>2, <3>5, <3>6
      <3>8. Alike(dv, dv') /\ dv'.out = o /\ dv'.count = n
        BY <1>2, <3>3, <3>4, <3>5, <3>7 DEF Alike, Fields
      <3>9. dvAsked' = IF dvAsked.count # Forever THEN [dvAsked EXCEPT !.changes = @ + 1] ELSE dvAsked
        BY <1>6, <3>4, <3>5, <3>8
      <3>10. Told(n, dvAsked')
        <4>1. CASE dvAsked.count = Forever
          <5>1. dv.count = Forever /\ n = Forever /\ dvAsked' = dvAsked
            BY <1>3, <3>1, <3>9, <4>1 DEF Told
          <5>. QED  BY <1>3, <4>1, <5>1 DEF Told
        <4>2. CASE dvAsked.count # Forever
          <5>1. dv.count \in Nat /\ dvAsked.changes \in Nat /\ dv.count + dvAsked.changes = dvAsked.count
            BY <1>3, <4>2 DEF Told
          <5>2. n \in Nat /\ n + (dvAsked.changes + 1) = dvAsked.count
            BY <1>3, <2>2, <3>1, <5>1
          <5>3. dvAsked'.count = dvAsked.count /\ dvAsked'.changes = dvAsked.changes + 1
            BY <3>9, <4>2
          <5>. QED  BY <4>2, <5>1, <5>2, <5>3 DEF Told
        <4>. QED  BY <4>1, <4>2
      <3>. QED  BY <3>8, <3>10
    <2>. QED  BY <2>1, <2>2
  <1>8. dv'.up = dv.up /\ dv'.start = dv.start /\ Sound(dv', dvHeld')
    BY <1>2, <1>4, <1>7 DEF Alike, DvInv, Sound
  <1>9. Blinking(dv, dvAsked)'
    BY <1>2, <1>4, <1>7 DEF Blinking, Told
  <1>10. ASSUME NEW u \in Users, Going(dv, u, dvCall[u], dvHeld)
         PROVE  Going(dv, u, dvCall[u], dvHeld)'
    BY <1>4, <1>8, <1>10 DEF Going, Commanded, Opened, Starting, Closed
  <1>11. Still(dv, dvHeld) => Still(dv, dvHeld)'
    BY <1>4, <1>8 DEF Still
  <1>12. Alone(dv, dvCall, dvHeld)'
    BY <1>4, <1>10, <1>11 DEF DvInv, Alone, Dev!Quiet
  <1>13. dvKind' \in Kinds /\ Holders(dvHeld') /\ Calls(dvCall')
    BY <1>4 DEF DvInv
  <1>. QED  BY <1>8, <1>9, <1>12, <1>13 DEF DvInv

-----------------------------------------------------------------------------
(* The invariant of the composition                                        *)

LEMMA DvInvInit ==
  ASSUME Dev!DevicesAssumption, Dev!DvInit
  PROVE  DvInv
  <1>1. PICK f : f = CHOOSE g \in Freqs : TRUE
    OBVIOUS
  <1>2. f \in Freqs
    BY <1>1 DEF Dev!DevicesAssumption
  <1>3. dv = [users |-> 0, start |-> FALSE, up |-> FALSE, out |-> 0, ms |-> 0, count |-> 0,
              freq |-> f, irq |-> FALSE, abused |-> FALSE]
    BY <1>1 DEF Dev!DvInit
  <1>4. dv \in Fields /\ dv.users = 0 /\ ~dv.abused /\ ~dv.up /\ ~dv.start /\ dv.count = 0
    BY <1>2, <1>3 DEF Fields, Amount
  <1>5. dvHeld = {} /\ dvKind \in Kinds /\ dvCall = [u \in Users |-> Dev!Quiet]
        /\ dvAsked = [count |-> 0, changes |-> 0]
    BY DEF Dev!DvInit
  <1>6. Sound(dv, dvHeld) /\ Holders(dvHeld)
    BY <1>4, <1>5, FS_EmptySet DEF Sound, Holders
  <1>7. Blinking(dv, dvAsked)
    BY <1>4, <1>5 DEF Blinking, Told, Dev!DevicesAssumption
  <1>8. Calls(dvCall) /\ Alone(dv, dvCall, dvHeld)
    BY <1>4, <1>5 DEF Calls, Alone, Still
  <1>. QED  BY <1>5, <1>6, <1>7, <1>8 DEF DvInv

LEMMA DvInvStep ==
  ASSUME Dev!DevicesAssumption, Orderly, DvInv, Dev!DvNext
  PROVE  DvInv'
  <1>1. ASSUME NEW u \in Users, Dev!Open(u) \/ Dev!Close(u) \/ Dev!Return(u)
        PROVE  DvInv'
    BY <1>1, OpenKeeps, CloseKeeps, ReturnKeeps
  <1>2. ASSUME NEW u \in Users, NEW cmd \in Dev!Commands, Dev!Command(u, cmd)
        PROVE  DvInv'
    BY <1>2, CommandKeeps
  <1>3. ASSUME NEW u \in Users, NEW ok \in BOOLEAN, Dev!Step(u, ok)
        PROVE  DvInv'
    BY <1>3, StepKeeps
  <1>4. ASSUME NEW ok \in BOOLEAN, Dev!Tick(ok)
        PROVE  DvInv'
    BY <1>4, TickKeeps
  <1>. QED  BY <1>1, <1>2, <1>3, <1>4 DEF Dev!DvNext

\* Nothing but its own actions changes a device.
LEMMA StepOfDevices == [Next]_vars => Dev!DvNext \/ UNCHANGED dvVars
  BY DEF Next, Others, vars

LEMMA DvInvSame ==
  ASSUME DvInv, UNCHANGED dvVars
  PROVE  DvInv'
  <1>1. dvKind' = dvKind /\ dv' = dv /\ dvHeld' = dvHeld /\ dvCall' = dvCall /\ dvAsked' = dvAsked
    BY DEF dvVars
  <1>. QED  BY <1>1 DEF DvInv, Blinking, Alone, Going, Commanded, Opened, Starting, Closed, Still,
                        Dev!Quiet

LEMMA SameCardinality == \A S : Dev!Cardinality(S) = Cardinality(S)
  BY DEF Dev!Cardinality, Cardinality

LEMMA DvInvKeeps ==
  ASSUME Dev!DevicesAssumption, DvInv
  PROVE  Dev!DvTypeOK /\ Dev!UpWhileHeld /\ Dev!BlinksAsAsked
  <1>1. /\ dv \in Fields /\ ~dv.abused /\ dv.users = Cardinality(dvHeld) /\ dvHeld \subseteq Users
        /\ dvKind \in Kinds /\ Blinking(dv, dvAsked)
    BY DEF DvInv, Sound, Holders
  <1>2. Dev!DvTypeOK
    BY <1>1 DEF Fields, Dev!DvTypeOK
  <1>3. Dev!UpWhileHeld
    <2>1. ASSUME Dev!Busy = {}
          PROVE  Still(dv, dvHeld)
      <3>1. \A v \in Users : dvCall[v] = Dev!Quiet
        BY <2>1 DEF Dev!Busy
      <3>2. ASSUME NEW u \in Users
            PROVE  ~Going(dv, u, dvCall[u], dvHeld)
        BY <3>1 DEF Going, Dev!Quiet
      <3>. QED  BY <3>2 DEF DvInv, Alone
    <2>2. dv.up \in BOOLEAN /\ dv.start \in BOOLEAN
      BY <1>1 DEF Fields
    <2>3. ASSUME Dev!Busy = {}
          PROVE  dv.up = (dvHeld # {}) /\ dv.start = dv.up
      <3>1. CASE dvHeld = {}
        <4>1. dv.up = FALSE /\ dv.start = FALSE
          BY <2>1, <2>2, <2>3, <3>1 DEF Still
        <4>. QED  BY <3>1, <4>1
      <3>2. CASE dvHeld # {}
        <4>1. dv.up = TRUE /\ dv.start = TRUE
          BY <2>1, <2>2, <2>3, <3>2 DEF Still
        <4>. QED  BY <3>2, <4>1
      <3>. QED  BY <3>1, <3>2
    <2>4. dv.users = Dev!Cardinality(dvHeld)
      BY <1>1, SameCardinality
    <2>. QED  BY <1>1, <2>3, <2>4 DEF Dev!UpWhileHeld
  <1>4. Dev!BlinksAsAsked
    BY <1>1 DEF Blinking, Told, Dev!BlinksAsAsked, Dev!DevicesAssumption
  <1>. QED  BY <1>2, <1>3, <1>4

-----------------------------------------------------------------------------
(* device.c and the drivers over hooks: while users do not preempt each    *)
(* other and a new frequency can be set, whatever is opened, closed and    *)
(* commanded by whom, whichever hooks fail, and wherever the tick of a led *)
(* comes, the hardware is up exactly while somebody has the device open,   *)
(* no hook is called while it is down, and a blink of n toggles changes    *)
(* the output n times.                                                     *)
THEOREM DevicesAreKept == Orderly => (Spec => []DevicesKept)
  <1>. SUFFICES ASSUME Orderly
                PROVE  Spec => []DevicesKept
    OBVIOUS
  <1>1. Dev!DevicesAssumption
    BY PartsAssumption
  <1>2. Init => DvInv
    BY <1>1, DvInvInit DEF Init
  <1>3. DvInv /\ [Next]_vars => DvInv'
    BY <1>1, StepOfDevices, DvInvStep, DvInvSame
  <1>4. DvInv => DevicesKept
    BY <1>1, DvInvKeeps DEF DevicesKept
  <1>. QED  BY <1>2, <1>3, <1>4, PTL DEF Spec
=============================================================================
