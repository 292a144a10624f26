---------------------------- MODULE Services_proofs ----------------------------
(***************************************************************************)
(* What is proved of the services: a press of a key is told as one story,  *)
(* the clicks of a button are counted, a name finds its resource, a reader *)
(* of an account what was committed last, and lists stay linked.  A part's *)
(* invariant is one of the composition, for the other parts leave its      *)
(* variables alone.                                                        *)
(***************************************************************************)
EXTENDS Services, SequenceTheorems, WellFoundedInduction, TLAPS

-----------------------------------------------------------------------------
(* Keys: what a press has told so far                                      *)

Clicks == {"short_clicked", "clicked"}
KeyEvents == {"pressed", "pressing", "long_pressed", "released", "short_clicked", "clicked"}

NoLong(e) == \A i \in 1 .. Len(e) : e[i] # "long_pressed"
LongOnce(e) == \A i, j \in 1 .. Len(e) : e[i] = "long_pressed" /\ e[j] = "long_pressed" => i = j
PressedFirst(e) == \A i \in 1 .. Len(e) : e[i] = "pressed" <=> i = 1

\* A press that goes on, and one that is over.
Open(e) == /\ e \in Seq(KeyEvents) /\ Len(e) > 0 /\ PressedFirst(e) /\ LongOnce(e)
           /\ \A i \in 1 .. Len(e) : e[i] \notin Clicks /\ e[i] # "released"
Closed(e) == /\ e \in Seq(KeyEvents) /\ Len(e) > 1 /\ PressedFirst(e) /\ LongOnce(e)
             /\ \A i \in 1 .. Len(e) : /\ e[i] \in Clicks <=> i = Len(e) - 1
                                       /\ e[i] = "released" <=> i = Len(e)
             /\ NoLong(e) \/ e[Len(e) - 1] = "clicked"

LEMMA EventsAre ==
  /\ {"pressed", "pressing", "long_pressed", "released"} \subseteq KeyEvents
  /\ Clicks \subseteq KeyEvents
  /\ \A c \in Clicks : c = "short_clicked" \/ c = "clicked"
  /\ {"pressed", "pressing", "long_pressed", "released"} \cap Clicks = {}
  BY DEF KeyEvents, Clicks

\* One more event.
LEMMA Told ==
  ASSUME NEW e \in Seq(KeyEvents), NEW x \in KeyEvents, NEW f, f = e \o <<x>>
  PROVE  /\ f \in Seq(KeyEvents) /\ Len(e) \in Nat /\ Len(f) = Len(e) + 1
         /\ \A i \in 1 .. Len(e) : f[i] = e[i]
         /\ f[Len(f)] = x
  <1>1. PICK u \in Seq(KeyEvents) : u = <<x>>
    <2>1. <<x>> \in Seq(KeyEvents)
      OBVIOUS
    <2>. QED  BY <2>1
  <1>2. Len(u) = 1 /\ u[1] = x
    BY <1>1
  <1>3. f = e \o u
    BY <1>1
  <1>4. Len(e) \in Nat
    BY LenProperties
  <1>. QED  BY <1>2, <1>3, <1>4, ConcatProperties

LEMMA FirstTold == Open(<<"pressed">>) /\ NoLong(<<"pressed">>)
  <1>1. PICK u : u = <<"pressed">>
    OBVIOUS
  <1>2. Len(u) = 1 /\ u[1] = "pressed"
    BY <1>1
  <1>3. u \in Seq(KeyEvents)
    BY <1>1, EventsAre
  <1>4. PressedFirst(u) /\ LongOnce(u) /\ NoLong(u)
    BY <1>2 DEF PressedFirst, LongOnce, NoLong
  <1>5. Open(u)
    BY <1>2, <1>3, <1>4, EventsAre DEF Open
  <1>. QED  BY <1>1, <1>4, <1>5

LEMMA PressingTold ==
  ASSUME NEW e, Open(e), NEW f, f = e \o <<"pressing">>
  PROVE  Open(f) /\ (NoLong(e) => NoLong(f))
  <1>1. /\ f \in Seq(KeyEvents) /\ Len(e) \in Nat \ {0} /\ Len(f) = Len(e) + 1
        /\ \A i \in 1 .. Len(e) : f[i] = e[i]
        /\ f[Len(f)] = "pressing"
    <2>1. e \in Seq(KeyEvents) /\ Len(e) > 0
      BY DEF Open
    <2>. QED  BY <2>1, Told, EventsAre
  <1>2. \A i \in 1 .. Len(f) : i \in 1 .. Len(e) \/ i = Len(f)
    BY <1>1
  <1>3. PressedFirst(f)
    BY <1>1, <1>2 DEF Open, PressedFirst
  <1>4. LongOnce(f) /\ (NoLong(e) => NoLong(f))
    BY <1>1, <1>2 DEF Open, LongOnce, NoLong
  <1>5. \A i \in 1 .. Len(f) : f[i] \notin Clicks /\ f[i] # "released"
    BY <1>1, <1>2, EventsAre DEF Open
  <1>. QED  BY <1>1, <1>3, <1>4, <1>5 DEF Open

LEMMA LongTold ==
  ASSUME NEW e, Open(e), NoLong(e), NEW f, f = e \o <<"long_pressed">>
  PROVE  Open(f)
  <1>1. /\ f \in Seq(KeyEvents) /\ Len(e) \in Nat \ {0} /\ Len(f) = Len(e) + 1
        /\ \A i \in 1 .. Len(e) : f[i] = e[i]
        /\ f[Len(f)] = "long_pressed"
    <2>1. e \in Seq(KeyEvents) /\ Len(e) > 0
      BY DEF Open
    <2>. QED  BY <2>1, Told, EventsAre
  <1>2. \A i \in 1 .. Len(f) : i \in 1 .. Len(e) \/ i = Len(f)
    BY <1>1
  <1>3. PressedFirst(f)
    BY <1>1, <1>2 DEF Open, PressedFirst
  <1>4. LongOnce(f)
    BY <1>1, <1>2 DEF Open, LongOnce, NoLong
  <1>5. \A i \in 1 .. Len(f) : f[i] \notin Clicks /\ f[i] # "released"
    BY <1>1, <1>2, EventsAre DEF Open
  <1>. QED  BY <1>1, <1>3, <1>4, <1>5 DEF Open

LEMMA EndTold ==
  ASSUME NEW e, Open(e), NEW c \in Clicks, NoLong(e) \/ c = "clicked",
         NEW f, f = e \o <<c, "released">>
  PROVE  Closed(f)
  <1>1. PICK u \in Seq(KeyEvents) : u = <<c, "released">>
    <2>1. <<c, "released">> \in Seq(KeyEvents)
      BY EventsAre
    <2>. QED  BY <2>1
  <1>2. Len(u) = 2 /\ u[1] = c /\ u[2] = "released" /\ f = e \o u
    BY <1>1
  <1>3. e \in Seq(KeyEvents) /\ Len(e) \in Nat \ {0}
    BY LenProperties DEF Open
  <1>4. /\ f \in Seq(KeyEvents) /\ Len(f) = Len(e) + 2
        /\ \A i \in 1 .. Len(e) + 2 : f[i] = IF i <= Len(e) THEN e[i] ELSE u[i - Len(e)]
    BY <1>2, <1>3, ConcatProperties
  <1>5. /\ \A i \in 1 .. Len(e) : f[i] = e[i]
        /\ f[Len(e) + 1] = c /\ f[Len(e) + 2] = "released"
    BY <1>2, <1>3, <1>4
  <1>6. /\ c # "pressed" /\ c # "long_pressed" /\ c # "released"
        /\ "released" \notin Clicks
    BY EventsAre
  <1>7. \A i \in 1 .. Len(f) : i \in 1 .. Len(e) \/ i = Len(e) + 1 \/ i = Len(e) + 2
    BY <1>3, <1>4
  <1>8. PressedFirst(f)
    BY <1>3, <1>4, <1>5, <1>6, <1>7 DEF Open, PressedFirst
  <1>9. LongOnce(f)
    BY <1>3, <1>4, <1>5, <1>6, <1>7 DEF Open, LongOnce
  <1>10. \A i \in 1 .. Len(f) : /\ f[i] \in Clicks <=> i = Len(f) - 1
                                /\ f[i] = "released" <=> i = Len(f)
    BY <1>3, <1>4, <1>5, <1>6, <1>7 DEF Open
  <1>11. NoLong(f) \/ f[Len(f) - 1] = "clicked"
    BY <1>3, <1>4, <1>5, <1>6, <1>7 DEF NoLong
  <1>. QED  BY <1>3, <1>4, <1>8, <1>9, <1>10, <1>11 DEF Closed

-----------------------------------------------------------------------------
(* The inductive invariant of a key: a sample is believed when the next    *)
(* one is equal, a long press is told when, and only when, it lasts for    *)
(* the limit, and so a click after it is no short one.                     *)

Key == [pressed : BOOLEAN, last : BOOLEAN, since : Nat, read : Nat, long : BOOLEAN, limit : Nat]

KeyTypeOK == /\ key \in Key /\ keyPin \in BOOLEAN /\ keyNow \in Nat
             /\ keySamples \in BOOLEAN \X BOOLEAN
SamplesOk == /\ key.last = keySamples[2]
             /\ keySamples[1] = keySamples[2] => key.pressed = keySamples[2]
LongOk == /\ key.pressed => key.since <= keyNow
          /\ key.long => key.pressed /\ keyNow >= key.since + key.limit
StoryOk == /\ key.pressed => Open(keyEvents) /\ (key.long \/ NoLong(keyEvents))
           /\ ~ key.pressed => keyEvents = <<>> \/ Closed(keyEvents)
KeyInv == KeyTypeOK /\ SamplesOk /\ LongOk /\ StoryOk

LEMMA LeastTime ==
  ASSUME NEW S \in SUBSET Nat, S # {}
  PROVE  (CHOOSE t \in S : \A u \in S : t <= u) \in S
  <1>. DEFINE Less == OpToRel(<, Nat)
  <1>1. IsWellFoundedOn(Less, Nat)
    BY NatLessThanWellFounded
  <1>2. \A y, x \in Nat : y < x => <<y, x>> \in Less
    BY DEF OpToRel
  <1>. HIDE DEF Less
  <1>3. PICK x \in S : \A y \in S : <<y, x>> \notin Less
    BY <1>1, WFMin
  <1>4. ASSUME NEW m \in S PROVE x <= m
    <2>1. ~ (m < x)
      BY <1>2, <1>3
    <2>. QED  BY <2>1
  <1>. QED  BY <1>4

LEMMA KeyBegins == K!KeyAssumption /\ K!KpInit => KeyInv
  <1>. SUFFICES ASSUME K!KeyAssumption, K!KpInit PROVE KeyInv
    OBVIOUS
  <1>. DEFINE least == CHOOSE t \in LongTimes : \A u \in LongTimes : t <= u
  <1>1. least \in LongTimes /\ LongTimes \subseteq Nat
    BY LeastTime DEF K!KeyAssumption
  <1>. HIDE DEF least
  <1>2. key = [pressed |-> FALSE, last |-> FALSE, since |-> 0, read |-> 0,
               long |-> FALSE, limit |-> least]
    BY DEF K!KpInit, least
  <1>3. key.pressed = FALSE /\ ~ key.long /\ key.last = FALSE /\ key \in Key
    BY <1>1, <1>2 DEF Key
  <1>4. keyPin = FALSE /\ keyNow = 0 /\ keyEvents = <<>> /\ keySamples = <<FALSE, FALSE>>
    BY DEF K!KpInit
  <1>5. KeyTypeOK
    BY <1>3, <1>4 DEF KeyTypeOK
  <1>6. SamplesOk
    <2>1. keySamples[1] = FALSE /\ keySamples[2] = FALSE
      BY <1>4
    <2>. QED  BY <1>3, <2>1, Zenon DEF SamplesOk
  <1>. QED  BY <1>3, <1>4, <1>5, <1>6 DEF KeyInv, LongOk, StoryOk

\* A sample that differs from the last one.
LEMMA KeyDiffers ==
  ASSUME KeyInv, key.last # keyPin, key' = [key EXCEPT !.last = keyPin],
         keySamples' = <<keySamples[2], keyPin>>, UNCHANGED <<keyEvents, keyPin, keyNow>>
  PROVE  KeyInv'
  <1>1. KeyTypeOK' /\ SamplesOk'
    BY DEF KeyInv, KeyTypeOK, Key, SamplesOk
  <1>2. /\ key'.pressed = key.pressed /\ key'.long = key.long
        /\ key'.since = key.since /\ key'.limit = key.limit
    BY DEF KeyInv, KeyTypeOK, Key
  <1>. QED  BY <1>1, <1>2 DEF KeyInv, LongOk, StoryOk

LEMMA KeyPress ==
  ASSUME KeyInv, key.last = keyPin, K!Press,
         keySamples' = <<keySamples[2], keyPin>>, UNCHANGED <<keyPin, keyNow>>
  PROVE  KeyInv'
  <1>1. KeyTypeOK' /\ SamplesOk'
    BY DEF K!Press, KeyInv, KeyTypeOK, Key, SamplesOk
  <1>2. key'.pressed /\ ~ key'.long /\ key'.since = keyNow
    BY DEF K!Press, KeyInv, KeyTypeOK, Key, LongOk
  <1>3. LongOk'
    BY <1>2 DEF KeyInv, KeyTypeOK, LongOk
  <1>4. StoryOk'
    BY <1>2, FirstTold DEF K!Press, StoryOk
  <1>. QED  BY <1>1, <1>3, <1>4 DEF KeyInv

LEMMA KeyHold ==
  ASSUME KeyInv, key.last = keyPin, K!Hold,
         keySamples' = <<keySamples[2], keyPin>>, UNCHANGED <<keyPin, keyNow>>
  PROVE  KeyInv'
  <1>. DEFINE held == keyNow - key.since
              told == held - key.read >= PressingPeriod
              long == held >= key.limit /\ ~ key.long
              mid == keyEvents \o (IF told THEN <<"pressing">> ELSE <<>>)
  <1>1. /\ key.pressed /\ keyPin
        /\ key' = [key EXCEPT !.read = IF told THEN held ELSE @, !.long = @ \/ long]
        /\ keyEvents' = mid \o (IF long THEN <<"long_pressed">> ELSE <<>>)
    BY DEF K!Hold, K!Held
  <1>2. held \in Nat
    BY <1>1 DEF KeyInv, KeyTypeOK, Key, LongOk
  <1>3. /\ key'.pressed /\ key'.since = key.since /\ key'.limit = key.limit /\ key'.last = key.last
        /\ key'.long = (key.long \/ long)
    BY <1>1 DEF KeyInv, KeyTypeOK, Key
  <1>4. KeyTypeOK'
    <2>1. (key.long \/ long) \in BOOLEAN /\ (IF told THEN held ELSE key.read) \in Nat
      BY <1>2 DEF KeyInv, KeyTypeOK, Key
    <2>. HIDE DEF held, told, long
    <2>. QED  BY <1>1, <2>1 DEF KeyInv, KeyTypeOK, Key
  <1>5. SamplesOk'
    BY <1>1, <1>3 DEF KeyInv, KeyTypeOK, SamplesOk
  <1>6. LongOk'
    <2>1. key.long => keyNow >= key.since + key.limit
      BY DEF KeyInv, LongOk
    <2>2. long => keyNow >= key.since + key.limit
      BY DEF KeyInv, KeyTypeOK, Key
    <2>3. key.since <= keyNow
      BY <1>1 DEF KeyInv, LongOk
    <2>. HIDE DEF long
    <2>. QED  BY <1>3, <2>1, <2>2, <2>3 DEF LongOk
  <1>7. StoryOk'
    <2>1. Open(keyEvents) /\ (key.long \/ NoLong(keyEvents)) /\ keyEvents \in Seq(KeyEvents)
      BY <1>1 DEF KeyInv, StoryOk, Open
    <2>2. Open(mid) /\ (key.long \/ NoLong(mid))
      <3>1. CASE told
        <4>1. mid = keyEvents \o <<"pressing">>
          BY <3>1
        <4>. HIDE DEF mid
        <4>. QED  BY <2>1, <4>1, PressingTold
      <3>2. CASE ~ told
        BY <2>1, <3>2, ConcatEmptySeq
      <3>. QED  BY <3>1, <3>2
    <2>. HIDE DEF mid
    <2>3. CASE long
      <3>1. keyEvents' = mid \o <<"long_pressed">> /\ ~ key.long
        BY <1>1, <2>3
      <3>2. Open(keyEvents')
        BY <2>2, <3>1, LongTold
      <3>. QED  BY <1>3, <2>3, <3>2 DEF StoryOk
    <2>4. CASE ~ long
      <3>. HIDE DEF long
      <3>1. mid \in Seq(KeyEvents)
        BY <2>2 DEF Open
      <3>2. keyEvents' = mid
        BY <1>1, <2>4, <3>1, ConcatEmptySeq
      <3>. QED  BY <1>3, <2>2, <2>4, <3>2 DEF StoryOk
    <2>. QED  BY <2>3, <2>4
  <1>. QED  BY <1>4, <1>5, <1>6, <1>7 DEF KeyInv

LEMMA KeyRelease ==
  ASSUME KeyInv, key.last = keyPin, K!Release,
         keySamples' = <<keySamples[2], keyPin>>, UNCHANGED <<keyPin, keyNow>>
  PROVE  KeyInv'
  <1>1. KeyTypeOK' /\ SamplesOk'
    BY DEF K!Release, KeyInv, KeyTypeOK, Key, SamplesOk
  <1>2. ~ key'.pressed /\ ~ key'.long
    BY DEF K!Release, KeyInv, KeyTypeOK, Key
  <1>3. LongOk'
    BY <1>2 DEF LongOk
  <1>4. StoryOk'
    <2>1. Open(keyEvents) /\ (key.long \/ NoLong(keyEvents))
      BY DEF K!Release, KeyInv, StoryOk
    <2>2. PICK c \in Clicks : c = K!Click
      BY DEF K!Click, Clicks
    <2>3. keyEvents' = keyEvents \o <<c, "released">>
      BY <2>2 DEF K!Release
    <2>4. key.long => c = "clicked"
      <3>1. SUFFICES ASSUME key.long PROVE c = "clicked"
        OBVIOUS
      <3>2. keyNow >= key.since + key.limit
        BY <3>1 DEF KeyInv, LongOk
      <3>3. ~ (keyNow - key.since < key.limit)
        BY <3>2 DEF KeyInv, KeyTypeOK, Key
      <3>. QED  BY <2>2, <3>3 DEF K!Click, K!Held
    <2>5. Closed(keyEvents')
      BY <2>1, <2>3, <2>4, EndTold
    <2>. QED  BY <1>2, <2>5 DEF StoryOk
  <1>. QED  BY <1>1, <1>3, <1>4 DEF KeyInv

LEMMA KeyNothing ==
  ASSUME KeyInv, key.last = keyPin, K!Nothing,
         keySamples' = <<keySamples[2], keyPin>>, UNCHANGED <<keyPin, keyNow>>
  PROVE  KeyInv'
  <1>1. KeyTypeOK' /\ SamplesOk'
    BY DEF K!Nothing, KeyInv, KeyTypeOK, Key, SamplesOk
  <1>. QED  BY <1>1 DEF K!Nothing, KeyInv, LongOk, StoryOk

LEMMA KeyStep ==
  ASSUME K!KeyAssumption, ~ ChangedInPress, KeyInv, [K!KpNext]_keyVars
  PROVE  KeyInv'
  <1>1. CASE K!Poll
    <2>1. keySamples' = <<keySamples[2], keyPin>> /\ UNCHANGED <<keyPin, keyNow>>
      BY <1>1 DEF K!Poll
    <2>2. CASE key.last # keyPin
      BY <1>1, <2>1, <2>2, KeyDiffers DEF K!Poll
    <2>3. CASE key.last = keyPin
      BY <1>1, <2>1, <2>3, KeyPress, KeyHold, KeyRelease, KeyNothing DEF K!Poll
    <2>. QED  BY <2>2, <2>3
  <1>2. CASE K!Move
    <2>1. UNCHANGED <<key, keyNow, keyEvents, keySamples>> /\ keyPin' \in BOOLEAN
      BY <1>2 DEF K!Move
    <2>. QED  BY <2>1 DEF KeyInv, KeyTypeOK, SamplesOk, LongOk, StoryOk
  <1>3. CASE K!Pass
    <2>1. UNCHANGED <<key, keyPin, keyEvents, keySamples>> /\ keyNow' = keyNow + 1
      BY <1>3 DEF K!Pass
    <2>2. KeyTypeOK' /\ SamplesOk' /\ StoryOk'
      BY <2>1 DEF KeyInv, KeyTypeOK, SamplesOk, StoryOk
    <2>3. keyNow \in Nat /\ key.since \in Nat /\ key.limit \in Nat
      BY DEF KeyInv, KeyTypeOK, Key
    <2>4. key.since <= keyNow => key.since <= keyNow'
      BY <2>1, <2>3
    <2>5. keyNow >= key.since + key.limit => keyNow' >= key.since + key.limit
      BY <2>1, <2>3
    <2>6. LongOk'
      BY <2>1, <2>4, <2>5 DEF KeyInv, LongOk
    <2>. QED  BY <2>2, <2>6 DEF KeyInv
  <1>4. ASSUME NEW t \in LongTimes, K!SetLongPressingTime(t) PROVE KeyInv'
    <2>1. /\ ~ key.pressed /\ key' = [key EXCEPT !.limit = t] /\ t \in Nat
          /\ UNCHANGED <<keyPin, keyNow, keyEvents, keySamples>>
      BY <1>4 DEF K!SetLongPressingTime, K!KeyAssumption
    <2>2. /\ KeyTypeOK' /\ key'.pressed = key.pressed /\ key'.long = key.long
          /\ key'.last = key.last /\ key'.since = key.since
      BY <2>1 DEF KeyInv, KeyTypeOK, Key
    <2>. QED  BY <2>1, <2>2 DEF KeyInv, SamplesOk, LongOk, StoryOk
  <1>5. CASE UNCHANGED keyVars
    BY <1>5 DEF keyVars, KeyInv, KeyTypeOK, SamplesOk, LongOk, StoryOk
  <1>. QED  BY <1>1, <1>2, <1>3, <1>4, <1>5 DEF K!KpNext

LEMMA KeyTellsOneStory == KeyInv => K!PressIsOneStory
  <1>. SUFFICES ASSUME KeyInv PROVE K!PressIsOneStory
    OBVIOUS
  <1>. DEFINE n == Len(keyEvents)
              told(e) == {i \in 1 .. n : keyEvents[i] = e}
              clicks == told("short_clicked") \cup told("clicked")
  <1>0. SUFFICES ASSUME n > 0
                 PROVE  /\ told("pressed") = {1}
                        /\ \A i, j \in told("long_pressed") : i = j
                        /\ key.pressed => clicks = {} /\ told("released") = {}
                        /\ ~ key.pressed => clicks = {n - 1} /\ told("released") = {n}
                        /\ told("long_pressed") # {} => told("short_clicked") = {}
                        /\ \/ key.pressed = (keySamples[2] /\ keySamples[1])
                           \/ keySamples[1] # keySamples[2]
    BY DEF K!PressIsOneStory
  <1>1. \/ key.pressed = (keySamples[2] /\ keySamples[1])
        \/ keySamples[1] # keySamples[2]
    BY DEF KeyInv, KeyTypeOK, SamplesOk
  <1>2. CASE key.pressed
    <2>1. n \in Nat /\ Open(keyEvents)
      BY <1>2, LenProperties DEF KeyInv, StoryOk, Open
    <2>2. clicks = {} /\ told("released") = {}
      BY <2>1 DEF Open, Clicks
    <2>3. told("pressed") = {1}
      BY <1>0, <2>1 DEF Open, PressedFirst
    <2>4. \A i, j \in told("long_pressed") : i = j
      BY <2>1 DEF Open, LongOnce
    <2>. QED  BY <1>1, <1>2, <2>2, <2>3, <2>4
  <1>3. CASE ~ key.pressed
    <2>1. n \in Nat /\ Closed(keyEvents) /\ n - 1 \in 1 .. n
      <3>1. Closed(keyEvents)
        BY <1>0, <1>3, EmptySeq DEF KeyInv, StoryOk
      <3>. QED  BY <3>1, LenProperties DEF Closed
    <2>2. clicks = {n - 1} /\ told("released") = {n}
      BY <2>1 DEF Closed, Clicks
    <2>3. told("pressed") = {1}
      BY <1>0, <2>1 DEF Closed, PressedFirst
    <2>4. \A i, j \in told("long_pressed") : i = j
      BY <2>1 DEF Closed, LongOnce
    <2>5. told("long_pressed") # {} => told("short_clicked") = {}
      <3>1. SUFFICES ASSUME told("long_pressed") # {}, NEW i \in told("short_clicked") PROVE FALSE
        OBVIOUS
      <3>2. keyEvents[n - 1] = "clicked"
        BY <2>1, <3>1 DEF Closed, NoLong
      <3>3. i = n - 1
        BY <2>1, <3>1 DEF Closed, Clicks
      <3>. QED  BY <3>1, <3>2, <3>3
    <2>. QED  BY <1>1, <1>3, <2>2, <2>3, <2>4, <2>5
  <1>. QED  BY <1>2, <1>3

-----------------------------------------------------------------------------
(* Buttons: what one tick does to a button and to what is counted of it    *)

MbStates == {0, 1, 2, 3, 5}
MbEvents == {"none", "press_down", "press_up", "long_press_start", "long_press_hold",
             "single_click", "double_click"}
Button == [level : {0, 1}, debounce : Nat, ticks : Nat, state : MbStates, repeat : Nat]
History == [presses : Nat, unlike : Nat, changed : BOOLEAN, event : MbEvents, started : BOOLEAN]

\* The environment for which the clicks are counted: no button is initialised
\* while it is started, and no more presses follow each other than repeat counts.
Counting == ~ MbReinit /\ MaxPresses <= RepeatMod

DebounceOk(b, h) ==
  /\ b.debounce < DebounceTicks
  /\ h.unlike = b.debounce \/ (b.debounce = 0 /\ h.unlike = DebounceTicks)
  /\ h.changed => h.unlike = DebounceTicks
CountOk(b, h) ==
  /\ h.presses <= MaxPresses \/ h.presses <= 1
  /\ b.state # 0 => /\ h.presses >= 1
                    /\ b.repeat = IF h.presses < RepeatMod THEN h.presses ELSE 0
  /\ b.state = 2 => b.level = 0
EventOk(h) == /\ h.event = "single_click" => h.presses = 1
              /\ h.event = "double_click" => h.presses = 2
ButtonOk(b, h) == b \in Button /\ h \in History /\ DebounceOk(b, h) /\ CountOk(b, h) /\ EventOk(h)

\* The history of a button after a tick.
Heard(b, h, sample) ==
  LET event == B!Handler(b, sample).event
      before == IF b.state = 0 THEN 0 ELSE h.presses
  IN  [h EXCEPT
         !.event = event,
         !.changed = B!Debounced(B!Ticked(b), sample).level # b.level,
         !.presses = IF event = "press_down" THEN before + 1 ELSE before,
         !.unlike = IF sample = b.level THEN 0
                    ELSE IF h.unlike >= DebounceTicks THEN 1 ELSE @ + 1]

\* The tick counter, and the level after the sample.
LEMMA DebouncedIs ==
  ASSUME B!MultiButtonAssumption, NEW b \in Button, NEW h \in History, DebounceOk(b, h),
         NEW sample \in {0, 1}, NEW d, d = B!Debounced(B!Ticked(b), sample), NEW unlike,
         unlike = IF sample = b.level THEN 0
                  ELSE IF h.unlike >= DebounceTicks THEN 1 ELSE h.unlike + 1
  PROVE  /\ d \in Button /\ d.state = b.state /\ d.repeat = b.repeat
         /\ d.level \in {b.level, sample}
         /\ unlike \in Nat /\ d.debounce < DebounceTicks
         /\ unlike = d.debounce \/ (d.debounce = 0 /\ unlike = DebounceTicks)
         /\ d.level # b.level => unlike = DebounceTicks
  <1>. DEFINE c == B!Ticked(b)
  <1>1. /\ DebounceTicks \in Nat \ {0} /\ TickMod \in Nat \ {0}
    BY DEF B!MultiButtonAssumption
  <1>2. /\ c \in Button /\ c.level = b.level /\ c.debounce = b.debounce
        /\ c.state = b.state /\ c.repeat = b.repeat
    <2>1. (b.ticks + 1) % TickMod \in Nat
      BY <1>1 DEF Button
    <2>. QED  BY <2>1 DEF B!Ticked, Button
  <1>3. d = IF sample = c.level THEN [c EXCEPT !.debounce = 0]
            ELSE IF c.debounce + 1 >= DebounceTicks THEN [c EXCEPT !.level = sample, !.debounce = 0]
            ELSE [c EXCEPT !.debounce = @ + 1]
    BY DEF B!Debounced
  <1>. HIDE DEF c
  <1>4. b.debounce \in Nat /\ h.unlike \in Nat /\ b.level \in {0, 1}
    BY DEF Button, History
  <1>5. CASE sample = b.level
    <2>1. d = [c EXCEPT !.debounce = 0] /\ unlike = 0
      BY <1>2, <1>3, <1>5
    <2>2. /\ d \in Button /\ d.debounce = 0 /\ d.level = b.level
          /\ d.state = b.state /\ d.repeat = b.repeat
      BY <1>2, <2>1 DEF Button
    <2>. QED  BY <1>1, <2>1, <2>2
  <1>6. CASE sample # b.level /\ c.debounce + 1 >= DebounceTicks
    <2>1. d = [c EXCEPT !.level = sample, !.debounce = 0]
      BY <1>2, <1>3, <1>6
    <2>2. unlike = DebounceTicks
      BY <1>1, <1>2, <1>4, <1>6 DEF DebounceOk
    <2>3. /\ d \in Button /\ d.debounce = 0 /\ d.level = sample
          /\ d.state = b.state /\ d.repeat = b.repeat
      <3>1. PICK e \in Button : e = [c EXCEPT !.level = sample]
        BY <1>2 DEF Button
      <3>2. e.level = sample /\ e.state = c.state /\ e.repeat = c.repeat
        BY <1>2, <3>1 DEF Button
      <3>3. d = [e EXCEPT !.debounce = 0]
        BY <1>2, <2>1, <3>1 DEF Button
      <3>. QED  BY <1>2, <3>2, <3>3 DEF Button
    <2>. QED  BY <1>1, <2>2, <2>3
  <1>7. CASE sample # b.level /\ ~ (c.debounce + 1 >= DebounceTicks)
    <2>1. d = [c EXCEPT !.debounce = @ + 1]
      BY <1>2, <1>3, <1>7
    <2>2. /\ d \in Button /\ d.debounce = b.debounce + 1 /\ d.level = b.level
          /\ d.state = b.state /\ d.repeat = b.repeat
      BY <1>2, <1>4, <2>1 DEF Button
    <2>3. unlike = b.debounce + 1 /\ b.debounce + 1 < DebounceTicks
      BY <1>1, <1>2, <1>4, <1>7 DEF DebounceOk
    <2>4. unlike \in Nat /\ d.debounce < DebounceTicks /\ unlike = d.debounce
      BY <1>1, <1>4, <2>2, <2>3
    <2>. QED  BY <2>2, <2>4
  <1>. QED  BY <1>5, <1>6, <1>7

\* repeat counts as long as the presses are fewer than it has values.
LEMMA NextRepeat ==
  ASSUME NEW m \in Nat, m > 2, NEW p \in Nat, p < m
  PROVE  (p + 1) % m = IF p + 1 < m THEN p + 1 ELSE 0
  <1>1. CASE p + 1 < m
    BY <1>1
  <1>2. CASE p + 1 = m
    BY <1>2
  <1>. QED  BY <1>1, <1>2

\* A button that goes on in another state.
LEMMA RestartIs ==
  ASSUME NEW d \in Button, NEW s \in MbStates
  PROVE  /\ B!Restart(d, s) \in Button /\ B!To(d, s) \in Button
         /\ \A c \in {B!Restart(d, s), B!To(d, s)} :
              /\ c.debounce = d.debounce /\ c.state = s
              /\ c.repeat = d.repeat /\ c.level = d.level
  BY DEF B!Restart, B!To, Button

LEMMA RepeatIs ==
  ASSUME NEW d \in Button, NEW n \in Nat, NEW c, c = [d EXCEPT !.repeat = n]
  PROVE  /\ c \in Button /\ c.debounce = d.debounce /\ c.state = d.state
         /\ c.repeat = n /\ c.level = d.level
  BY DEF Button

\* The state machine: which state follows, and what is told.
LEMMA HandledIs ==
  ASSUME B!MultiButtonAssumption, Counting, NEW b \in Button, NEW h \in History,
         CountOk(b, h), NEW d \in Button, d.state = b.state, d.repeat = b.repeat,
         b.state = 2 /\ d.level = 1 => h.presses < MaxPresses,
         NEW r, r = B!Handled(d), NEW presses,
         presses = (IF b.state = 0 THEN 0 ELSE h.presses)
                   + (IF r.event = "press_down" THEN 1 ELSE 0)
  PROVE  /\ r.button \in Button /\ r.event \in MbEvents /\ presses \in Nat
         /\ r.button.debounce = d.debounce
         /\ presses <= MaxPresses \/ presses <= 1
         /\ r.button.state # 0 =>
              /\ presses >= 1
              /\ r.button.repeat = IF presses < RepeatMod THEN presses ELSE 0
         /\ r.button.state = 2 => r.button.level = 0
         /\ r.event = "single_click" => presses = 1
         /\ r.event = "double_click" => presses = 2
  <1>1. /\ RepeatMod \in Nat /\ RepeatMod > 2 /\ MaxPresses \in Nat /\ MaxPresses <= RepeatMod
    BY DEF B!MultiButtonAssumption, Counting
  <1>2. h.presses \in Nat /\ d.repeat \in Nat /\ d.state \in MbStates /\ d.level \in {0, 1}
    BY DEF Button, History
  <1>3. (d.repeat + 1) % RepeatMod \in Nat
    BY <1>1, <1>2
  <1>4. CASE d.state = 0
    <2>1. CASE d.level = 1
      <3>1. r = B!Now([B!Restart(d, 1) EXCEPT !.repeat = 1], "press_down")
        BY <1>4, <2>1 DEF B!Handled
      <3>2. /\ r.event = "press_down" /\ r.button \in Button /\ r.button.debounce = d.debounce
            /\ r.button.state = 1 /\ r.button.repeat = 1
        <4>1. 1 \in MbStates
          BY DEF MbStates
        <4>2. PICK c \in Button : c = B!Restart(d, 1)
          BY <4>1, RestartIs
        <4>3. c.debounce = d.debounce /\ c.state = 1
          BY <4>1, <4>2, RestartIs
        <4>4. r.event = "press_down" /\ r.button = [c EXCEPT !.repeat = 1]
          BY <3>1, <4>2 DEF B!Now
        <4>. QED  BY <4>3, <4>4, RepeatIs
      <3>3. presses = 1
        BY <1>4, <3>2
      <3>. QED  BY <1>1, <3>2, <3>3 DEF MbEvents
    <2>2. CASE d.level = 0
      <3>1. r = B!Now(d, "none")
        BY <1>4, <2>2 DEF B!Handled
      <3>. QED  BY <1>1, <1>4, <3>1 DEF B!Now, MbEvents
    <2>. QED  BY <1>2, <2>1, <2>2
  <1>5. CASE d.state # 0
    <2>1. /\ h.presses >= 1 /\ d.repeat = IF h.presses < RepeatMod THEN h.presses ELSE 0
          /\ presses = IF r.event = "press_down" THEN h.presses + 1 ELSE h.presses
      BY <1>2, <1>5 DEF CountOk
    <2>2. h.presses <= MaxPresses \/ h.presses = 1
      BY <1>2, <2>1 DEF CountOk
    <2>3. CASE d.state = 1 /\ d.level = 0
      <3>1. r = B!Now(B!Restart(d, 2), "press_up")
        BY <2>3 DEF B!Handled
      <3>2. /\ r.event = "press_up" /\ r.button \in Button /\ r.button.debounce = d.debounce
            /\ r.button.state = 2 /\ r.button.repeat = d.repeat /\ r.button.level = 0
        <4>1. 2 \in MbStates
          BY DEF MbStates
        <4>2. r.event = "press_up" /\ r.button = B!Restart(d, 2)
          BY <3>1 DEF B!Now
        <4>. QED  BY <2>3, <4>1, <4>2, RestartIs
      <3>. QED  BY <1>1, <1>2, <2>1, <2>2, <3>2 DEF MbEvents
    <2>4. CASE d.state = 1 /\ d.level = 1
      <3>1. \/ r = B!Now(B!To(d, 5), "long_press_start")
            \/ r = B!Now(d, "none")
        BY <2>4 DEF B!Handled
      <3>2. /\ r.event \in {"long_press_start", "none"} /\ r.button \in Button
            /\ r.button.debounce = d.debounce /\ r.button.state \in {1, 5}
            /\ r.button.repeat = d.repeat
        BY <2>4, <3>1 DEF B!Now, B!To, Button, MbStates
      <3>. QED  BY <1>1, <1>2, <2>1, <2>2, <3>2 DEF MbEvents
    <2>5. CASE d.state = 2 /\ d.level = 1
      <3>1. r = B!Now([B!Restart(d, 3) EXCEPT !.repeat = (@ + 1) % RepeatMod], "press_down")
        BY <2>5 DEF B!Handled
      <3>2. /\ r.event = "press_down" /\ r.button \in Button /\ r.button.debounce = d.debounce
            /\ r.button.state = 3 /\ r.button.repeat = (d.repeat + 1) % RepeatMod
        <4>1. 3 \in MbStates
          BY DEF MbStates
        <4>2. PICK c \in Button : c = B!Restart(d, 3)
          BY <4>1, RestartIs
        <4>3. c.debounce = d.debounce /\ c.state = 3 /\ c.repeat = d.repeat
          BY <4>1, <4>2, RestartIs
        <4>4. r.event = "press_down" /\ r.button = [c EXCEPT !.repeat = (c.repeat + 1) % RepeatMod]
          BY <3>1, <4>2 DEF B!Now
        <4>. QED  BY <1>3, <4>3, <4>4, RepeatIs
      <3>3. h.presses < MaxPresses /\ h.presses < RepeatMod
        BY <1>1, <1>2, <2>5
      <3>4. d.repeat = h.presses /\ presses = h.presses + 1
        BY <2>1, <3>2, <3>3
      <3>5. (h.presses + 1) % RepeatMod = IF h.presses + 1 < RepeatMod THEN h.presses + 1 ELSE 0
        BY <1>1, <1>2, <3>3, NextRepeat
      <3>6. presses \in Nat /\ presses <= MaxPresses /\ presses >= 1
        BY <1>1, <1>2, <3>3, <3>4
      <3>7. r.button.repeat = IF presses < RepeatMod THEN presses ELSE 0
        BY <3>2, <3>4, <3>5
      <3>. QED  BY <3>2, <3>6, <3>7 DEF MbEvents
    <2>6. CASE d.state = 2 /\ d.level = 0
      <3>1. \/ r = B!Now(d, "none")
            \/ r = B!Now(B!To(d, 0), CASE d.repeat = 1 -> "single_click"
                                       [] d.repeat = 2 -> "double_click" [] OTHER -> "none")
        BY <2>6 DEF B!Handled
      <3>2. /\ r.button \in Button /\ r.button.debounce = d.debounce
            /\ r.button = d \/ r.button.state = 0
        BY <3>1 DEF B!Now, B!To, Button, MbStates
      <3>3. /\ r.event \in {"none", "single_click", "double_click"}
            /\ r.event = "single_click" => d.repeat = 1
            /\ r.event = "double_click" => d.repeat = 2
        BY <3>1 DEF B!Now
      <3>4. presses = h.presses /\ presses \in Nat /\ (presses <= MaxPresses \/ presses <= 1)
        BY <1>2, <2>1, <2>2, <3>3
      <3>5. (d.repeat = 1 => presses = 1) /\ (d.repeat = 2 => presses = 2)
        BY <1>1, <1>2, <2>1, <3>4
      <3>6. r.button = d => d.state = 2 /\ d.level = 0
        BY <2>6
      <3>. QED  BY <2>1, <3>2, <3>3, <3>4, <3>5, <3>6 DEF MbEvents
    <2>7. CASE d.state = 3 /\ d.level = 0
      <3>1. \/ r = B!Now(B!Restart(d, 2), "press_up")
            \/ r = B!Now(B!To(d, 0), "press_up")
        BY <2>7 DEF B!Handled
      <3>2. /\ r.event = "press_up" /\ r.button \in Button /\ r.button.debounce = d.debounce
            /\ r.button.repeat = d.repeat /\ r.button.level = 0
        <4>1. 2 \in MbStates /\ 0 \in MbStates
          BY DEF MbStates
        <4>2. r.event = "press_up" /\ r.button \in {B!Restart(d, 2), B!To(d, 0)}
          BY <3>1 DEF B!Now
        <4>3. /\ B!Restart(d, 2) \in Button /\ B!To(d, 0) \in Button
              /\ \A c \in {B!Restart(d, 2), B!To(d, 0)} :
                   c.debounce = d.debounce /\ c.repeat = d.repeat /\ c.level = d.level
          BY <4>1, RestartIs
        <4>. QED  BY <2>7, <4>2, <4>3
      <3>. QED  BY <1>1, <1>2, <2>1, <2>2, <3>2 DEF MbEvents
    <2>8. CASE d.state = 3 /\ d.level = 1
      <3>1. r = B!Now(d, "none")
        BY <2>8 DEF B!Handled
      <3>2. r.event = "none" /\ r.button = d
        BY <3>1 DEF B!Now
      <3>. QED  BY <1>1, <1>2, <2>1, <2>2, <2>8, <3>2 DEF MbEvents
    <2>9. CASE d.state = 5
      <3>1. \/ r = B!Now(d, "long_press_hold")
            \/ r = B!Now(B!To(d, 0), "press_up")
        BY <1>2, <2>9 DEF B!Handled
      <3>2. /\ r.event \in {"long_press_hold", "press_up"} /\ r.button \in Button
            /\ r.button.debounce = d.debounce /\ r.button.repeat = d.repeat
            /\ r.button.state \in {0, 5}
        BY <2>9, <3>1 DEF B!Now, B!To, Button, MbStates
      <3>. QED  BY <1>1, <1>2, <2>1, <2>2, <3>2 DEF MbEvents
    <2>. QED  BY <1>2, <1>5, <2>3, <2>4, <2>5, <2>6, <2>7, <2>8, <2>9 DEF MbStates
  <1>. QED  BY <1>4, <1>5

\* What a tick does to a button of the list.
LEMMA TickKeeps ==
  ASSUME B!MultiButtonAssumption, Counting, NEW b, NEW h, ButtonOk(b, h), NEW sample \in {0, 1},
         sample = 1 => h.presses < MaxPresses \/ b.state \in {1, 3, 5},
         NEW c, c = B!Handler(b, sample).button, NEW g, g = Heard(b, h, sample)
  PROVE  ButtonOk(c, g) /\ g.started = h.started
  <1>. DEFINE dd == B!Debounced(B!Ticked(b), sample)
              rr == B!Handled(dd)
              un == IF sample = b.level THEN 0
                    ELSE IF h.unlike >= DebounceTicks THEN 1 ELSE h.unlike + 1
              pp == (IF b.state = 0 THEN 0 ELSE h.presses)
                    + (IF rr.event = "press_down" THEN 1 ELSE 0)
  <1>0. b \in Button /\ h \in History /\ DebounceOk(b, h) /\ CountOk(b, h)
    BY DEF ButtonOk
  <1>1. PICK d : d = dd
    OBVIOUS
  <1>2. PICK unlike : unlike = un
    OBVIOUS
  <1>3. PICK r : r = rr
    OBVIOUS
  <1>4. PICK presses : presses = pp
    OBVIOUS
  <1>5. c = r.button
    BY <1>3 DEF B!Handler
  <1>6. g = [h EXCEPT !.event = r.event, !.changed = (d.level # b.level),
                      !.presses = presses, !.unlike = unlike]
    <2>1. presses = IF r.event = "press_down" THEN (IF b.state = 0 THEN 0 ELSE h.presses) + 1
                    ELSE IF b.state = 0 THEN 0 ELSE h.presses
      BY <1>0, <1>3, <1>4 DEF History
    <2>2. unlike = un
      BY <1>2
    <2>3. d = dd /\ r = B!Handler(b, sample)
      BY <1>1, <1>3 DEF B!Handler
    <2>. HIDE DEF dd, rr, pp
    <2>. QED  BY <2>1, <2>2, <2>3 DEF Heard, dd
  <1>7. /\ d \in Button /\ d.state = b.state /\ d.repeat = b.repeat
        /\ d.level \in {b.level, sample}
        /\ unlike \in Nat /\ d.debounce < DebounceTicks
        /\ unlike = d.debounce \/ (d.debounce = 0 /\ unlike = DebounceTicks)
        /\ d.level # b.level => unlike = DebounceTicks
    BY <1>0, <1>1, <1>2, DebouncedIs
  <1>8. r = B!Handled(d)
    BY <1>1, <1>3
  <1>9. presses = (IF b.state = 0 THEN 0 ELSE h.presses) + (IF r.event = "press_down" THEN 1 ELSE 0)
    BY <1>3, <1>4
  <1>. HIDE DEF dd, rr, un, pp
  <1>10. b.state = 2 /\ d.level = 1 => h.presses < MaxPresses
    BY <1>0, <1>7 DEF CountOk
  <1>11. /\ r.button \in Button /\ r.event \in MbEvents /\ presses \in Nat
         /\ r.button.debounce = d.debounce
         /\ presses <= MaxPresses \/ presses <= 1
         /\ r.button.state # 0 =>
              /\ presses >= 1
              /\ r.button.repeat = IF presses < RepeatMod THEN presses ELSE 0
         /\ r.button.state = 2 => r.button.level = 0
         /\ r.event = "single_click" => presses = 1
         /\ r.event = "double_click" => presses = 2
    BY <1>0, <1>7, <1>8, <1>9, <1>10, HandledIs
  <1>12. /\ g \in History /\ g.event = r.event /\ g.changed = (d.level # b.level)
         /\ g.presses = presses /\ g.unlike = unlike /\ g.started = h.started
    BY <1>0, <1>6, <1>7, <1>11 DEF History
  <1>13. DebounceOk(c, g)
    BY <1>5, <1>7, <1>11, <1>12 DEF DebounceOk
  <1>14. CountOk(c, g)
    BY <1>5, <1>11, <1>12 DEF CountOk
  <1>15. EventOk(g)
    BY <1>11, <1>12 DEF EventOk
  <1>. QED  BY <1>5, <1>11, <1>12, <1>13, <1>14, <1>15 DEF ButtonOk

-----------------------------------------------------------------------------
(* The inductive invariant of the buttons                                  *)

ListOk == /\ mbList \in Seq(Buttons)
          /\ \A b \in Buttons : mbHistory[b].started => \E i \in 1 .. Len(mbList) : mbList[i] = b
MbInv == /\ mb \in [Buttons -> Button] /\ mbHistory \in [Buttons -> History]
         /\ \A b \in Buttons : ButtonOk(mb[b], mbHistory[b])
         /\ ListOk

\* A button that was initialised.
LEMMA NewIsOk ==
  ASSUME B!MultiButtonAssumption, NEW level \in {0, 1}, NEW started \in BOOLEAN, NEW h,
         h = [B!Unheard EXCEPT !.started = started]
  PROVE  ButtonOk(B!New(level), h) /\ h.started = started
  <1>1. B!New(level) \in Button /\ B!New(level).debounce = 0 /\ B!New(level).state = 0
    BY DEF B!New, Button, MbStates
  <1>2. /\ h \in History /\ h.presses = 0 /\ h.unlike = 0 /\ ~ h.changed /\ h.event = "none"
        /\ h.started = started
    BY DEF B!Unheard, History, MbEvents
  <1>3. DebounceOk(B!New(level), h)
    BY <1>1, <1>2 DEF DebounceOk, B!MultiButtonAssumption
  <1>. QED  BY <1>1, <1>2, <1>3 DEF ButtonOk, CountOk, EventOk

LEMMA ButtonsBegin == B!MultiButtonAssumption /\ B!MbInit => MbInv
  <1>. SUFFICES ASSUME B!MultiButtonAssumption, B!MbInit PROVE MbInv
    OBVIOUS
  <1>1. PICK h : h = [B!Unheard EXCEPT !.started = FALSE]
    OBVIOUS
  <1>2. h = B!Unheard
    BY <1>1 DEF B!Unheard
  <1>3. ButtonOk(B!New(0), h) /\ h.started = FALSE
    BY <1>1, NewIsOk
  <1>4. B!New(0) \in Button /\ h \in History
    BY <1>3 DEF ButtonOk
  <1>5. mb = [b \in Buttons |-> B!New(0)] /\ mbHistory = [b \in Buttons |-> h] /\ mbList = <<>>
    BY <1>2 DEF B!MbInit
  <1>6. ListOk
    BY <1>3, <1>5 DEF ListOk
  <1>. QED  BY <1>3, <1>4, <1>5, <1>6 DEF MbInv

LEMMA TicksKeep ==
  ASSUME B!MultiButtonAssumption, Counting, MbInv,
         NEW sample \in [Buttons -> {0, 1}], B!Ticks(sample)
  PROVE  MbInv'
  <1>1. ASSUME NEW b \in Buttons
        PROVE  /\ ButtonOk(mb'[b], mbHistory'[b]) /\ mbHistory'[b].started = mbHistory[b].started
    <2>1. ButtonOk(mb[b], mbHistory[b])
      BY DEF MbInv
    <2>2. CASE b \in B!ToSet(mbList)
      <3>1. sample[b] \in {0, 1}
        OBVIOUS
      <3>2. sample[b] = 1 => mbHistory[b].presses < MaxPresses \/ mb[b].state \in {1, 3, 5}
        BY DEF B!Ticks
      <3>3. PICK c : c = B!Handler(mb[b], sample[b]).button
        OBVIOUS
      <3>4. PICK g : g = Heard(mb[b], mbHistory[b], sample[b])
        OBVIOUS
      <3>5. mb'[b] = c
        BY <2>2, <3>3 DEF B!Ticks
      <3>6. mbHistory'[b] = g
        BY <2>2, <3>4 DEF B!Ticks, Heard
      <3>7. ButtonOk(c, g) /\ g.started = mbHistory[b].started
        BY <2>1, <3>1, <3>2, <3>3, <3>4, TickKeeps
      <3>. QED  BY <3>5, <3>6, <3>7
    <2>3. CASE b \notin B!ToSet(mbList)
      <3>1. mb'[b] = mb[b] /\ mbHistory'[b] = mbHistory[b]
        BY <2>3 DEF B!Ticks
      <3>. QED  BY <2>1, <3>1
    <2>. QED  BY <2>2, <2>3
  <1>2. DOMAIN mb' = Buttons /\ mb' = [b \in Buttons |-> mb'[b]]
        /\ mbHistory' = [b \in Buttons |-> mbHistory'[b]]
    BY DEF B!Ticks
  <1>3. \A b \in Buttons : mb'[b] \in Button /\ mbHistory'[b] \in History
    BY <1>1 DEF ButtonOk
  <1>4. mb' \in [Buttons -> Button] /\ mbHistory' \in [Buttons -> History]
    BY <1>2, <1>3
  <1>5. ListOk'
    <2>1. mbList' = mbList
      BY DEF B!Ticks
    <2>. QED  BY <1>1, <2>1 DEF MbInv, ListOk
  <1>. QED  BY <1>1, <1>4, <1>5 DEF MbInv

\* Whether it is started does not change what a button has told.
LEMMA StartedIs ==
  ASSUME NEW b, NEW h, ButtonOk(b, h), NEW s \in BOOLEAN, NEW g, g = [h EXCEPT !.started = s]
  PROVE  ButtonOk(b, g) /\ g.started = s
  <1>1. /\ g \in History /\ g.presses = h.presses /\ g.unlike = h.unlike /\ g.changed = h.changed
        /\ g.event = h.event /\ g.started = s
    BY DEF ButtonOk, History
  <1>. QED  BY <1>1 DEF ButtonOk, DebounceOk, CountOk, EventOk

LEMMA StartKeeps ==
  ASSUME MbInv, NEW b \in Buttons, B!Start(b)
  PROVE  MbInv'
  <1>1. /\ mbList' = <<b>> \o mbList /\ mb' = mb
        /\ mbHistory' = [mbHistory EXCEPT ![b] = [mbHistory[b] EXCEPT !.started = TRUE]]
    BY DEF B!Start
  <1>2. PICK g : g = [mbHistory[b] EXCEPT !.started = TRUE]
    OBVIOUS
  <1>3. ButtonOk(mb[b], g) /\ g.started = TRUE /\ g \in History
    BY <1>2, StartedIs DEF MbInv, ButtonOk
  <1>4. /\ mbHistory' \in [Buttons -> History]
        /\ \A a \in Buttons : ButtonOk(mb'[a], mbHistory'[a])
        /\ \A a \in Buttons : a # b => mbHistory'[a] = mbHistory[a]
    BY <1>1, <1>2, <1>3 DEF MbInv
  <1>5. ListOk'
    <2>1. PICK u \in Seq(Buttons) : u = <<b>>
      <3>1. <<b>> \in Seq(Buttons)
        OBVIOUS
      <3>. QED  BY <3>1
    <2>2. Len(u) = 1 /\ u[1] = b /\ mbList' = u \o mbList /\ mbList \in Seq(Buttons)
      BY <1>1, <2>1 DEF MbInv, ListOk
    <2>3. Len(mbList) \in Nat
      BY <2>2, LenProperties
    <2>4. /\ mbList' \in Seq(Buttons) /\ Len(mbList') = 1 + Len(mbList)
          /\ \A i \in 1 .. 1 + Len(mbList) : mbList'[i] = IF i <= 1 THEN u[i] ELSE mbList[i - 1]
      <3>1. /\ u \o mbList \in Seq(Buttons) /\ Len(u \o mbList) = Len(u) + Len(mbList)
            /\ \A i \in 1 .. Len(u) + Len(mbList) :
                 (u \o mbList)[i] = IF i <= Len(u) THEN u[i] ELSE mbList[i - Len(u)]
        BY <2>1, <2>2, ConcatProperties
      <3>. QED  BY <2>2, <3>1
    <2>5. mbList'[1] = b /\ 1 \in 1 .. Len(mbList')
      BY <2>2, <2>3, <2>4
    <2>6. ASSUME NEW i \in 1 .. Len(mbList)
          PROVE  i + 1 \in 1 .. Len(mbList') /\ mbList'[i + 1] = mbList[i]
      BY <2>3, <2>4
    <2>7. ASSUME NEW a \in Buttons, mbHistory'[a].started
          PROVE  \E i \in 1 .. Len(mbList') : mbList'[i] = a
      <3>1. CASE a = b
        BY <2>5, <3>1
      <3>2. CASE a # b
        <4>1. PICK i \in 1 .. Len(mbList) : mbList[i] = a
          BY <1>4, <2>7, <3>2 DEF MbInv, ListOk
        <4>. QED  BY <2>6, <4>1
      <3>. QED  BY <3>1, <3>2
    <2>. QED  BY <2>4, <2>7 DEF ListOk
  <1>. QED  BY <1>1, <1>4, <1>5 DEF MbInv

\* A sequence without its i-th element.
LEMMA Without ==
  ASSUME NEW S, NEW s \in Seq(S), NEW i \in 1 .. Len(s), NEW t,
         t = SubSeq(s, 1, i - 1) \o SubSeq(s, i + 1, Len(s))
  PROVE  /\ t \in Seq(S) /\ Len(t) = Len(s) - 1
         /\ \A j \in 1 .. i - 1 : t[j] = s[j]
         /\ \A j \in i .. Len(s) - 1 : t[j] = s[j + 1]
  <1>0. Len(s) \in Nat /\ \A j \in 1 .. Len(s) : s[j] \in S
    BY LenProperties, ElementOfSeq
  <1>1. PICK a : a = SubSeq(s, 1, i - 1)
    OBVIOUS
  <1>2. PICK b : b = SubSeq(s, i + 1, Len(s))
    OBVIOUS
  <1>3. a \in Seq(S) /\ Len(a) = i - 1 /\ \A j \in 1 .. i - 1 : a[j] = s[j]
    <2>1. \A j \in 1 .. i - 1 : s[j] \in S
      BY <1>0
    <2>2. /\ a \in Seq(S) /\ Len(a) = IF 1 <= i - 1 THEN (i - 1) - 1 + 1 ELSE 0
          /\ \A j \in 1 .. (i - 1) - 1 + 1 : a[j] = s[1 + j - 1]
      BY <1>0, <1>1, <2>1, SubSeqProperties
    <2>. QED  BY <1>0, <2>2
  <1>4. b \in Seq(S) /\ Len(b) = Len(s) - i /\ \A j \in 1 .. Len(s) - i : b[j] = s[i + j]
    <2>1. \A j \in i + 1 .. Len(s) : s[j] \in S
      BY <1>0
    <2>2. /\ b \in Seq(S) /\ Len(b) = IF i + 1 <= Len(s) THEN Len(s) - (i + 1) + 1 ELSE 0
          /\ \A j \in 1 .. Len(s) - (i + 1) + 1 : b[j] = s[(i + 1) + j - 1]
      BY <1>0, <1>2, <2>1, SubSeqProperties
    <2>3. \A j \in 1 .. Len(s) - i : j \in 1 .. Len(s) - (i + 1) + 1 /\ (i + 1) + j - 1 = i + j
      BY <1>0
    <2>. QED  BY <1>0, <2>2, <2>3
  <1>5. /\ t \in Seq(S) /\ Len(t) = (i - 1) + (Len(s) - i)
        /\ \A j \in 1 .. (i - 1) + (Len(s) - i) : t[j] = IF j <= i - 1 THEN a[j] ELSE b[j - (i - 1)]
    <2>1. t = a \o b
      BY <1>1, <1>2
    <2>2. /\ a \o b \in Seq(S) /\ Len(a \o b) = Len(a) + Len(b)
          /\ \A j \in 1 .. Len(a) + Len(b) :
               (a \o b)[j] = IF j <= Len(a) THEN a[j] ELSE b[j - Len(a)]
      BY <1>3, <1>4, ConcatProperties
    <2>. QED  BY <1>3, <1>4, <2>1, <2>2
  <1>6. (i - 1) + (Len(s) - i) = Len(s) - 1
    BY <1>0
  <1>7. ASSUME NEW j \in 1 .. i - 1 PROVE t[j] = s[j]
    <2>1. j \in 1 .. (i - 1) + (Len(s) - i) /\ j <= i - 1
      BY <1>0
    <2>. QED  BY <1>3, <1>5, <2>1
  <1>8. ASSUME NEW j \in i .. Len(s) - 1 PROVE t[j] = s[j + 1]
    <2>1. /\ j \in 1 .. (i - 1) + (Len(s) - i) /\ ~ (j <= i - 1)
          /\ j - (i - 1) \in 1 .. Len(s) - i /\ i + (j - (i - 1)) = j + 1
      BY <1>0
    <2>2. t[j] = b[j - (i - 1)]
      BY <1>5, <2>1
    <2>3. b[j - (i - 1)] = s[i + (j - (i - 1))]
      BY <1>4, <2>1
    <2>. QED  BY <2>1, <2>2, <2>3
  <1>. QED  BY <1>5, <1>6, <1>7, <1>8

LEMMA StopKeeps ==
  ASSUME MbInv, NEW b \in Buttons, B!Stop(b)
  PROVE  MbInv'
  <1>1. /\ mb' = mb
        /\ mbHistory' = [mbHistory EXCEPT ![b] = [mbHistory[b] EXCEPT !.started = FALSE]]
    BY DEF B!Stop
  <1>2. PICK g : g = [mbHistory[b] EXCEPT !.started = FALSE]
    OBVIOUS
  <1>3. ButtonOk(mb[b], g) /\ g.started = FALSE /\ g \in History
    BY <1>2, StartedIs DEF MbInv, ButtonOk
  <1>4. /\ mbHistory' \in [Buttons -> History] /\ mbHistory'[b].started = FALSE
        /\ \A a \in Buttons : ButtonOk(mb'[a], mbHistory'[a])
        /\ \A a \in Buttons : a # b => mbHistory'[a] = mbHistory[a]
    BY <1>1, <1>2, <1>3 DEF MbInv
  <1>5. mbList \in Seq(Buttons) /\ Len(mbList) \in Nat /\ DOMAIN mbList = 1 .. Len(mbList)
    BY LenProperties DEF MbInv, ListOk
  <1>6. PICK i \in 1 .. Len(mbList) : mbList[i] = b /\ mbList' = B!RemoveAt(mbList, i)
    BY <1>5 DEF B!Stop
  <1>7. mbList' = SubSeq(mbList, 1, i - 1) \o SubSeq(mbList, i + 1, Len(mbList))
    BY <1>6 DEF B!RemoveAt
  <1>8. /\ mbList' \in Seq(Buttons) /\ Len(mbList') = Len(mbList) - 1
        /\ \A j \in 1 .. i - 1 : mbList'[j] = mbList[j]
        /\ \A j \in i .. Len(mbList) - 1 : mbList'[j] = mbList[j + 1]
    <2>1. PICK s \in Seq(Buttons) : s = mbList
      BY <1>5
    <2>2. i \in 1 .. Len(s)
      BY <1>6, <2>1
    <2> DEFINE t == SubSeq(s, 1, i - 1) \o SubSeq(s, i + 1, Len(s))
    <2>3. /\ t \in Seq(Buttons) /\ Len(t) = Len(s) - 1
          /\ \A j \in 1 .. i - 1 : t[j] = s[j]
          /\ \A j \in i .. Len(s) - 1 : t[j] = s[j + 1]
      BY <2>2, Without
    <2>4. mbList' = t
      BY <1>7, <2>1
    <2> HIDE DEF t
    <2>. QED  BY <2>1, <2>3, <2>4
  <1>9. ASSUME NEW a \in Buttons, mbHistory'[a].started
        PROVE  \E j \in 1 .. Len(mbList') : mbList'[j] = a
    <2>1. a # b
      BY <1>4, <1>9
    <2>2. PICK j \in 1 .. Len(mbList) : mbList[j] = a
      BY <1>4, <1>9, <2>1 DEF MbInv, ListOk
    <2>3. j # i
      BY <1>6, <2>1, <2>2
    <2>4. CASE j < i
      <3>1. j \in 1 .. i - 1 /\ j \in 1 .. Len(mbList')
        BY <1>5, <1>8, <2>4
      <3>. QED  BY <1>8, <2>2, <3>1
    <2>5. CASE j > i
      <3>1. j - 1 \in i .. Len(mbList) - 1 /\ j - 1 \in 1 .. Len(mbList') /\ (j - 1) + 1 = j
        BY <1>5, <1>8, <2>5
      <3>. QED  BY <1>8, <2>2, <3>1
    <2>. QED  BY <2>3, <2>4, <2>5
  <1>10. ListOk'
    BY <1>8, <1>9 DEF ListOk
  <1>. QED  BY <1>1, <1>4, <1>10 DEF MbInv

LEMMA ResetKeeps ==
  ASSUME B!MultiButtonAssumption, Counting, MbInv, NEW b \in Buttons, NEW level \in {0, 1},
         B!Reset(b, level)
  PROVE  MbInv'
  <1>1. PICK g : g = [B!Unheard EXCEPT !.started = mbHistory[b].started]
    OBVIOUS
  <1>2. /\ mb' = [mb EXCEPT ![b] = B!New(level)] /\ mbList' = mbList
        /\ mbHistory' = [mbHistory EXCEPT ![b] = g]
    BY <1>1 DEF B!Reset, Counting
  <1>3. mbHistory[b].started \in BOOLEAN
    BY DEF MbInv, History
  <1>4. ButtonOk(B!New(level), g) /\ g.started = mbHistory[b].started
    BY <1>1, <1>3, NewIsOk
  <1>5. B!New(level) \in Button /\ g \in History
    BY <1>4 DEF ButtonOk
  <1>6. /\ mb' \in [Buttons -> Button] /\ mbHistory' \in [Buttons -> History]
        /\ \A a \in Buttons : ButtonOk(mb'[a], mbHistory'[a])
        /\ \A a \in Buttons : mbHistory'[a].started = mbHistory[a].started
    BY <1>2, <1>4, <1>5 DEF MbInv
  <1>7. ListOk'
    BY <1>2, <1>6 DEF MbInv, ListOk
  <1>. QED  BY <1>6, <1>7 DEF MbInv

LEMMA ButtonsStep ==
  ASSUME B!MultiButtonAssumption, Counting, MbInv, [B!MbNext]_mbVars
  PROVE  MbInv'
  <1>1. CASE UNCHANGED mbVars
    BY <1>1 DEF mbVars, MbInv, ListOk
  <1>. QED  BY <1>1, TicksKeep, StartKeeps, StopKeeps, ResetKeeps DEF B!MbNext

LEMMA ClicksCounted == MbInv => B!ClicksAreCounted
  <1>. SUFFICES ASSUME MbInv, NEW b \in Buttons
                PROVE  LET h == mbHistory[b] IN
                       /\ h.event = "single_click" => h.presses = 1
                       /\ h.event = "double_click" => h.presses = 2
                       /\ h.changed => h.unlike = DebounceTicks
                       /\ h.started => b \in B!ToSet(mbList)
    BY DEF B!ClicksAreCounted
  <1>1. EventOk(mbHistory[b]) /\ DebounceOk(mb[b], mbHistory[b])
    BY DEF MbInv, ButtonOk
  <1>2. mbHistory[b].started => b \in B!ToSet(mbList)
    <2>1. DOMAIN mbList = 1 .. Len(mbList)
      BY LenProperties DEF MbInv, ListOk
    <2>. QED  BY <2>1 DEF MbInv, ListOk, B!ToSet
  <1>. QED  BY <1>1, <1>2 DEF EventOk, DebounceOk


-----------------------------------------------------------------------------
(* The resource manager: each node has its own name, and what a name was   *)
(* added with is the pointer of its node.                                  *)

\* The environment for which a name finds its pointer: no name is added while
\* it is registered, and no string changes while a node has it.
Distinct == ~ AddedTwice /\ ~ Rewritten

RmNode == [name : Strings, ptr : Pointers]
NameOf(i) == rmStrings[rm.list[i].name]

RmTypeOK == /\ rm \in [there : BOOLEAN, list : Seq(RmNode), default : Pointers \cup {NoPointer}]
            /\ rmStrings \in [Strings -> Names]
            /\ rmExpected \in [Names -> Pointers \cup {NoPointer}]
OwnNames == \A i, j \in 1 .. Len(rm.list) : NameOf(i) = NameOf(j) => i = j
ExpectedIs ==
  /\ \A i \in 1 .. Len(rm.list) : rmExpected[NameOf(i)] = rm.list[i].ptr
  /\ \A n \in Names : (\A i \in 1 .. Len(rm.list) : NameOf(i) # n) => rmExpected[n] = NoPointer
NoneLeft == ~ rm.there => rm.list = <<>>
RmInv == RmTypeOK /\ OwnNames /\ ExpectedIs /\ NoneLeft /\ R!ResourcesAreFound

LEMMA ResourcesBegin == R!RmInit => RmInv
  <1>. SUFFICES ASSUME R!RmInit PROVE RmInv
    OBVIOUS
  <1>1. /\ rm = [there |-> FALSE, list |-> <<>>, default |-> NoPointer] /\ rmNodes = 0
        /\ rmExpected = [n \in Names |-> NoPointer] /\ rmStrings \in [Strings -> Names]
        /\ rmGot = [asked |-> NoPointer, gave |-> NoPointer]
    BY DEF R!RmInit, R!NoManager, R!Unknown
  <1>2. rm.list = <<>> /\ Len(rm.list) = 0 /\ <<>> \in Seq(RmNode)
    BY <1>1
  <1>3. RmTypeOK
    BY <1>1, <1>2 DEF RmTypeOK
  <1>4. OwnNames /\ ExpectedIs
    BY <1>1, <1>2 DEF OwnNames, ExpectedIs
  <1>5. NoneLeft /\ R!ResourcesAreFound
    BY <1>1, <1>2 DEF NoneLeft, R!ResourcesAreFound
  <1>. QED  BY <1>3, <1>4, <1>5 DEF RmInv

\* The nodes.
LEMMA NodesAre ==
  ASSUME RmInv
  PROVE  /\ rm.list \in Seq(RmNode) /\ Len(rm.list) \in Nat
         /\ DOMAIN rm.list = 1 .. Len(rm.list) /\ rmNodes = Len(rm.list)
         /\ \A i \in 1 .. Len(rm.list) : rm.list[i] \in RmNode /\ NameOf(i) \in Names
  <1>1. rm.list \in Seq(RmNode) /\ rmNodes = Len(rm.list)
    BY DEF RmInv, RmTypeOK, R!ResourcesAreFound
  <1>2. Len(rm.list) \in Nat /\ DOMAIN rm.list = 1 .. Len(rm.list)
    BY <1>1, LenProperties
  <1>3. ASSUME NEW i \in 1 .. Len(rm.list) PROVE rm.list[i] \in RmNode /\ NameOf(i) \in Names
    <2>1. rm.list[i] \in RmNode
      BY <1>1, ElementOfSeq
    <2>. QED  BY <2>1 DEF NameOf, RmNode, RmInv, RmTypeOK
  <1>. QED  BY <1>1, <1>2, <1>3

\* What _search_node finds.
LEMMA FoundIs ==
  ASSUME RmInv, NEW n \in Names
  PROVE  /\ R!Found(n) = {} => rmExpected[n] = NoPointer
         /\ R!Found(n) # {} => /\ R!Latest(n) \in 1 .. Len(rm.list)
                               /\ NameOf(R!Latest(n)) = n
                               /\ rmExpected[n] = rm.list[R!Latest(n)].ptr
                               /\ rmExpected[n] \in Pointers
  <1>1. R!Found(n) = {i \in 1 .. Len(rm.list) : NameOf(i) = n}
    BY NodesAre DEF R!Found, NameOf
  <1>2. CASE R!Found(n) = {}
    BY <1>1, <1>2 DEF RmInv, ExpectedIs
  <1>3. ASSUME NEW i \in R!Found(n)
        PROVE  R!Latest(n) = i
    <2>1. \A j \in R!Found(n) : j = i
      BY <1>1, <1>3 DEF RmInv, OwnNames
    <2>2. i <= i
      BY <1>1, NodesAre
    <2>. QED  BY <2>1, <2>2 DEF R!Latest
  <1>4. ASSUME NEW i \in R!Found(n)
        PROVE  /\ i \in 1 .. Len(rm.list) /\ NameOf(i) = n /\ rmExpected[n] = rm.list[i].ptr
               /\ rmExpected[n] \in Pointers
    <2>1. i \in 1 .. Len(rm.list) /\ NameOf(i) = n
      BY <1>1
    <2>2. rmExpected[n] = rm.list[i].ptr
      BY <2>1 DEF RmInv, ExpectedIs
    <2>3. rm.list[i] \in RmNode
      BY <2>1, NodesAre
    <2>. QED  BY <2>1, <2>2, <2>3 DEF RmNode
  <1>. QED  BY <1>2, <1>3, <1>4

LEMMA AddKeeps ==
  ASSUME Distinct, RmInv, NEW s \in Strings, NEW ptr \in Pointers, R!Add(s, ptr)
  PROVE  RmInv'
  <1>. DEFINE new == [name |-> s, ptr |-> ptr]
              n == rmStrings[s]
  <1>1. /\ R!Found(n) = {} /\ rmNodes' = rmNodes + 1
        /\ rm' = [rm EXCEPT !.list = Append(rm.list, new)]
        /\ rmExpected' = [rmExpected EXCEPT ![n] = ptr] /\ UNCHANGED <<rmStrings, rmGot>>
    BY DEF R!Add, Distinct
  <1>2. n \in Names /\ new \in RmNode
    BY DEF RmInv, RmTypeOK, RmNode
  <1>3. \A i \in 1 .. Len(rm.list) : NameOf(i) # n
    BY <1>1, NodesAre DEF R!Found, NameOf
  <1>. HIDE DEF new
  <1>4. /\ Append(rm.list, new) \in Seq(RmNode) /\ Len(Append(rm.list, new)) = Len(rm.list) + 1
        /\ \A i \in 1 .. Len(rm.list) : Append(rm.list, new)[i] = rm.list[i]
        /\ Append(rm.list, new)[Len(rm.list) + 1] = new
    BY <1>2, NodesAre, AppendProperties
  <1>0. PICK last : last = Len(rm.list) + 1
    OBVIOUS
  <1>5. /\ rm'.list = Append(rm.list, new) /\ rm' \in [there : BOOLEAN, list : Seq(RmNode),
                                                    default : Pointers \cup {NoPointer}]
    BY <1>1, <1>4 DEF RmInv, RmTypeOK
  <1>6. /\ \A i \in 1 .. Len(rm.list) : NameOf(i)' = NameOf(i) /\ rm'.list[i] = rm.list[i]
        /\ NameOf(last)' = n /\ rm'.list[last].ptr = ptr
        /\ Len(rm'.list) = last
    <2>1. /\ \A i \in 1 .. Len(rm.list) : rm'.list[i] = rm.list[i]
          /\ rm'.list[last] = new /\ Len(rm'.list) = last
      BY <1>4, <1>5, <1>0
    <2>2. new.name = s /\ new.ptr = ptr
      BY DEF new
    <2>3. rmStrings' = rmStrings
      BY <1>1
    <2>. QED  BY <2>1, <2>2, <2>3 DEF NameOf
  <1>7. \A i \in 1 .. Len(rm'.list) : i \in 1 .. Len(rm.list) \/ i = last
    BY <1>6, <1>0, NodesAre
  <1>8. RmTypeOK'
    BY <1>1, <1>2, <1>5 DEF RmInv, RmTypeOK
  <1>. HIDE DEF n
  <1>9. OwnNames'
    <2>. SUFFICES ASSUME NEW i \in 1 .. Len(rm'.list), NEW j \in 1 .. Len(rm'.list),
                         NameOf(i)' = NameOf(j)'
                  PROVE  i = j
      BY DEF OwnNames
    <2>1. CASE i \in 1 .. Len(rm.list) /\ j \in 1 .. Len(rm.list)
      <3>1. NameOf(i) = NameOf(j)
        BY <1>6, <2>1
      <3>. QED  BY <2>1, <3>1 DEF RmInv, OwnNames
    <2>2. CASE i \in 1 .. Len(rm.list) /\ j = last
      BY <1>3, <1>6, <1>0, <2>2
    <2>3. CASE j \in 1 .. Len(rm.list) /\ i = last
      BY <1>3, <1>6, <1>0, <2>3
    <2>. QED  BY <1>7, <2>1, <2>2, <2>3
  <1>10. ExpectedIs'
    <2>1. /\ rmExpected'[n] = ptr
          /\ \A m \in Names : m # n => rmExpected'[m] = rmExpected[m]
      BY <1>1, <1>2 DEF RmInv, RmTypeOK
    <2>2. ASSUME NEW i \in 1 .. Len(rm'.list) PROVE rmExpected'[NameOf(i)'] = rm'.list[i].ptr
      <3>1. CASE i \in 1 .. Len(rm.list)
        <4>1. NameOf(i) \in Names /\ NameOf(i) # n
          BY <1>3, <3>1, NodesAre
        <4>. QED  BY <1>6, <2>1, <3>1, <4>1 DEF RmInv, ExpectedIs
      <3>2. CASE i = last
        BY <1>6, <2>1, <3>2
      <3>. QED  BY <1>7, <3>1, <3>2
    <2>3. ASSUME NEW m \in Names, \A i \in 1 .. Len(rm'.list) : NameOf(i)' # m
          PROVE  rmExpected'[m] = NoPointer
      <3>1. last \in 1 .. Len(rm'.list) /\ \A i \in 1 .. Len(rm.list) : i \in 1 .. Len(rm'.list)
        BY <1>6, <1>0, NodesAre
      <3>2. m # n /\ \A i \in 1 .. Len(rm.list) : NameOf(i) # m
        BY <1>6, <2>3, <3>1
      <3>. QED  BY <2>1, <3>2 DEF RmInv, ExpectedIs
    <2>. QED  BY <2>2, <2>3 DEF ExpectedIs
  <1>11. R!ResourcesAreFound'
    BY <1>1, <1>6, <1>0, NodesAre DEF RmInv, R!ResourcesAreFound
  <1>12. NoneLeft'
    BY <1>1 DEF NoneLeft, R!Add, RmInv, RmTypeOK
  <1>. QED  BY <1>8, <1>9, <1>10, <1>11, <1>12 DEF RmInv

LEMMA RemoveKeeps ==
  ASSUME RmInv, NEW n \in Names, R!RemoveResource(n)
  PROVE  RmInv'
  <1>0. PICK k : k = R!Latest(n)
    OBVIOUS
  <1>1. PICK old : old = rm.list
    OBVIOUS
  <1>2. PICK left : left = SubSeq(rm.list, 1, k - 1) \o SubSeq(rm.list, k + 1, Len(rm.list))
    OBVIOUS
  <1>3. /\ R!Found(n) # {} /\ rmNodes' = rmNodes - 1 /\ rm' = [rm EXCEPT !.list = left]
        /\ rmExpected' = [rmExpected EXCEPT ![n] = NoPointer] /\ UNCHANGED <<rmStrings, rmGot>>
    BY <1>0, <1>2 DEF R!RemoveResource, R!Removed, R!RemoveAt
  <1>4. k \in 1 .. Len(rm.list) /\ NameOf(k) = n
    BY <1>0, <1>3, FoundIs
  <1>5. /\ left \in Seq(RmNode) /\ Len(left) = Len(rm.list) - 1
        /\ \A j \in 1 .. k - 1 : left[j] = rm.list[j]
        /\ \A j \in k .. Len(rm.list) - 1 : left[j] = rm.list[j + 1]
    <2>1. /\ old \in Seq(RmNode) /\ k \in 1 .. Len(old)
          /\ left = SubSeq(old, 1, k - 1) \o SubSeq(old, k + 1, Len(old))
      BY <1>1, <1>2, <1>4, NodesAre
    <2>2. /\ left \in Seq(RmNode) /\ Len(left) = Len(old) - 1
          /\ \A j \in 1 .. k - 1 : left[j] = old[j]
          /\ \A j \in k .. Len(old) - 1 : left[j] = old[j + 1]
      BY <2>1, Without
    <2>. QED  BY <1>1, <2>2
  <1>6. /\ rm'.list = left /\ rm' \in [there : BOOLEAN, list : Seq(RmNode),
                                       default : Pointers \cup {NoPointer}]
    BY <1>3, <1>5 DEF RmInv, RmTypeOK
  <1>. DEFINE was(j) == IF j < k THEN j ELSE j + 1
  <1>7. ASSUME NEW j \in 1 .. Len(left)
        PROVE  /\ was(j) \in 1 .. Len(rm.list) /\ was(j) # k
               /\ left[j] = rm.list[was(j)] /\ NameOf(j)' = NameOf(was(j))
    <2>1. was(j) \in 1 .. Len(rm.list) /\ was(j) # k
      BY <1>4, <1>5, NodesAre
    <2>2. left[j] = rm.list[was(j)]
      <3>1. CASE j < k
        <4>1. j \in 1 .. k - 1
          BY <1>4, <1>5, <3>1, NodesAre
        <4>. QED  BY <1>5, <3>1, <4>1
      <3>2. CASE ~ (j < k)
        <4>1. j \in k .. Len(rm.list) - 1
          BY <1>4, <1>5, <3>2, NodesAre
        <4>. QED  BY <1>5, <3>2, <4>1
      <3>. QED  BY <3>1, <3>2
    <2>. QED  BY <1>3, <1>6, <2>1, <2>2 DEF NameOf
  <1>8. ASSUME NEW i \in 1 .. Len(rm.list), i # k
        PROVE  \E j \in 1 .. Len(left) : was(j) = i
    <2>1. CASE i < k
      <3>1. i \in 1 .. Len(left)
        BY <1>4, <1>5, <2>1, NodesAre
      <3>. QED  BY <2>1, <3>1
    <2>2. CASE ~ (i < k)
      <3>1. i - 1 \in 1 .. Len(left) /\ ~ (i - 1 < k) /\ (i - 1) + 1 = i
        BY <1>4, <1>5, <1>8, <2>2, NodesAre
      <3>. QED  BY <3>1
    <2>. QED  BY <2>1, <2>2
  <1>9. ASSUME NEW i \in 1 .. Len(left), NEW j \in 1 .. Len(left), was(i) = was(j) PROVE i = j
    BY <1>4, <1>5, <1>9, NodesAre
  <1>. HIDE DEF was
  <1>10. RmTypeOK'
    BY <1>3, <1>6 DEF RmInv, RmTypeOK
  <1>11. OwnNames'
    <2>. SUFFICES ASSUME NEW i \in 1 .. Len(left), NEW j \in 1 .. Len(left), NameOf(i)' = NameOf(j)'
                  PROVE  i = j
      BY <1>6 DEF OwnNames
    <2>1. /\ NameOf(was(i)) = NameOf(was(j))
          /\ was(i) \in 1 .. Len(rm.list) /\ was(j) \in 1 .. Len(rm.list)
      BY <1>7
    <2>2. was(i) = was(j)
      BY <2>1 DEF RmInv, OwnNames
    <2>. QED  BY <1>9, <2>2
  <1>12. ExpectedIs'
    <2>1. /\ rmExpected'[n] = NoPointer
          /\ \A m \in Names : m # n => rmExpected'[m] = rmExpected[m]
      BY <1>3 DEF RmInv, RmTypeOK
    <2>2. ASSUME NEW j \in 1 .. Len(left) PROVE rmExpected'[NameOf(j)'] = left[j].ptr
      <3>1. /\ was(j) \in 1 .. Len(rm.list) /\ was(j) # k
            /\ left[j] = rm.list[was(j)] /\ NameOf(j)' = NameOf(was(j))
        BY <1>7
      <3>2. NameOf(was(j)) # n /\ NameOf(was(j)) \in Names
        BY <1>4, <3>1, NodesAre DEF RmInv, OwnNames
      <3>. QED  BY <2>1, <3>1, <3>2 DEF RmInv, ExpectedIs
    <2>3. ASSUME NEW m \in Names, \A j \in 1 .. Len(left) : NameOf(j)' # m
          PROVE  rmExpected'[m] = NoPointer
      <3>1. CASE m = n
        BY <2>1, <3>1
      <3>2. CASE m # n
        <4>1. ASSUME NEW i \in 1 .. Len(rm.list) PROVE NameOf(i) # m
          <5>1. CASE i = k
            BY <1>4, <3>2, <5>1
          <5>2. CASE i # k
            <6>1. PICK j \in 1 .. Len(left) : was(j) = i
              BY <1>8, <5>2
            <6>. QED  BY <1>7, <2>3, <6>1
          <5>. QED  BY <5>1, <5>2
        <4>. QED  BY <2>1, <3>2, <4>1 DEF RmInv, ExpectedIs
      <3>. QED  BY <3>1, <3>2
    <2>. QED  BY <1>6, <2>2, <2>3 DEF ExpectedIs
  <1>13. R!ResourcesAreFound'
    BY <1>3, <1>5, <1>6, NodesAre DEF RmInv, R!ResourcesAreFound
  <1>14. NoneLeft'
    BY <1>3 DEF NoneLeft, R!RemoveResource, RmInv, RmTypeOK
  <1>. QED  BY <1>10, <1>11, <1>12, <1>13, <1>14 DEF RmInv

LEMMA GetKeeps ==
  ASSUME R!ResourceAssumption, RmInv, NEW n \in Names, R!GetResource(n)
  PROVE  RmInv'
  <1>1. UNCHANGED <<rm, rmNodes, rmStrings, rmExpected>>
    BY DEF R!GetResource
  <1>2. rmGot'.gave = rmGot'.asked
    <2>1. /\ rmGot'.gave = R!Get(n)
          /\ rmGot'.asked = IF rmExpected[n] = NoPointer THEN rm.default ELSE rmExpected[n]
      BY DEF R!GetResource
    <2>2. NoPointer \notin Pointers
      BY DEF R!ResourceAssumption
    <2>. QED  BY <2>1, <2>2, FoundIs DEF R!Get
  <1>3. RmTypeOK' /\ OwnNames' /\ ExpectedIs' /\ NoneLeft'
    BY <1>1 DEF RmInv, RmTypeOK, OwnNames, ExpectedIs, NoneLeft, NameOf
  <1>. QED  BY <1>1, <1>2, <1>3 DEF RmInv, R!ResourcesAreFound

\* A manager with no node, whatever it was before.
LEMMA EmptiedKeeps ==
  ASSUME RmInv, R!Create \/ R!Destroy
  PROVE  RmInv'
  <1>1. /\ rm'.list = <<>> /\ rm' = [there |-> rm'.there, list |-> <<>>, default |-> NoPointer]
        /\ rm'.there \in BOOLEAN /\ UNCHANGED <<rmStrings, rmGot>>
    <2>1. CASE R!Create
      BY <2>1 DEF R!Create, R!NoManager, R!NewManager
    <2>2. CASE R!Destroy
      BY <2>2 DEF R!Destroy, R!NoManager
    <2>. QED  BY <2>1, <2>2
  <1>2. Len(rm'.list) = 0 /\ <<>> \in Seq(RmNode)
    BY <1>1
  <1>3. rmNodes' = 0 /\ rmExpected' \in [Names -> {NoPointer}]
    <2>1. CASE R!Destroy
      BY <2>1, NodesAre DEF R!Destroy, R!Unknown
    <2>2. CASE R!Create
      <3>1. rmNodes' = rmNodes /\ rmExpected' = rmExpected /\ ~ rm.there
        BY <2>2 DEF R!Create
      <3>2. rm.list = <<>> /\ Len(rm.list) = 0
        BY <3>1 DEF RmInv, NoneLeft
      <3>3. \A n \in Names : rmExpected[n] = NoPointer
        BY <3>2 DEF RmInv, ExpectedIs
      <3>4. rmExpected \in [Names -> Pointers \cup {NoPointer}]
        BY DEF RmInv, RmTypeOK
      <3>. QED  BY <3>1, <3>2, <3>3, <3>4, NodesAre
    <2>. QED  BY <2>1, <2>2
  <1>4. RmTypeOK'
    <2>1. rm' \in [there : BOOLEAN, list : Seq(RmNode), default : Pointers \cup {NoPointer}]
      <3>1. PICK e \in Seq(RmNode) : e = <<>>
        BY <1>2
      <3>2. rm' = [there |-> rm'.there, list |-> e, default |-> NoPointer]
        BY <1>1, <3>1
      <3>3. NoPointer \in Pointers \cup {NoPointer}
        OBVIOUS
      <3>. QED  BY <1>1, <3>2, <3>3
    <2>. QED  BY <1>1, <1>3, <2>1 DEF RmInv, RmTypeOK
  <1>5. OwnNames' /\ NoneLeft'
    BY <1>1, <1>2 DEF OwnNames, NoneLeft
  <1>6. ExpectedIs'
    BY <1>2, <1>3 DEF ExpectedIs
  <1>7. R!ResourcesAreFound'
    BY <1>1, <1>2, <1>3 DEF RmInv, R!ResourcesAreFound
  <1>. QED  BY <1>4, <1>5, <1>6, <1>7 DEF RmInv

LEMMA DefaultKeeps ==
  ASSUME RmInv, NEW ptr \in Pointers, R!SetDefault(ptr)
  PROVE  RmInv'
  <1>1. rm' = [rm EXCEPT !.default = ptr] /\ UNCHANGED <<rmNodes, rmStrings, rmExpected, rmGot>>
    BY DEF R!SetDefault
  <1>2. /\ rm'.list = rm.list /\ rm'.there = rm.there
        /\ rm' \in [there : BOOLEAN, list : Seq(RmNode), default : Pointers \cup {NoPointer}]
    BY <1>1 DEF RmInv, RmTypeOK
  <1>3. RmTypeOK'
    BY <1>1, <1>2 DEF RmInv, RmTypeOK
  <1>4. OwnNames' /\ ExpectedIs' /\ NoneLeft'
    BY <1>1, <1>2 DEF RmInv, OwnNames, ExpectedIs, NoneLeft, NameOf
  <1>. QED  BY <1>1, <1>2, <1>3, <1>4 DEF RmInv, R!ResourcesAreFound

\* Only a string that no node has changes.
LEMMA RewriteKeeps ==
  ASSUME Distinct, RmInv, NEW s \in Strings, NEW n \in Names, R!Rewrite(s, n)
  PROVE  RmInv'
  <1>1. /\ \A i \in 1 .. Len(rm.list) : rm.list[i].name # s
        /\ rmStrings' = [rmStrings EXCEPT ![s] = n] /\ UNCHANGED <<rm, rmNodes, rmExpected, rmGot>>
    BY NodesAre DEF R!Rewrite, Distinct
  <1>2. RmTypeOK'
    BY <1>1 DEF RmInv, RmTypeOK
  <1>3. \A i \in 1 .. Len(rm.list) : NameOf(i)' = NameOf(i)
    <2>. SUFFICES ASSUME NEW i \in 1 .. Len(rm.list)
                  PROVE  rmStrings'[rm.list[i].name] = rmStrings[rm.list[i].name]
      BY <1>1 DEF NameOf
    <2>1. rm.list[i].name \in Strings /\ rm.list[i].name # s
      BY <1>1, NodesAre DEF RmNode
    <2>. QED  BY <1>1, <2>1 DEF RmInv, RmTypeOK
  <1>4. OwnNames' /\ ExpectedIs' /\ NoneLeft'
    BY <1>1, <1>3 DEF RmInv, OwnNames, ExpectedIs, NoneLeft
  <1>. QED  BY <1>1, <1>2, <1>4 DEF RmInv, R!ResourcesAreFound

LEMMA ResourcesKeep ==
  ASSUME Distinct, R!ResourceAssumption, RmInv, R!RmNext
  PROVE  RmInv'
  <1>1. CASE R!Create \/ R!Destroy
    BY <1>1, EmptiedKeeps
  <1>2. CASE \E s \in Strings, ptr \in Pointers : R!Add(s, ptr)
    BY <1>2, AddKeeps
  <1>3. CASE \E ptr \in Pointers : R!SetDefault(ptr)
    BY <1>3, DefaultKeeps
  <1>4. ASSUME NEW n \in Names,
               R!RemoveResource(n) \/ R!GetResource(n) \/ \E s \in Strings : R!Rewrite(s, n)
        PROVE  RmInv'
    BY <1>4, RemoveKeeps, GetKeeps, RewriteKeeps
  <1>. QED  BY <1>1, <1>2, <1>3, <1>4 DEF R!RmNext

-----------------------------------------------------------------------------
(* The data centre: what a publish reads, and what is next to be read.     *)

\* The environment for which it is intact: a callback of publish does not
\* unsubscribe or destroy who is being walked, nor read what is published.
Guarded == ~ SelfUnlink /\ ~ NestedRead

Values == {0} \cup D!Commits
CacheOf == [pp : D!Handlers, data : [D!Buffers -> Values]]

\* Of an account: what is to be read, but for what is being published, is the
\* last commit; and while nothing is published nothing is left in the read buffer.
Ahead(d, data, l, t) == \A b \in D!Buffers : d.avail[b] /\ b # d.read => data[b] = l /\ ~ t
Fresh(c, l, t) == Ahead(c.pp, c.data, l, t)
Idle(c) == ~ c.pp.avail[c.pp.read]

LEMMA ReadBegun ==
  ASSUME NEW c \in CacheOf, NEW l, NEW t, Fresh(c, l, t), Idle(c), D!SomethingToRead(c.pp),
         NEW d, d = D!GetReadBuf(c.pp)
  PROVE  /\ d \in D!Handlers /\ c.data[d.read] = l
         /\ \A b \in D!Buffers : b # d.read => ~ d.avail[b]
  <1>1. c.pp.read \in D!Buffers /\ c.pp.avail \in [D!Buffers -> BOOLEAN] /\ c.pp \in D!Handlers
    BY DEF CacheOf, D!Handlers
  <1>2. PICK b \in D!Buffers : c.pp.avail[b] /\ b # c.pp.read
    BY DEF D!SomethingToRead, Idle
  <1>3. \A a \in D!Buffers : a = b \/ a = c.pp.read
    BY <1>1, <1>2 DEF D!Buffers
  <1>4. (IF c.pp.avail[0] THEN 0 ELSE 1) = b
    <2>1. CASE c.pp.avail[0]
      BY <1>1, <1>2, <1>3, <2>1 DEF D!Buffers, Idle
    <2>2. CASE ~ c.pp.avail[0]
      BY <1>1, <1>2, <1>3, <2>2 DEF D!Buffers, Idle
    <2>. QED  BY <2>1, <2>2
  <1>5. d = [c.pp EXCEPT !.read = b]
    BY <1>4 DEF D!GetReadBuf
  <1>6. d \in D!Handlers /\ d.read = b /\ d.avail = c.pp.avail
    BY <1>1, <1>5 DEF D!Handlers
  <1>. QED  BY <1>2, <1>3, <1>6 DEF Fresh, Ahead, Idle

LEMMA ReadEnded ==
  ASSUME NEW d \in D!Handlers, NEW e, e = D!SetReadDone(d)
  PROVE  /\ e \in D!Handlers /\ e.read = d.read /\ ~ e.avail[e.read]
         /\ \A b \in D!Buffers : b # d.read => e.avail[b] = d.avail[b]
  <1>1. e = [d EXCEPT !.avail = [d.avail EXCEPT ![d.read] = FALSE]]
    BY DEF D!SetReadDone
  <1>2. d.avail \in [D!Buffers -> BOOLEAN] /\ d.read \in D!Buffers
    BY DEF D!Handlers
  <1>3. PICK f : f = [d.avail EXCEPT ![d.read] = FALSE]
    OBVIOUS
  <1>4. /\ f \in [D!Buffers -> BOOLEAN] /\ ~ f[d.read]
        /\ \A b \in D!Buffers : b # d.read => f[b] = d.avail[b]
    BY <1>2, <1>3
  <1>5. e \in D!Handlers /\ e.read = d.read /\ e.avail = f
    BY <1>1, <1>3, <1>4 DEF D!Handlers
  <1>. QED  BY <1>4, <1>5

Stored(c, g, x) == [pp |-> D!SetWriteDone(g), data |-> [c.data EXCEPT ![g.write] = x]]

\* What is stored is fresh, and what is being read stays as it is.
StoredIn(e, c, x) ==
  /\ e \in CacheOf /\ e.pp.read = c.pp.read /\ e.data[c.pp.read] = c.data[c.pp.read]
  /\ Idle(c) => Idle(e)
  /\ Fresh(e, x, FALSE)

LEMMA Written ==
  ASSUME NEW c \in CacheOf, NEW x \in Values, NEW g, g = D!GetWriteBuf(c.pp), NEW e,
         e = Stored(c, g, x)
  PROVE  StoredIn(e, c, x)
  <1>1. /\ c.pp \in D!Handlers /\ c.pp.read \in D!Buffers /\ c.pp.write \in D!Buffers
        /\ c.data \in [D!Buffers -> Values]
    BY DEF CacheOf, D!Handlers
  <1>2. /\ g \in D!Handlers /\ g.read = c.pp.read /\ g.avail = c.pp.avail
        /\ g.write \in D!Buffers /\ g.write # c.pp.read
    <2>1. CASE c.pp.write = c.pp.read
      <3>1. 1 - c.pp.read \in D!Buffers /\ 1 - c.pp.read # c.pp.read
        BY <1>1 DEF D!Buffers
      <3>2. g = [c.pp EXCEPT !.write = 1 - c.pp.read]
        BY <2>1 DEF D!GetWriteBuf
      <3>. QED  BY <1>1, <3>1, <3>2 DEF D!Handlers
    <2>2. CASE c.pp.write # c.pp.read
      BY <1>1, <2>2 DEF D!GetWriteBuf
    <2>. QED  BY <2>1, <2>2
  <1>3. PICK f : f = [g.avail EXCEPT ![g.write] = TRUE]
    OBVIOUS
  <1>4. /\ f \in [D!Buffers -> BOOLEAN] /\ f[c.pp.read] = c.pp.avail[c.pp.read]
    BY <1>1, <1>2, <1>3 DEF D!Handlers
  <1>5. PICK h \in D!Handlers : h = D!SetWriteDone(g) /\ h.read = c.pp.read /\ h.avail = f
    <2>1. D!SetWriteDone(g) = [g EXCEPT !.avail = f, !.write = 1 - g.write]
      BY <1>3 DEF D!SetWriteDone
    <2>2. 1 - g.write \in D!Buffers
      BY <1>2 DEF D!Buffers
    <2>. QED  BY <1>2, <1>4, <2>1, <2>2 DEF D!Handlers
  <1>6. PICK k : k = [c.data EXCEPT ![g.write] = x]
    OBVIOUS
  <1>7. k \in [D!Buffers -> Values] /\ k[g.write] = x /\ k[c.pp.read] = c.data[c.pp.read]
    BY <1>1, <1>2, <1>6
  <1>8. e = [pp |-> h, data |-> k]
    BY <1>5, <1>6 DEF Stored
  <1>9. e \in CacheOf /\ e.pp = h /\ e.data = k
    <2>1. h \in D!Handlers /\ k \in [D!Buffers -> Values]
      BY <1>5, <1>7
    <2>2. [pp |-> h, data |-> k] \in CacheOf
      BY <2>1 DEF CacheOf
    <2>. QED  BY <1>8, <2>2
  <1>10. \A b \in D!Buffers : b = g.write \/ b = c.pp.read
    BY <1>1, <1>2 DEF D!Buffers
  <1>. QED  BY <1>4, <1>5, <1>7, <1>9, <1>10 DEF StoredIn, Fresh, Ahead, Idle

\* A value no buffer holds.
LEMMA NewValue ==
  ASSUME NEW f \in [D!Buffers -> Values]
  PROVE  (CHOOSE d \in D!Commits : \A b \in D!Buffers : f[b] # d) \in Values
  <1>1. \E d \in D!Commits : \A b \in D!Buffers : f[b] # d
    <2>1. D!Commits = {1, 2, 3} /\ D!Buffers = {0, 1}
      BY DEF D!Commits, D!Buffers
    <2>2. \E d \in {1, 2, 3} : f[0] # d /\ f[1] # d
      OBVIOUS
    <2>. QED  BY <2>1, <2>2
  <1>. QED  BY <1>1 DEF Values

\* The calls of publish in progress: of different accounts that are there, each
\* with the buffer it reads and the value it found.
IsWalk(w) == w = [pub |-> w.pub, node |-> w.node, rbuf |-> w.rbuf, value |-> w.value]
Apart(s) == /\ \E S : s \in Seq(S)
            /\ \A i \in 1 .. Len(s) : IsWalk(s[i])
            /\ \A i, j \in 1 .. Len(s) : s[i].pub = s[j].pub => i = j

LEMMA ApartHas ==
  ASSUME NEW s, Apart(s)
  PROVE  Len(s) \in Nat /\ DOMAIN s = 1 .. Len(s)
  <1>1. PICK S : s \in Seq(S)
    BY DEF Apart
  <1>. QED  BY <1>1, LenProperties

After(s) == Tail(s)

LEMMA Left ==
  ASSUME NEW s, Apart(s), s # <<>>, NEW t, t = After(s)
  PROVE  /\ Apart(t) /\ Len(s) \in Nat \ {0} /\ Len(t) = Len(s) - 1
         /\ \A i \in 1 .. Len(t) : t[i] = s[i + 1] /\ i + 1 \in 1 .. Len(s) /\ t[i].pub # s[1].pub
  <1>0. t = Tail(s)
    BY DEF After
  <1>1. PICK S : s \in Seq(S)
    BY DEF Apart
  <1>2. Len(s) \in Nat \ {0}
    BY <1>1, EmptySeq, LenProperties
  <1>3. t \in Seq(S) /\ Len(t) = Len(s) - 1 /\ \A i \in 1 .. Len(t) : t[i] = s[i + 1]
    BY <1>0, <1>1, <1>2, HeadTailProperties
  <1>4. \A i \in 1 .. Len(t) : i + 1 \in 1 .. Len(s) /\ 1 \in 1 .. Len(s) /\ i + 1 # 1
    BY <1>2, <1>3
  <1>5. ASSUME NEW i \in 1 .. Len(t), NEW j \in 1 .. Len(t), t[i].pub = t[j].pub PROVE i = j
    <2>1. i + 1 = j + 1
      BY <1>3, <1>4, <1>5 DEF Apart
    <2>. QED  BY <1>2, <1>3, <2>1
  <1>6. \A i \in 1 .. Len(t) : IsWalk(t[i]) /\ t[i].pub # s[1].pub
    BY <1>3, <1>4 DEF Apart
  <1>7. Apart(t)
    BY <1>3, <1>5, <1>6 DEF Apart
  <1>. QED  BY <1>2, <1>3, <1>4, <1>6, <1>7

Before(g, t) == <<g>> \o t

LEMMA Pushed ==
  ASSUME NEW t, Apart(t), NEW g, IsWalk(g), \A i \in 1 .. Len(t) : t[i].pub # g.pub,
         NEW s, s = Before(g, t)
  PROVE  /\ Apart(s) /\ Len(s) = Len(t) + 1 /\ s[1] = g /\ s # <<>> /\ After(s) = t
         /\ \A i \in 1 .. Len(s) : i = 1 \/ (i - 1 \in 1 .. Len(t) /\ s[i] = t[i - 1])
  <1>1. PICK S : t \in Seq(S)
    BY DEF Apart
  <1>2. PICK Q : Q = S \cup {g}
    OBVIOUS
  <1>3. t \in Seq(Q) /\ Len(t) \in Nat
    BY <1>1, <1>2, LenProperties, ElementOfSeq
  <1>4. PICK u \in Seq(Q) : u = <<g>>
    <2>1. <<g>> \in Seq(Q)
      BY <1>2
    <2>. QED  BY <2>1
  <1>5. Len(u) = 1 /\ u[1] = g
    BY <1>4
  <1>6. s = u \o t
    BY <1>4 DEF Before
  <1>7. /\ s \in Seq(Q) /\ Len(s) = Len(t) + 1 /\ s[1] = g
        /\ \A i \in 2 .. Len(s) : s[i] = t[i - 1]
    BY <1>3, <1>4, <1>5, <1>6, ConcatProperties
  <1>8. \A i \in 1 .. Len(s) : i = 1 \/ (i \in 2 .. Len(s) /\ i - 1 \in 1 .. Len(t))
    BY <1>3, <1>7
  <1>9. ASSUME NEW i \in 1 .. Len(s), NEW j \in 1 .. Len(s), s[i].pub = s[j].pub PROVE i = j
    <2>1. CASE i = 1 /\ j = 1
      BY <2>1
    <2>2. CASE i = 1 /\ j # 1
      BY <1>7, <1>8, <1>9, <2>2
    <2>3. CASE i # 1 /\ j = 1
      BY <1>7, <1>8, <1>9, <2>3
    <2>4. CASE i # 1 /\ j # 1
      <3>1. i - 1 \in 1 .. Len(t) /\ j - 1 \in 1 .. Len(t) /\ t[i - 1].pub = t[j - 1].pub
        BY <1>7, <1>8, <1>9, <2>4
      <3>2. i - 1 = j - 1
        BY <3>1 DEF Apart
      <3>. QED  BY <1>3, <1>7, <3>2
    <2>. QED  BY <2>1, <2>2, <2>3, <2>4
  <1>10. \A i \in 1 .. Len(s) : IsWalk(s[i])
    BY <1>7, <1>8 DEF Apart
  <1>11. Apart(s)
    BY <1>7, <1>9, <1>10 DEF Apart
  <1>12. s # <<>>
    BY <1>3, <1>7, EmptySeq
  <1>13. After(s) = t
    <2>1. /\ Tail(s) \in Seq(Q) /\ Len(Tail(s)) = Len(s) - 1
          /\ \A i \in 1 .. Len(Tail(s)) : Tail(s)[i] = s[i + 1]
      BY <1>7, <1>12, HeadTailProperties
    <2>2. \A i \in 1 .. Len(t) : i + 1 \in 2 .. Len(s) /\ (i + 1) - 1 = i
      BY <1>3, <1>7
    <2>3. Len(Tail(s)) = Len(t) /\ \A i \in 1 .. Len(t) : Tail(s)[i] = t[i]
      BY <1>3, <1>7, <2>1, <2>2
    <2>. QED  BY <1>3, <2>1, <2>3, SeqEqual DEF After
  <1>. QED  BY <1>7, <1>8, <1>11, <1>12, <1>13

WalksApart == Apart(walks)
Reads(i) == /\ walks[i].pub \in live \cap Cached
            /\ cache[walks[i].pub].pp.read = walks[i].rbuf
            /\ cache[walks[i].pub].data[walks[i].rbuf] = walks[i].value
Walked(a) == \E i \in 1 .. Len(walks) : walks[i].pub = a
DcTypes == /\ live \subseteq Accounts /\ cache \in [Accounts -> CacheOf]
           /\ latest \in [Accounts -> Values] /\ taken \in [Accounts -> BOOLEAN]
CachesOk == \A a \in Accounts : /\ Fresh(cache[a], latest[a], taken[a])
                                /\ Idle(cache[a]) \/ Walked(a)
DcInv == DcTypes /\ WalksApart /\ (\A i \in 1 .. Len(walks) : Reads(i)) /\ CachesOk

LEMMA NewIsIdle ==
  D!NewCache \in CacheOf /\ Idle(D!NewCache) /\ \A l, t : Fresh(D!NewCache, l, t)
  <1>1. PICK n : n = [b \in D!Buffers |-> FALSE]
    OBVIOUS
  <1>2. PICK z : z = [b \in D!Buffers |-> 0]
    OBVIOUS
  <1>3. D!NewCache = [pp |-> [write |-> 0, read |-> 0, avail |-> n], data |-> z]
    BY <1>1, <1>2 DEF D!NewCache, D!NewHandler
  <1>4. n \in [D!Buffers -> BOOLEAN] /\ z \in [D!Buffers -> Values] /\ 0 \in D!Buffers
    BY <1>1, <1>2 DEF Values, D!Buffers
  <1>5. [write |-> 0, read |-> 0, avail |-> n] \in D!Handlers
    BY <1>4 DEF D!Handlers
  <1>6. D!NewCache \in CacheOf
    BY <1>3, <1>4, <1>5 DEF CacheOf
  <1>7. \A b \in D!Buffers : ~ D!NewCache.pp.avail[b]
    BY <1>1, <1>3
  <1>8. D!NewCache.pp.read = 0
    BY <1>3
  <1>. QED  BY <1>4, <1>6, <1>7, <1>8 DEF Idle, Fresh, Ahead

LEMMA CenterBegins == D!CenterAssumption /\ D!DcInit => DcInv
  <1>. SUFFICES ASSUME D!CenterAssumption, D!DcInit PROVE DcInv
    OBVIOUS
  <1>1. /\ live = {Main} /\ cache = [a \in Accounts |-> D!NewCache] /\ walks = <<>>
        /\ latest = [a \in Accounts |-> 0] /\ taken = [a \in Accounts |-> TRUE] /\ Main \in Accounts
    BY DEF D!DcInit, D!CenterAssumption
  <1>2. DcTypes
    BY <1>1, NewIsIdle DEF DcTypes, Values
  <1>3. CachesOk
    BY <1>1, NewIsIdle DEF CachesOk
  <1>4. walks \in Seq({}) /\ Len(walks) = 0
    BY <1>1
  <1>. QED  BY <1>2, <1>3, <1>4 DEF DcInv, WalksApart, Apart

\* A step that changes the cache of one account, and calls of publish for it only.
Account(a, c, l, t) ==
  /\ cache' = [cache EXCEPT ![a] = c] /\ latest' = [latest EXCEPT ![a] = l]
  /\ taken' = [taken EXCEPT ![a] = t] /\ live' \subseteq Accounts
WalksOf(a, c) ==
  /\ \A i \in 1 .. Len(walks') :
       \/ /\ walks'[i].pub = a /\ a \in live' \cap Cached
          /\ c.pp.read = walks'[i].rbuf /\ c.data[walks'[i].rbuf] = walks'[i].value
       \/ walks'[i].pub \in live' \ {a} /\ \E j \in 1 .. Len(walks) : walks'[i] = walks[j]
  /\ \A j \in 1 .. Len(walks) :
       walks[j].pub # a => \E i \in 1 .. Len(walks') : walks'[i] = walks[j]
  /\ Idle(c) \/ \E i \in 1 .. Len(walks') : walks'[i].pub = a

LEMMA AccountChanges ==
  ASSUME DcInv, NEW a \in Accounts, NEW c \in CacheOf, NEW l \in Values, NEW t \in BOOLEAN,
         Account(a, c, l, t), Fresh(c, l, t), WalksApart', WalksOf(a, c)
  PROVE  DcInv'
  <1>1. /\ cache'[a] = c /\ latest'[a] = l /\ taken'[a] = t
        /\ \A b \in Accounts : b # a => cache'[b] = cache[b] /\ latest'[b] = latest[b] /\ taken'[b] = taken[b]
    BY DEF DcInv, DcTypes, Account
  <1>2. DcTypes'
    BY DEF DcInv, DcTypes, Account
  <1>3. ASSUME NEW i \in 1 .. Len(walks') PROVE Reads(i)'
    <2>1. CASE walks'[i].pub = a
      BY <1>1, <2>1 DEF Reads, WalksOf
    <2>2. CASE walks'[i].pub # a
      <3>1. PICK j \in 1 .. Len(walks) : walks'[i] = walks[j]
        BY <2>2 DEF WalksOf
      <3>2. Reads(j)
        BY DEF DcInv
      <3>3. walks'[i].pub \in live' /\ walks[j].pub \in Accounts
        BY <2>2, <3>2 DEF DcInv, DcTypes, Reads, WalksOf
      <3>. QED  BY <1>1, <2>2, <3>1, <3>2, <3>3 DEF Reads
    <2>. QED  BY <2>1, <2>2
  <1>4. ASSUME NEW b \in Accounts
        PROVE  /\ Fresh(cache'[b], latest'[b], taken'[b])
               /\ Idle(cache'[b]) \/ Walked(b)'
    <2>1. CASE b = a
      BY <1>1, <2>1 DEF Walked, WalksOf
    <2>2. CASE b # a
      <3>1. Fresh(cache[b], latest[b], taken[b]) /\ (Idle(cache[b]) \/ Walked(b))
        BY DEF DcInv, CachesOk
      <3>2. Walked(b) => Walked(b)'
        BY <2>2 DEF Walked, WalksOf
      <3>. QED  BY <1>1, <2>2, <3>1, <3>2
    <2>. QED  BY <2>1, <2>2
  <1>5. CachesOk'
    BY <1>4 DEF CachesOk
  <1>. QED  BY <1>2, <1>3, <1>5 DEF DcInv

\* A special case: no call of publish begins, goes on or ends.
LEMMA CacheChanges ==
  ASSUME DcInv, NEW a \in Accounts, NEW c \in CacheOf, NEW l \in Values, NEW t \in BOOLEAN,
         Account(a, c, l, t), UNCHANGED walks,
         Fresh(c, l, t), \A b \in live : b = a \/ b \in live',
         IF Walked(a) THEN /\ live' = live /\ c.pp.read = cache[a].pp.read
                           /\ c.data[c.pp.read] = cache[a].data[c.pp.read]
                      ELSE Idle(c)
  PROVE  DcInv'
  <1>1. /\ WalksApart'
        /\ \A i \in 1 .. Len(walks') : walks'[i] = walks[i] /\ i \in 1 .. Len(walks) /\ Reads(i)
        /\ \A i \in 1 .. Len(walks) : walks'[i] = walks[i] /\ i \in 1 .. Len(walks')
    BY DEF DcInv, WalksApart
  <1>2. ASSUME NEW i \in 1 .. Len(walks')
        PROVE  \/ /\ walks'[i].pub = a /\ a \in live' \cap Cached
                  /\ c.pp.read = walks'[i].rbuf /\ c.data[walks'[i].rbuf] = walks'[i].value
               \/ walks'[i].pub \in live' \ {a} /\ \E j \in 1 .. Len(walks) : walks'[i] = walks[j]
    <2>1. CASE walks'[i].pub = a
      <3>1. Walked(a)
        BY <1>1, <2>1 DEF Walked
      <3>. QED  BY <1>1, <2>1, <3>1 DEF Reads
    <2>2. CASE walks'[i].pub # a
      BY <1>1, <2>2 DEF Reads
    <2>. QED  BY <2>1, <2>2
  <1>3. Idle(c) \/ \E i \in 1 .. Len(walks') : walks'[i].pub = a
    BY <1>1 DEF Walked
  <1>4. \A j \in 1 .. Len(walks) : walks[j].pub # a => \E i \in 1 .. Len(walks') : walks'[i] = walks[j]
    BY <1>1
  <1>5. WalksOf(a, c)
    BY <1>2, <1>3, <1>4 DEF WalksOf
  <1>. QED  BY <1>1, <1>5, AccountChanges

LEMMA PublishingIs ==
  ASSUME DcInv, NEW a
  PROVE  a \in D!Publishing <=> Walked(a)
  <1>1. DOMAIN walks = 1 .. Len(walks)
    BY ApartHas DEF DcInv, WalksApart
  <1>. QED  BY <1>1 DEF D!Publishing, D!ToSet, Walked

\* When what is read has been read, nothing of it is left.
LEMMA EndIsIdle ==
  ASSUME NEW o \in CacheOf, NEW d \in D!Handlers, NEW e, e = D!SetReadDone(d), NEW c,
         c = [o EXCEPT !.pp = e], NEW l, NEW t,
         Ahead(d, o.data, l, t)
  PROVE  c \in CacheOf /\ Idle(c) /\ Fresh(c, l, t)
  <1>1. /\ e \in D!Handlers /\ e.read = d.read /\ ~ e.avail[e.read]
        /\ \A b \in D!Buffers : b # d.read => e.avail[b] = d.avail[b]
    BY ReadEnded
  <1>2. c \in CacheOf /\ c.pp = e /\ c.data = o.data
    BY <1>1 DEF CacheOf
  <1>. QED  BY <1>1, <1>2 DEF Idle, Fresh, Ahead

\* An account that is created or destroyed, a commit and a pull.
LEMMA CreateKeeps ==
  ASSUME DcInv, NEW a \in Accounts, NEW m \in BOOLEAN, NEW f \in BOOLEAN, D!Create(a, m, f)
  PROVE  DcInv'
  <1>1. /\ a \notin live /\ live' = live \cup {a} /\ cache' = [cache EXCEPT ![a] = D!NewCache]
        /\ UNCHANGED <<walks, latest, taken>>
    BY DEF D!Create
  <1>2. PICK c \in CacheOf : c = D!NewCache /\ Idle(c) /\ \A l, t : Fresh(c, l, t)
    BY NewIsIdle
  <1>3. PICK l \in Values, t \in BOOLEAN : l = latest[a] /\ t = taken[a]
    BY DEF DcInv, DcTypes
  <1>4. Account(a, c, l, t)
    BY <1>1, <1>2, <1>3 DEF Account, DcInv, DcTypes
  <1>5. ~ Walked(a)
    BY <1>1 DEF Walked, DcInv, Reads
  <1>. QED  BY <1>1, <1>2, <1>4, <1>5, CacheChanges

LEMMA DestroyKeeps ==
  ASSUME Guarded, DcInv, NEW a \in Accounts, D!Destroy(a)
  PROVE  DcInv'
  <1>1. /\ a \notin D!Publishing /\ live' = live \ {a} /\ cache' = [cache EXCEPT ![a] = D!NewCache]
        /\ latest' = [latest EXCEPT ![a] = 0] /\ taken' = [taken EXCEPT ![a] = TRUE]
        /\ UNCHANGED walks
    BY DEF D!Destroy, Guarded
  <1>2. PICK c \in CacheOf : c = D!NewCache /\ Idle(c) /\ \A l, t : Fresh(c, l, t)
    BY NewIsIdle
  <1>3. Account(a, c, 0, TRUE) /\ 0 \in Values
    BY <1>1, <1>2 DEF Account, DcInv, DcTypes, Values
  <1>4. ~ Walked(a)
    BY <1>1, PublishingIs
  <1>. QED  BY <1>1, <1>2, <1>3, <1>4, CacheChanges

LEMMA CommitKeeps ==
  ASSUME DcInv, NEW a \in Accounts, D!Commit(a)
  PROVE  DcInv'
  <1>1. PICK o \in CacheOf : o = cache[a]
    BY DEF DcInv, DcTypes
  <1>2. PICK g : g = D!GetWriteBuf(o.pp)
    OBVIOUS
  <1>3. PICK x \in Values : x = CHOOSE d \in D!Commits : \A b \in D!Buffers : o.data[b] # d
    BY NewValue DEF CacheOf
  <1>4. PICK c : c = Stored(o, g, x)
    OBVIOUS
  <1>5. /\ cache' = [cache EXCEPT ![a] = c] /\ latest' = [latest EXCEPT ![a] = x]
        /\ taken' = [taken EXCEPT ![a] = FALSE] /\ UNCHANGED <<live, walks>>
    BY <1>1, <1>2, <1>3, <1>4 DEF D!Commit, Stored
  <1>6. Fresh(o, latest[a], taken[a]) /\ (Idle(o) \/ Walked(a))
    BY <1>1 DEF DcInv, CachesOk
  <1>7. StoredIn(c, o, x)
    <2>1. o \in CacheOf /\ x \in Values /\ g = D!GetWriteBuf(o.pp) /\ c = Stored(o, g, x)
      BY <1>1, <1>2, <1>3, <1>4
    <2>. QED  BY <2>1, Written
  <1>8. Account(a, c, x, FALSE)
    BY <1>5 DEF Account, DcInv, DcTypes
  <1>9. IF Walked(a) THEN /\ live' = live /\ c.pp.read = cache[a].pp.read
                          /\ c.data[c.pp.read] = cache[a].data[c.pp.read]
                     ELSE Idle(c)
    BY <1>1, <1>5, <1>6, <1>7 DEF StoredIn
  <1>10. c \in CacheOf /\ Fresh(c, x, FALSE)
    BY <1>7 DEF StoredIn
  <1>. QED  BY <1>5, <1>8, <1>9, <1>10, CacheChanges

LEMMA PullKeeps ==
  ASSUME Guarded, D!CenterAssumption, DcInv, NEW b \in Accounts, NEW id, D!PullCached(b, id)
  PROVE  DcInv'
  <1>1. PICK a : a = D!Find(lists.pub[b], id)
    OBVIOUS
  <1>2. PICK d : d = D!GetReadBuf(cache[a].pp)
    OBVIOUS
  <1>3. PICK e : e = D!SetReadDone(d)
    OBVIOUS
  <1>4. /\ a \in Cached /\ D!SomethingToRead(cache[a].pp) /\ a \notin D!Publishing
        /\ cache' = [cache EXCEPT ![a].pp = e] /\ taken' = [taken EXCEPT ![a] = TRUE]
        /\ UNCHANGED <<live, walks, latest>>
    BY <1>1, <1>2, <1>3 DEF D!PullCached, Guarded
  <1>5. a \in Accounts
    BY <1>4 DEF D!CenterAssumption
  <1>6. PICK o \in CacheOf : o = cache[a]
    BY <1>5 DEF DcInv, DcTypes
  <1>7. ~ Walked(a)
    BY <1>4, PublishingIs
  <1>8. Fresh(o, latest[a], taken[a]) /\ Idle(o)
    BY <1>5, <1>6, <1>7 DEF DcInv, CachesOk
  <1>9. d \in D!Handlers /\ Ahead(d, o.data, latest[a], TRUE)
    BY <1>2, <1>4, <1>6, <1>8, ReadBegun DEF Ahead
  <1>10. PICK c : c = [o EXCEPT !.pp = e]
    OBVIOUS
  <1>11. c \in CacheOf /\ Idle(c) /\ Fresh(c, latest[a], TRUE)
    BY <1>3, <1>9, <1>10, EndIsIdle
  <1>12. PICK l \in Values : l = latest[a]
    BY <1>5 DEF DcInv, DcTypes
  <1>13. Account(a, c, l, TRUE)
    BY <1>4, <1>5, <1>6, <1>10, <1>12 DEF Account, DcInv, DcTypes
  <1>. QED  BY <1>4, <1>5, <1>7, <1>11, <1>12, <1>13, CacheChanges

\* Sequence u has the calls of publish that are not for account a.
OthersOf(u, a) ==
  /\ \A i \in 1 .. Len(u) : \E j \in 1 .. Len(walks) : u[i] = walks[j]
  /\ \A j \in 1 .. Len(walks) : walks[j].pub # a => \E i \in 1 .. Len(u) : u[i] = walks[j]

\* One more step of a publish: its next callback, or its end.
LEMMA WalkKeeps ==
  ASSUME DcInv, NEW a \in live \cap Cached, NEW o \in CacheOf, o = cache[a],
         NEW s, Apart(s), s # <<>>, NEW f, f = s[1], f.pub = a,
         NEW u, u = After(s), OthersOf(u, a),
         NEW d \in D!Handlers, d.read = f.rbuf, o.data[f.rbuf] = f.value,
         taken' \in [Accounts -> BOOLEAN], \A b \in Accounts : b # a => taken'[b] = taken[b],
         Ahead(d, o.data, latest[a], taken'[a]),
         NEW rest, D!Walk(s, rest, d), UNCHANGED <<live, latest>>
  PROVE  DcInv'
  <1>1. a \in Accounts
    BY DEF DcInv, DcTypes
  <1>2. PICK l \in Values : l = latest[a]
    BY <1>1 DEF DcInv, DcTypes
  <1>0. PICK t \in BOOLEAN : t = taken'[a] /\ taken' = [taken EXCEPT ![a] = t]
    <2>1. taken' = [taken EXCEPT ![a] = taken'[a]] /\ taken'[a] \in BOOLEAN
      BY <1>1 DEF DcInv, DcTypes
    <2>. QED  BY <2>1
  <1>3. /\ Apart(u) /\ \A i \in 1 .. Len(u) : u[i].pub # a /\ u[i].pub \in live
    <2>1. Apart(u) /\ \A i \in 1 .. Len(u) : u[i].pub # a
      <3>1. Apart(s) /\ s # <<>> /\ u = After(s) /\ f = s[1] /\ f.pub = a
        OBVIOUS
      <3>2. Apart(u) /\ \A i \in 1 .. Len(u) : u[i].pub # s[1].pub
        BY ONLY <3>1, Left
      <3>. QED  BY <3>1, <3>2
    <2>2. \A j \in 1 .. Len(walks) : walks[j].pub \in live
      BY DEF DcInv, Reads
    <2>. QED  BY <2>1, <2>2 DEF OthersOf
  <1>4. IsWalk(f)
    BY Left DEF Apart
  <1>5. CASE D!Called(rest) = <<>>
    <2>1. PICK e : e = D!SetReadDone(d)
      OBVIOUS
    <2>2. PICK c : c = [o EXCEPT !.pp = e]
      OBVIOUS
    <2>3. c \in CacheOf /\ Idle(c) /\ Fresh(c, l, t)
      BY <1>0, <1>2, <2>1, <2>2, EndIsIdle
    <2>4. walks' = u /\ cache' = [cache EXCEPT ![a] = c]
      BY <1>5, <2>1, <2>2 DEF D!Walk, After
    <2>5. Account(a, c, l, t)
      BY <1>0, <1>1, <1>2, <2>4 DEF Account, DcInv, DcTypes
    <2>6. WalksApart' /\ WalksOf(a, c)
      BY <1>3, <2>3, <2>4 DEF WalksApart, WalksOf, OthersOf
    <2>. QED  BY <1>0, <1>1, <1>2, <2>3, <2>5, <2>6, AccountChanges
  <1>6. CASE D!Called(rest) # <<>>
    <2>1. PICK n : n = D!Called(rest)[1]
      OBVIOUS
    <2>2. PICK g : g = [f EXCEPT !.node = n]
      OBVIOUS
    <2>3. PICK c : c = [o EXCEPT !.pp = d]
      OBVIOUS
    <2>4. PICK v : v = Before(g, u)
      OBVIOUS
    <2>5. walks' = v /\ cache' = [cache EXCEPT ![a] = c]
      BY <1>6, <2>1, <2>2, <2>3, <2>4 DEF D!Walk, Before, After
    <2>6. g = [pub |-> f.pub, node |-> n, rbuf |-> f.rbuf, value |-> f.value]
      BY <1>4, <2>2 DEF IsWalk
    <2>7. IsWalk(g) /\ g.pub = a /\ g.rbuf = f.rbuf /\ g.value = f.value
      BY <2>6 DEF IsWalk
    <2>8. /\ Apart(v) /\ v[1] = g /\ Len(v) = Len(u) + 1
          /\ \A i \in 1 .. Len(v) : i = 1 \/ (i - 1 \in 1 .. Len(u) /\ v[i] = u[i - 1])
      <3>1. Apart(u) /\ IsWalk(g) /\ v = Before(g, u) /\ \A i \in 1 .. Len(u) : u[i].pub # g.pub
        BY <1>3, <2>4, <2>7
      <3>. QED  BY ONLY <3>1, Pushed
    <2>9. c \in CacheOf /\ c.pp = d /\ c.data = o.data
      BY <2>3 DEF CacheOf
    <2>10. Fresh(c, l, t)
      BY <1>0, <1>2, <2>9 DEF Fresh
    <2>11. Account(a, c, l, t)
      BY <1>0, <1>1, <1>2, <2>5 DEF Account, DcInv, DcTypes
    <2>12. Len(u) \in Nat
      BY <1>3, ApartHas
    <2>13. /\ 1 \in 1 .. Len(v)
           /\ \A i \in 1 .. Len(u) : i + 1 \in 1 .. Len(v) /\ i + 1 # 1 /\ (i + 1) - 1 = i
      BY <2>8, <2>12
    <2>14. \A i \in 1 .. Len(u) : v[i + 1] = u[i] /\ i + 1 \in 1 .. Len(v)
      BY <2>8, <2>13
    <2>15. WalksOf(a, c)
      <3>1. ASSUME NEW i \in 1 .. Len(v)
            PROVE  \/ /\ v[i].pub = a /\ a \in live' \cap Cached
                      /\ c.pp.read = v[i].rbuf /\ c.data[v[i].rbuf] = v[i].value
                   \/ v[i].pub \in live' \ {a} /\ \E j \in 1 .. Len(walks) : v[i] = walks[j]
        <4>1. CASE i = 1
          BY <2>7, <2>8, <2>9, <4>1
        <4>2. CASE i # 1
          <5>1. i - 1 \in 1 .. Len(u) /\ v[i] = u[i - 1]
            BY <2>8, <4>2
          <5>2. \E j \in 1 .. Len(walks) : u[i - 1] = walks[j]
            BY <5>1 DEF OthersOf
          <5>. QED  BY <1>3, <5>1, <5>2
        <4>. QED  BY <4>1, <4>2
      <3>2. ASSUME NEW j \in 1 .. Len(walks), walks[j].pub # a
            PROVE  \E i \in 1 .. Len(v) : v[i] = walks[j]
        <4>1. PICK i \in 1 .. Len(u) : u[i] = walks[j]
          BY <3>2 DEF OthersOf
        <4>2. v[i + 1] = walks[j] /\ i + 1 \in 1 .. Len(v)
          BY <2>14, <4>1
        <4>. QED  BY <4>2
      <3>3. \E i \in 1 .. Len(v) : v[i].pub = a
        BY <2>7, <2>8, <2>13
      <3>. QED  BY <2>5, <3>1, <3>2, <3>3 DEF WalksOf
    <2>16. WalksApart'
      BY <2>5, <2>8 DEF WalksApart
    <2>. QED  BY <1>0, <1>1, <1>2, <2>9, <2>10, <2>11, <2>15, <2>16, AccountChanges
  <1>. QED  BY <1>5, <1>6

LEMMA PublishKeeps ==
  ASSUME Guarded, D!CenterAssumption, DcInv, NEW a \in Accounts, D!Publish(a)
  PROVE  DcInv'
  <1>1. PICK o \in CacheOf : o = cache[a]
    BY DEF DcInv, DcTypes
  <1>2. PICK d : d = D!GetReadBuf(o.pp)
    OBVIOUS
  <1>3. PICK w : w = [pub |-> a, node |-> D!None, rbuf |-> d.read, value |-> latest[a]]
    OBVIOUS
  <1>4. PICK s : s = Before(w, walks)
    OBVIOUS
  <1>5. /\ a \in live \cap Cached /\ D!SomethingToRead(o.pp) /\ a \notin D!Publishing
        /\ D!Walk(s, lists.sub[a], d) /\ taken' = [taken EXCEPT ![a] = TRUE]
        /\ UNCHANGED <<live, latest>>
    BY <1>1, <1>2, <1>3, <1>4 DEF D!Publish, Guarded, Before
  <1>6. ~ Walked(a)
    BY <1>5, PublishingIs
  <1>7. Fresh(o, latest[a], taken[a]) /\ Idle(o)
    BY <1>1, <1>6 DEF DcInv, CachesOk
  <1>8. d \in D!Handlers /\ o.data[d.read] = latest[a] /\ Ahead(d, o.data, latest[a], TRUE)
    BY <1>2, <1>5, <1>7, ReadBegun DEF Ahead
  <1>9. IsWalk(w) /\ w.pub = a /\ d.read = w.rbuf /\ o.data[w.rbuf] = w.value
    BY <1>3, <1>8 DEF IsWalk
  <1>10. Apart(s) /\ s # <<>> /\ w = s[1] /\ walks = After(s)
    <2>1. /\ Apart(walks) /\ IsWalk(w) /\ s = Before(w, walks)
          /\ \A i \in 1 .. Len(walks) : walks[i].pub # w.pub
      BY <1>4, <1>6, <1>9 DEF DcInv, WalksApart, Walked
    <2>. QED  BY ONLY <2>1, Pushed
  <1>11. OthersOf(walks, a)
    BY DEF OthersOf
  <1>12. /\ taken' \in [Accounts -> BOOLEAN] /\ \A b \in Accounts : b # a => taken'[b] = taken[b]
         /\ taken'[a] = TRUE
    BY <1>5 DEF DcInv, DcTypes
  <1>13. Ahead(d, o.data, latest[a], taken'[a])
    BY <1>8, <1>12
  <1>. QED  BY <1>1, <1>5, <1>8, <1>9, <1>10, <1>11, <1>12, <1>13, WalkKeeps

LEMMA ReturnKeeps ==
  ASSUME DcInv, D!Returned
  PROVE  DcInv'
  <1>1. PICK f : f = walks[1]
    OBVIOUS
  <1>2. PICK a : a = f.pub
    OBVIOUS
  <1>3. PICK rest : rest = LET subs == lists.sub[a]
                           IN  SubSeq(subs, D!IndexFirstSubSeq(<<f.node>>, subs) + 1, Len(subs))
    OBVIOUS
  <1>4. PICK d : d = cache[a].pp
    OBVIOUS
  <1>5. walks # <<>> /\ D!Walk(walks, rest, d) /\ UNCHANGED <<live, latest, taken>>
    BY <1>1, <1>2, <1>3, <1>4 DEF D!Returned
  <1>6. PICK u : u = After(walks)
    OBVIOUS
  <1>7. /\ Apart(u) /\ Len(walks) \in Nat \ {0} /\ Len(u) = Len(walks) - 1
        /\ \A i \in 1 .. Len(u) : u[i] = walks[i + 1] /\ i + 1 \in 1 .. Len(walks) /\ u[i].pub # a
    <2>1. Apart(walks) /\ walks # <<>> /\ u = After(walks)
      BY <1>5, <1>6 DEF DcInv, WalksApart
    <2>2. /\ Apart(u) /\ Len(walks) \in Nat \ {0} /\ Len(u) = Len(walks) - 1
          /\ \A i \in 1 .. Len(u) : /\ u[i] = walks[i + 1] /\ i + 1 \in 1 .. Len(walks)
                                    /\ u[i].pub # walks[1].pub
      BY ONLY <2>1, Left
    <2>. QED  BY <1>1, <1>2, <2>2
  <1>8. Reads(1)
    <2>1. 1 \in 1 .. Len(walks)
      BY <1>7
    <2>. QED  BY <2>1 DEF DcInv
  <1>9. /\ a \in live \cap Cached /\ a \in Accounts
        /\ cache[a].pp.read = f.rbuf /\ cache[a].data[f.rbuf] = f.value
    BY <1>1, <1>2, <1>8 DEF Reads, DcInv, DcTypes
  <1>10. PICK o \in CacheOf : o = cache[a]
    BY <1>9 DEF DcInv, DcTypes
  <1>11. d \in D!Handlers /\ d = o.pp
    BY <1>4, <1>10 DEF CacheOf
  <1>12. /\ taken' \in [Accounts -> BOOLEAN] /\ \A b \in Accounts : b # a => taken'[b] = taken[b]
         /\ Fresh(o, latest[a], taken[a]) /\ taken'[a] = taken[a]
    BY <1>5, <1>9, <1>10 DEF DcInv, DcTypes, CachesOk
  <1>13. Ahead(d, o.data, latest[a], taken'[a])
    BY <1>11, <1>12 DEF Fresh
  <1>15. OthersOf(u, a)
    <2>1. ASSUME NEW j \in 1 .. Len(walks), walks[j].pub # a
          PROVE  \E i \in 1 .. Len(u) : u[i] = walks[j]
      <3>1. j # 1
        BY <1>1, <1>2, <2>1
      <3>2. j - 1 \in 1 .. Len(u) /\ (j - 1) + 1 = j
        BY <1>7, <3>1
      <3>. QED  BY <1>7, <3>2
    <2>. QED  BY <1>7, <2>1 DEF OthersOf
  <1>16. Apart(walks)
    BY DEF DcInv, WalksApart
  <1>17. f.pub = a /\ d.read = f.rbuf /\ o.data[f.rbuf] = f.value
    BY <1>2, <1>4, <1>9, <1>10
  <1>. QED  BY <1>1, <1>5, <1>6, <1>9, <1>10, <1>11, <1>12, <1>13, <1>15, <1>16, <1>17, WalkKeeps

\* The steps that neither write nor read data.
LEMMA OthersKeep ==
  ASSUME DcInv, UNCHANGED <<live, cache, walks, latest, taken>>
  PROVE  DcInv'
  BY DEF DcInv, DcTypes, WalksApart, Reads, CachesOk, Walked

LEMMA DeinitKeeps ==
  ASSUME D!CenterAssumption, DcInv, D!Deinit
  PROVE  DcInv'
  <1>1. live' = {Main} /\ walks = <<>> /\ Main \in Accounts /\ UNCHANGED <<cache, walks, latest, taken>>
    BY DEF D!Deinit, D!CenterAssumption
  <1>2. Len(walks) = 0
    BY <1>1
  <1>3. DcTypes' /\ WalksApart' /\ CachesOk'
    BY <1>1 DEF DcInv, DcTypes, WalksApart, CachesOk, Walked
  <1>. QED  BY <1>1, <1>2, <1>3 DEF DcInv

LEMMA CenterStep ==
  ASSUME D!CenterAssumption, Guarded, DcInv, [D!DcNext]_dcVars
  PROVE  DcInv'
  <1>1. CASE UNCHANGED dcVars
    BY <1>1, OthersKeep DEF dcVars
  <1>2. ASSUME NEW a \in Accounts,
               \/ \E m, f \in BOOLEAN : D!Create(a, m, f)
               \/ D!Destroy(a) \/ D!Commit(a) \/ D!Publish(a) \/ D!TimerCallback(a)
        PROVE  DcInv'
    <2>1. CASE D!TimerCallback(a)
      BY <2>1, OthersKeep DEF D!TimerCallback, D!dcVars
    <2>. QED  BY <1>2, <2>1, CreateKeeps, DestroyKeeps, CommitKeeps, PublishKeeps
  <1>3. ASSUME NEW a \in Accounts, NEW id,
               \/ D!Subscribe(a, id) \/ D!Unsubscribe(a, id) \/ D!PullAsked(a, id)
               \/ D!PullCached(a, id) \/ D!Notify(a, id)
        PROVE  DcInv'
    <2>1. CASE D!Subscribe(a, id) \/ D!Unsubscribe(a, id)
      BY <2>1, OthersKeep DEF D!Subscribe, D!Unsubscribe
    <2>2. CASE D!PullAsked(a, id) \/ D!Notify(a, id)
      BY <2>2, OthersKeep DEF D!PullAsked, D!Notify, D!dcVars
    <2>. QED  BY <1>3, <2>1, <2>2, PullKeeps
  <1>4. ASSUME NEW a \in Accounts, NEW on \in BOOLEAN,
               D!SetEventCallback(a, on) \/ D!SetTimerPeriod(a, on) \/ D!SetTimerEnable(a, on)
        PROVE  DcInv'
    BY <1>4, OthersKeep DEF D!SetEventCallback, D!SetTimerPeriod, D!SetTimerEnable
  <1>. QED  BY <1>1, <1>2, <1>3, <1>4, ReturnKeeps, DeinitKeeps DEF D!DcNext

LEMMA PublishesIntact == DcInv => D!PublishedIntact
  <1>. SUFFICES ASSUME DcInv PROVE D!PublishedIntact
    OBVIOUS
  <1>1. D!ToSet(walks) = {walks[i] : i \in 1 .. Len(walks)}
    BY ApartHas DEF DcInv, WalksApart, D!ToSet
  <1>2. \A w \in D!ToSet(walks) : cache[w.pub].data[w.rbuf] = w.value
    BY <1>1 DEF DcInv, Reads
  <1>3. ASSUME NEW a \in live, NEW b \in D!Buffers, cache[a].pp.avail[b],
               \A w \in D!ToSet(walks) : w.pub = a => w.rbuf # b
        PROVE  cache[a].data[b] = latest[a] /\ ~ taken[a]
    <2>1. a \in Accounts
      BY DEF DcInv, DcTypes
    <2>2. b # cache[a].pp.read
      <3>1. CASE Walked(a)
        BY <1>1, <1>3, <3>1 DEF Walked, DcInv, Reads
      <3>2. CASE ~ Walked(a)
        BY <1>3, <2>1, <3>2 DEF DcInv, CachesOk, Idle
      <3>. QED  BY <3>1, <3>2
    <2>. QED  BY <1>3, <2>1, <2>2 DEF DcInv, CachesOk, Fresh, Ahead
  <1>. QED  BY <1>2, <1>3 DEF D!PublishedIntact

-----------------------------------------------------------------------------
(* Lists: on the cells that are in a list the two pointers are inverse.    *)

Ptrs == [L!Cells -> L!Cells \cup {Nil}]
In(c, o) == c \in Heads \/ o[c] # c
Owned(o) == /\ o \in [L!Cells -> L!Cells] /\ \A h \in Heads : o[h] = h
            /\ \A c \in L!Cells : In(c, o) => o[c] \in Heads
\* One direction: n leads from cell to cell of a list, and p leads back.
LeadsBack(c, n, p, o) == n[c] \in L!Cells /\ In(n[c], o) /\ o[n[c]] = o[c] /\ p[n[c]] = c
Half(n, p, o) == \A c \in L!Cells : In(c, o) => LeadsBack(c, n, p, o)
Links(n, p, o) == n \in Ptrs /\ p \in Ptrs /\ Owned(o) /\ Half(n, p, o) /\ Half(p, n, o)
\* Every node of a list hangs on its head: ranks fall on the way back to it.
Ranks(r, M, p, o) == /\ M \in Nat /\ r \in [L!Cells -> 0 .. M]
                     /\ \A h \in Heads : r[h] = 0
                     /\ \A c \in Nodes : In(c, o) => r[p[c]] < r[c]
Hung(p, o) == \E M \in Nat : \E r \in [L!Cells -> 0 .. M] : Ranks(r, M, p, o)

LEMMA HungIs ==
  ASSUME NEW p, NEW o, NEW r, NEW M, Ranks(r, M, p, o)
  PROVE  Hung(p, o)
  BY DEF Hung, Ranks

\* The inductive invariant.
Woven(n, p, o) == Links(n, p, o) /\ Hung(p, o)
LInv == Woven(next, prev, owner)

LEMMA ListsBegin == L!ListsAssumption /\ L!LlInit => LInv
  <1>. SUFFICES ASSUME L!ListsAssumption, L!LlInit PROVE LInv
    OBVIOUS
  <1>1. /\ next \in Ptrs /\ prev \in Ptrs /\ owner \in [L!Cells -> L!Cells]
        /\ \A h \in Heads : h \in L!Cells /\ next[h] = h /\ prev[h] = h /\ owner[h] = h
    BY DEF L!LlInit, Ptrs, L!Cells
  <1>2. \A c \in L!Cells : In(c, owner) => c \in Heads
    BY DEF In, L!LlInit
  <1>3. Links(next, prev, owner)
    BY <1>1, <1>2 DEF Links, Owned, Half, LeadsBack, In
  <1>4. PICK k : k = [c \in L!Cells |-> 0]
    OBVIOUS
  <1>5. Ranks(k, 0, prev, owner)
    BY <1>2, <1>4 DEF Ranks, L!Cells, L!ListsAssumption
  <1>. QED  BY <1>3, <1>5, HungIs DEF LInv, Woven

LEMMA ListsAreLinked == LInv => L!ListsTypeOK /\ L!Linked
  BY DEF LInv, Woven, Links, Owned, Half, LeadsBack, In, Ptrs, L!ListsTypeOK, L!Linked, L!InList

\* Two pointers of f are changed.
Twice(f, g, x, u, y, v) ==
  /\ g \in Ptrs /\ g[x] = u /\ g[y] = v
  /\ \A c \in L!Cells : c # x /\ c # y => g[c] = f[c]

LEMMA TwiceIs ==
  ASSUME NEW f \in Ptrs, NEW x \in L!Cells, NEW y \in L!Cells, x # y,
         NEW u \in L!Cells, NEW v \in L!Cells
  PROVE  /\ Twice(f, [f EXCEPT ![x] = u, ![y] = v], x, u, y, v)
         /\ Twice(f, [f EXCEPT ![x] = u, ![y] = v], y, v, x, u)
  BY DEF Twice, Ptrs

\* One pointer of f is changed.
Once(f, g, x, u) == g \in Ptrs /\ g[x] = u /\ \A c \in L!Cells : c # x => g[c] = f[c]

LEMMA OnceIs ==
  ASSUME NEW f \in Ptrs, NEW x \in L!Cells, NEW u \in L!Cells \cup {Nil}
  PROVE  Once(f, [f EXCEPT ![x] = u], x, u)
  BY DEF Once, Ptrs

\* Three pointers of f are changed.
Thrice(f, g, x, u, y, v, z, w) ==
  /\ g \in Ptrs /\ g[x] = u /\ g[y] = v /\ g[z] = w
  /\ \A c \in L!Cells : c # x /\ c # y /\ c # z => g[c] = f[c]

LEMMA ThriceIs ==
  ASSUME NEW f \in Ptrs, NEW x \in L!Cells, NEW y \in L!Cells, NEW z \in L!Cells,
         x # y, y # z, x # z,
         NEW u \in L!Cells, NEW v \in L!Cells, NEW w \in L!Cells
  PROVE  Thrice(f, [f EXCEPT ![x] = u, ![y] = v, ![z] = w], x, u, y, v, z, w)
  BY DEF Thrice, Ptrs

\* One direction, when x comes between a and b.
Between(x, a, b, n, o) == /\ x \in Nodes /\ ~ In(x, o) /\ x \in L!Cells
                          /\ a \in L!Cells /\ In(a, o) /\ b \in L!Cells /\ In(b, o)
                          /\ n[a] = b /\ o[b] = o[a] /\ a # x /\ b # x
Given(o, q, x, h) == q[x] = h /\ \A c \in L!Cells : c # x => q[c] = o[c]

LEMMA AddedHalf ==
  ASSUME NEW n, NEW p, NEW o, Owned(o), Half(n, p, o), NEW x, NEW a, NEW b, Between(x, a, b, n, o),
         NEW m, Twice(n, m, x, b, a, x), NEW r, Twice(p, r, x, a, b, x),
         NEW q, Given(o, q, x, o[a])
  PROVE  Half(m, r, q)
  <1>1. p[b] = a /\ o[a] \in Heads /\ o[a] # x /\ x \notin Heads
    BY DEF Half, LeadsBack, Between, Owned, In
  <1>2. \A c \in L!Cells : c # x => (In(c, q) <=> In(c, o))
    BY DEF In, Given
  <1>3. In(x, q) /\ q[x] = o[a]
    BY <1>1 DEF In, Given
  <1>4. ASSUME NEW c \in L!Cells, In(c, q) PROVE LeadsBack(c, m, r, q)
    <2>1. CASE c = x
      <3>1. m[x] = b /\ r[b] = x
        BY DEF Twice
      <3>2. b \in L!Cells /\ In(b, q) /\ q[b] = o[a]
        BY <1>2 DEF Between, Given
      <3>. QED  BY <2>1, <3>1, <3>2, <1>3 DEF LeadsBack
    <2>2. CASE c = a
      <3>1. m[a] = x /\ r[x] = a
        BY DEF Twice
      <3>2. x \in L!Cells /\ In(x, q) /\ q[a] = o[a] /\ q[x] = o[a]
        BY <1>3 DEF Between, Given
      <3>. QED  BY <2>2, <3>1, <3>2 DEF LeadsBack
    <2>3. CASE c # x /\ c # a
      <3>1. In(c, o) /\ m[c] = n[c] /\ q[c] = o[c]
        BY <1>2, <1>4, <2>3 DEF Twice, Given
      <3>2. PICK d \in L!Cells : d = n[c] /\ In(d, o) /\ o[d] = o[c] /\ p[d] = c
        BY <3>1 DEF Half, LeadsBack
      <3>3. d # b /\ d # x
        BY <1>1, <2>3, <3>2 DEF Between
      <3>4. r[d] = p[d] /\ q[d] = o[d] /\ In(d, q)
        BY <1>2, <3>2, <3>3 DEF Twice, Given
      <3>. QED  BY <3>1, <3>2, <3>4 DEF LeadsBack
    <2>. QED  BY <2>1, <2>2, <2>3
  <1>. QED  BY <1>4 DEF Half

LEMMA AddedOwned ==
  ASSUME L!ListsAssumption, NEW o, Owned(o), NEW x \in Nodes, x \notin Heads,
         NEW a \in L!Cells, In(a, o)
  PROVE  Owned([o EXCEPT ![x] = o[a]])
  <1>1. o \in [L!Cells -> L!Cells] /\ o[a] \in Heads /\ x \in L!Cells /\ Heads \subseteq L!Cells
    BY DEF Owned, L!Cells
  <1>2. PICK q : q = [o EXCEPT ![x] = o[a]]
    OBVIOUS
  <1>3. q \in [L!Cells -> L!Cells] /\ q[x] = o[a] /\ \A c \in L!Cells : c # x => q[c] = o[c]
    BY <1>1, <1>2
  <1>4. Owned(q)
    BY <1>1, <1>3 DEF Owned, In
  <1>. QED  BY <1>2, <1>4

LEMMA AddedHung ==
  ASSUME L!ListsAssumption, NEW n, NEW p, NEW o, Half(n, p, o), Half(p, n, o), Hung(p, o),
         NEW x, NEW a, NEW b, Between(x, a, b, n, o), p[b] = a,
         NEW r, Twice(p, r, x, a, b, x), NEW q, Given(o, q, x, o[a])
  PROVE  Hung(r, q)
  <1>1. PICK k, M : Ranks(k, M, p, o)
    BY DEF Hung
  <1>2. /\ M \in Nat /\ k \in [L!Cells -> 0 .. M] /\ \A h \in Heads : k[h] = 0
        /\ \A c \in Nodes : In(c, o) => k[p[c]] < k[c]
    BY <1>1 DEF Ranks
  <1>3. /\ x \in Nodes /\ x \in L!Cells /\ x \notin Heads /\ a \in L!Cells /\ b \in L!Cells
        /\ a # x /\ b # x
    BY DEF Between, In
  <1>4. PICK j : j = [c \in L!Cells |-> IF c = x THEN 2 * k[a] + 1 ELSE 2 * k[c]]
    OBVIOUS
  <1>5. /\ \A c \in L!Cells : c # x => j[c] = 2 * k[c]
        /\ j[x] = 2 * k[a] + 1
    BY <1>3, <1>4
  <1>6. \A c \in L!Cells : k[c] \in 0 .. M
    BY <1>2
  <1>7. \A c \in L!Cells : j[c] \in 0 .. (2 * M + 1)
    BY <1>2, <1>3, <1>5, <1>6
  <1>8. j \in [L!Cells -> 0 .. (2 * M + 1)]
    BY <1>4, <1>7
  <1>9. \A h \in Heads : j[h] = 0
    BY <1>2, <1>3, <1>5 DEF L!Cells
  <1>10. ASSUME NEW c \in Nodes, In(c, q) PROVE j[r[c]] < j[c]
    <2>0. c \in L!Cells
      BY DEF L!Cells
    <2>1. CASE c = x
      <3>1. r[c] = a
        BY <2>1 DEF Twice
      <3>. QED  BY <1>3, <1>5, <1>6, <2>1, <3>1
    <2>2. CASE c = b
      <3>1. r[c] = x /\ In(b, o) /\ k[a] < k[b]
        BY <1>2, <2>2 DEF Twice, Between
      <3>. QED  BY <1>3, <1>5, <1>6, <2>2, <3>1
    <2>3. CASE c # x /\ c # b
      <3>1. r[c] = p[c] /\ In(c, o)
        BY <2>0, <2>3, <1>10 DEF Twice, Given, In
      <3>2. PICK d \in L!Cells : d = p[c] /\ In(d, o)
        BY <2>0, <3>1 DEF Half, LeadsBack
      <3>3. k[d] < k[c] /\ d # x
        BY <1>2, <3>1, <3>2 DEF Between
      <3>. QED  BY <1>5, <1>6, <2>0, <2>3, <3>1, <3>2, <3>3
    <2>. QED  BY <2>1, <2>2, <2>3
  <1>11. Ranks(j, 2 * M + 1, r, q)
    BY <1>2, <1>8, <1>9, <1>10 DEF Ranks
  <1>. QED  BY <1>11, HungIs

LEMMA DeletedHung ==
  ASSUME L!ListsAssumption, NEW n, NEW p, NEW o, Half(n, p, o), Half(p, n, o), Hung(p, o),
         NEW x \in Nodes, In(x, o), NEW a \in L!Cells, a = p[x],
         NEW b \in L!Cells, p[b] = x, In(b, o),
         NEW r, Once(p, r, b, a), NEW q, Given(o, q, x, x)
  PROVE  Hung(r, q)
  <1>1. PICK k, M : Ranks(k, M, p, o)
    BY DEF Hung
  <1>2. /\ M \in Nat /\ k \in [L!Cells -> 0 .. M] /\ \A h \in Heads : k[h] = 0
        /\ \A c \in Nodes : In(c, o) => k[p[c]] < k[c]
    BY <1>1 DEF Ranks
  <1>3. k[a] < k[x]
    BY <1>2
  <1>4. ASSUME NEW c \in Nodes, In(c, q) PROVE k[r[c]] < k[c]
    <2>1. c \in L!Cells /\ c # x /\ In(c, o)
      BY <1>4 DEF Given, In, L!Cells, L!ListsAssumption
    <2>2. CASE c = b
      <3>1. r[c] = a /\ k[x] < k[b]
        BY <1>2, <2>2 DEF Once
      <3>2. k[a] \in Int /\ k[x] \in Int /\ k[b] \in Int
        BY <1>2 DEF L!Cells
      <3>. QED  BY <1>3, <2>2, <3>1, <3>2
    <2>3. CASE c # b
      BY <1>2, <2>1, <2>3 DEF Once
    <2>. QED  BY <2>2, <2>3
  <1>5. Ranks(k, M, r, q)
    BY <1>2, <1>4 DEF Ranks
  <1>. QED  BY <1>5, HungIs

LEMMA AloneHung ==
  ASSUME NEW p, NEW o, Hung(p, o), NEW x \in L!Cells, ~ In(x, o), NEW r, NEW u, Once(p, r, x, u)
  PROVE  Hung(r, o)
  <1>1. PICK k, M : Ranks(k, M, p, o)
    BY DEF Hung
  <1>2. \A c \in Nodes : In(c, o) => r[c] = p[c]
    BY DEF Once, L!Cells
  <1>3. Ranks(k, M, r, o)
    BY <1>1, <1>2 DEF Ranks
  <1>. QED  BY <1>3, HungIs

\* A node that is in a list does not lead to itself.
LEMMA HungNotSelf ==
  ASSUME L!ListsAssumption, NEW p, NEW o, Hung(p, o), NEW x \in Nodes, In(x, o)
  PROVE  p[x] # x
  <1>1. PICK k, M : Ranks(k, M, p, o)
    BY DEF Hung
  <1>2. k[p[x]] < k[x] /\ k[x] \in Int
    BY <1>1 DEF Ranks, L!Cells
  <1>. QED  BY <1>2

LEMMA AddedWoven ==
  ASSUME L!ListsAssumption, NEW n, NEW p, NEW o, Woven(n, p, o),
         NEW x \in Nodes, ~ In(x, o), NEW a \in L!Cells, In(a, o), NEW b, b = n[a],
         NEW l, l = L!Added([next |-> n, prev |-> p], x, a, b)
  PROVE  Woven(l.next, l.prev, [o EXCEPT ![x] = o[a]])
  <1>1. n \in Ptrs /\ p \in Ptrs /\ Owned(o) /\ Half(n, p, o) /\ Half(p, n, o) /\ x \in L!Cells
        /\ Hung(p, o)
    BY DEF Woven, Links, L!Cells
  <1>2. LeadsBack(a, n, p, o) /\ x \notin Heads
    BY <1>1 DEF Half, In
  <1>3. Between(x, a, b, n, o) /\ p[b] = a
    BY <1>1, <1>2 DEF Between, LeadsBack
  <1>4. Between(x, b, a, p, o) /\ o[b] = o[a]
    BY <1>3 DEF Between
  <1>5. PICK m : m = l.next
    OBVIOUS
  <1>6. PICK r : r = l.prev
    OBVIOUS
  <1>7. m = [n EXCEPT ![x] = b, ![a] = x] /\ r = [p EXCEPT ![x] = a, ![b] = x]
    BY <1>5, <1>6 DEF L!Added
  <1>8. a # x /\ b # x /\ b \in L!Cells
    BY <1>3 DEF Between
  <1>9. Twice(n, m, x, b, a, x)
    BY <1>1, <1>7, <1>8, TwiceIs
  <1>10. Twice(p, r, x, a, b, x)
    BY <1>1, <1>7, <1>8, TwiceIs
  <1>11. PICK q : q = [o EXCEPT ![x] = o[a]]
    OBVIOUS
  <1>12. Owned(q)
    BY <1>1, <1>2, <1>11, AddedOwned
  <1>13. Given(o, q, x, o[a]) /\ Given(o, q, x, o[b])
    BY <1>1, <1>4, <1>11 DEF Given, Owned
  <1>14. Half(m, r, q)
    BY <1>1, <1>3, <1>9, <1>10, <1>13, AddedHalf
  <1>15. Half(r, m, q)
    BY <1>1, <1>4, <1>9, <1>10, <1>13, AddedHalf
  <1>16. m \in Ptrs /\ r \in Ptrs
    BY <1>9, <1>10 DEF Twice
  <1>17. Hung(r, q)
    BY <1>1, <1>3, <1>10, <1>13, AddedHung
  <1>18. Woven(m, r, q)
    BY <1>12, <1>14, <1>15, <1>16, <1>17 DEF Woven, Links
  <1>. QED  BY <1>5, <1>6, <1>11, <1>18

\* One direction, when x goes from between a and b.
LEMMA DeletedHalf ==
  ASSUME NEW n, NEW p, NEW o, Half(n, p, o), NEW x \in L!Cells, In(x, o), x \notin Heads,
         NEW a \in L!Cells, In(a, o), n[a] = x, NEW b, b = n[x], p[x] = a,
         NEW m, Once(n, m, a, b), NEW r, Once(p, r, b, a), NEW q, Given(o, q, x, x)
  PROVE  Half(m, r, q)
  <1>1. \A c \in L!Cells : In(c, q) <=> c # x /\ In(c, o)
    BY DEF In, Given
  <1>2. b \in L!Cells /\ In(b, o) /\ o[b] = o[x] /\ p[b] = x /\ o[x] = o[a]
    BY DEF Half, LeadsBack
  <1>3. ASSUME NEW c \in L!Cells, In(c, q) PROVE LeadsBack(c, m, r, q)
    <2>1. c # x /\ In(c, o) /\ q[c] = o[c]
      BY <1>1, <1>3 DEF Given
    <2>2. CASE c = a
      <3>1. b # x
        BY <1>2, <2>1, <2>2
      <3>2. In(b, q) /\ q[b] = o[b] /\ m[a] = b /\ r[b] = a
        BY <1>1, <1>2, <3>1 DEF Given, Once
      <3>. QED  BY <1>2, <2>1, <2>2, <3>2 DEF LeadsBack
    <2>3. CASE c # a
      <3>1. PICK d \in L!Cells : d = n[c] /\ In(d, o) /\ o[d] = o[c] /\ p[d] = c
        BY <2>1 DEF Half, LeadsBack
      <3>2. d # x /\ d # b
        BY <1>2, <2>1, <2>3, <3>1
      <3>3. m[c] = d /\ r[d] = c /\ In(d, q) /\ q[d] = o[d]
        BY <1>1, <2>3, <3>1, <3>2 DEF Once, Given
      <3>. QED  BY <2>1, <3>1, <3>3 DEF LeadsBack
    <2>. QED  BY <2>2, <2>3
  <1>. QED  BY <1>3 DEF Half

LEMMA DeletedWoven ==
  ASSUME L!ListsAssumption, NEW n, NEW p, NEW o, Woven(n, p, o),
         NEW x \in Nodes, In(x, o),
         NEW l, l = L!Deleted([next |-> n, prev |-> p], p[x], n[x])
  PROVE  Woven(l.next, l.prev, [o EXCEPT ![x] = x])
  <1>1. /\ n \in Ptrs /\ p \in Ptrs /\ Owned(o) /\ Half(n, p, o) /\ Half(p, n, o) /\ x \in L!Cells
        /\ x \notin Heads /\ Hung(p, o)
    BY DEF Woven, Links, L!Cells, L!ListsAssumption
  <1>2. LeadsBack(x, n, p, o) /\ LeadsBack(x, p, n, o)
    BY <1>1 DEF Half
  <1>3. PICK a, b \in L!Cells : /\ a = p[x] /\ In(a, o) /\ n[a] = x
                                /\ b = n[x] /\ In(b, o) /\ p[b] = x
    BY <1>2 DEF LeadsBack
  <1>4. PICK m : m = l.next
    OBVIOUS
  <1>5. PICK r : r = l.prev
    OBVIOUS
  <1>6. m = [n EXCEPT ![a] = b] /\ r = [p EXCEPT ![b] = a]
    BY <1>3, <1>4, <1>5 DEF L!Deleted
  <1>7. Once(n, m, a, b) /\ Once(p, r, b, a)
    BY <1>1, <1>6, OnceIs
  <1>8. PICK q : q = [o EXCEPT ![x] = x]
    OBVIOUS
  <1>9. Given(o, q, x, x) /\ q \in [L!Cells -> L!Cells]
    BY <1>1, <1>8 DEF Given, Owned
  <1>10. Owned(q)
    BY <1>1, <1>9 DEF Owned, Given, In, L!Cells
  <1>11. Half(m, r, q)
    BY <1>1, <1>3, <1>7, <1>9, DeletedHalf
  <1>12. Half(r, m, q)
    BY <1>1, <1>3, <1>7, <1>9, DeletedHalf
  <1>13. Hung(r, q)
    BY <1>1, <1>3, <1>7, <1>9, DeletedHung
  <1>14. Woven(m, r, q)
    BY <1>7, <1>10, <1>11, <1>12, <1>13 DEF Woven, Links, Once
  <1>. QED  BY <1>4, <1>5, <1>8, <1>14

\* The pointers of a node in no list do not matter.
LEMMA AloneHalf ==
  ASSUME NEW n, NEW p, NEW o, Half(n, p, o), NEW x \in L!Cells, ~ In(x, o),
         NEW m, NEW r, NEW u, NEW v, Once(n, m, x, u), Once(p, r, x, v)
  PROVE  Half(m, r, o)
  <1>1. ASSUME NEW c \in L!Cells, In(c, o) PROVE LeadsBack(c, m, r, o)
    <2>1. PICK d \in L!Cells : d = n[c] /\ In(d, o) /\ o[d] = o[c] /\ p[d] = c
      BY <1>1 DEF Half, LeadsBack
    <2>2. c # x /\ d # x
      BY <1>1, <2>1
    <2>3. m[c] = d /\ r[d] = c
      BY <2>1, <2>2 DEF Once
    <2>. QED  BY <2>1, <2>3 DEF LeadsBack
  <1>. QED  BY <1>1 DEF Half

LEMMA AloneWoven ==
  ASSUME NEW n, NEW p, NEW o, Woven(n, p, o), NEW x \in L!Cells, ~ In(x, o),
         NEW at \in L!Cells \cup {Nil},
         NEW l, l = L!Alone([next |-> n, prev |-> p], x, at)
  PROVE  Woven(l.next, l.prev, o)
  <1>1. n \in Ptrs /\ p \in Ptrs /\ Owned(o) /\ Half(n, p, o) /\ Half(p, n, o)
        /\ Hung(p, o)
    BY DEF Woven, Links
  <1>2. PICK m : m = l.next
    OBVIOUS
  <1>3. PICK r : r = l.prev
    OBVIOUS
  <1>4. m = [n EXCEPT ![x] = at] /\ r = [p EXCEPT ![x] = at]
    BY <1>2, <1>3 DEF L!Alone
  <1>5. Once(n, m, x, at) /\ Once(p, r, x, at)
    BY <1>1, <1>4, OnceIs
  <1>6. Half(m, r, o) /\ Half(r, m, o)
    BY <1>1, <1>5, AloneHalf
  <1>7. Hung(r, o)
    BY <1>1, <1>5, AloneHung
  <1>8. Woven(m, r, o)
    BY <1>1, <1>5, <1>6, <1>7 DEF Woven, Links, Once
  <1>. QED  BY <1>2, <1>3, <1>8

\* The node y takes the place of x, between a and b.
Placed(x, y, a, b, n, p, o) ==
  /\ x \in Nodes /\ x \in L!Cells /\ In(x, o) /\ y \in Nodes /\ y \in L!Cells /\ ~ In(y, o)
  /\ a \in L!Cells /\ In(a, o) /\ b \in L!Cells /\ In(b, o)
  /\ n[a] = x /\ p[x] = a /\ n[x] = b /\ p[b] = x
  /\ a # x /\ a # y /\ b # x /\ b # y /\ x # y /\ x \notin Heads /\ y \notin Heads
Handed(o, q, x, y) ==
  q[y] = o[x] /\ q[x] = x /\ \A c \in L!Cells : c # x /\ c # y => q[c] = o[c]

LEMMA HandedIn ==
  ASSUME L!ListsAssumption, NEW o, Owned(o), NEW q, NEW x \in Nodes, NEW y \in Nodes,
         In(x, o), Handed(o, q, x, y), x # y, x \notin Heads, y \notin Heads
  PROVE  /\ ~ In(x, q) /\ In(y, q)
         /\ \A c \in L!Cells : c # x /\ c # y => (In(c, q) <=> In(c, o))
  <1>1. x \in L!Cells /\ o[x] \in Heads
    BY DEF Owned, L!Cells
  <1>. QED  BY <1>1 DEF Handed, In

LEMMA ReplacedHalf ==
  ASSUME L!ListsAssumption, NEW n, NEW p, NEW o, Owned(o), Half(n, p, o),
         NEW x, NEW y, NEW a, NEW b, Placed(x, y, a, b, n, p, o),
         NEW m, Thrice(n, m, y, b, a, y, x, x), NEW r, Thrice(p, r, y, a, b, y, x, x),
         NEW q, Handed(o, q, x, y)
  PROVE  Half(m, r, q)
  <1>1. /\ ~ In(x, q) /\ In(y, q)
        /\ \A c \in L!Cells : c # x /\ c # y => (In(c, q) <=> In(c, o))
    BY HandedIn DEF Placed
  <1>2. o[x] = o[a] /\ o[b] = o[x]
    BY DEF Placed, Half, LeadsBack
  <1>3. q[y] = o[x] /\ q[a] = o[x] /\ q[b] = o[x]
    BY <1>2 DEF Handed, Placed
  <1>4. ASSUME NEW c \in L!Cells, In(c, q) PROVE LeadsBack(c, m, r, q)
    <2>1. CASE c = y
      <3>1. m[y] = b /\ r[b] = y
        BY DEF Thrice
      <3>2. b \in L!Cells /\ In(b, q)
        BY <1>1 DEF Placed
      <3>. QED  BY <1>3, <2>1, <3>1, <3>2 DEF LeadsBack
    <2>2. CASE c = a
      <3>1. m[a] = y /\ r[y] = a
        BY DEF Thrice
      <3>2. y \in L!Cells /\ In(y, q)
        BY <1>1 DEF Placed
      <3>. QED  BY <1>3, <2>2, <3>1, <3>2 DEF LeadsBack
    <2>3. CASE c # y /\ c # a
      <3>1. c # x /\ In(c, o)
        BY <1>1, <1>4, <2>3
      <3>2. PICK d \in L!Cells : d = n[c] /\ In(d, o) /\ o[d] = o[c] /\ p[d] = c
        BY <3>1 DEF Half, LeadsBack
      <3>3. d # x /\ d # y /\ d # b
        BY <2>3, <3>1, <3>2 DEF Placed
      <3>4. m[c] = n[c] /\ r[d] = p[d]
        BY <2>3, <3>1, <3>3 DEF Thrice
      <3>5. q[c] = o[c] /\ q[d] = o[d] /\ In(d, q)
        BY <1>1, <2>3, <3>1, <3>2, <3>3 DEF Handed
      <3>. QED  BY <3>2, <3>4, <3>5 DEF LeadsBack
    <2>. QED  BY <2>1, <2>2, <2>3
  <1>. QED  BY <1>4 DEF Half

LEMMA ReplacedHung ==
  ASSUME L!ListsAssumption, NEW n, NEW p, NEW o, Owned(o), Half(p, n, o), Hung(p, o),
         NEW x, NEW y, NEW a, NEW b, Placed(x, y, a, b, n, p, o),
         NEW r, Thrice(p, r, y, a, b, y, x, x), NEW q, Handed(o, q, x, y)
  PROVE  Hung(r, q)
  <1>1. PICK k, M : Ranks(k, M, p, o)
    BY DEF Hung
  <1>2. /\ M \in Nat /\ k \in [L!Cells -> 0 .. M] /\ \A h \in Heads : k[h] = 0
        /\ \A c \in Nodes : In(c, o) => k[p[c]] < k[c]
    BY <1>1 DEF Ranks
  <1>3. PICK j : j = [k EXCEPT ![y] = k[x]]
    OBVIOUS
  <1>4. /\ j \in [L!Cells -> 0 .. M] /\ j[y] = k[x]
        /\ \A c \in L!Cells : c # y => j[c] = k[c]
    BY <1>2, <1>3 DEF Placed
  <1>5. /\ ~ In(x, q) /\ In(y, q)
        /\ \A c \in L!Cells : c # x /\ c # y => (In(c, q) <=> In(c, o))
    BY HandedIn DEF Placed
  <1>6. ASSUME NEW c \in Nodes, In(c, q) PROVE j[r[c]] < j[c]
    <2>1. c \in L!Cells /\ c # x
      BY <1>5, <1>6 DEF L!Cells
    <2>2. CASE c = y
      <3>1. r[c] = a /\ j[a] = k[a] /\ j[c] = k[x] /\ k[p[x]] < k[x] /\ p[x] = a
        BY <1>2, <1>4, <2>2 DEF Thrice, Placed
      <3>. QED  BY <3>1
    <2>3. CASE c = b
      <3>1. r[c] = y /\ j[c] = k[c] /\ j[y] = k[x] /\ k[p[c]] < k[c] /\ p[c] = x
        BY <1>2, <1>4, <2>3 DEF Thrice, Placed
      <3>. QED  BY <3>1
    <2>4. CASE c # y /\ c # b
      <3>1. In(c, o) /\ r[c] = p[c] /\ j[c] = k[c] /\ k[p[c]] < k[c]
        BY <1>2, <1>4, <1>5, <1>6, <2>1, <2>4 DEF Thrice
      <3>2. PICK d \in L!Cells : d = p[c] /\ In(d, o)
        BY <2>1, <3>1 DEF Half, LeadsBack
      <3>3. d # y
        BY <3>2 DEF Placed
      <3>4. j[d] = k[d]
        BY <1>4, <3>3
      <3>. QED  BY <3>1, <3>2, <3>4
    <2>. QED  BY <2>2, <2>3, <2>4
  <1>7. \A h \in Heads : j[h] = 0
    BY <1>2, <1>4 DEF L!Cells, Placed
  <1>8. Ranks(j, M, r, q)
    BY <1>2, <1>4, <1>6, <1>7 DEF Ranks
  <1>. QED  BY <1>8, HungIs

\* The nodes between f and l, all of list s, come between a and b.
Spliced(s, a, b, f, l, n, p, o) ==
  /\ s \in Heads /\ s \in L!Cells /\ o[s] = s
  /\ a \in L!Cells /\ In(a, o) /\ b \in L!Cells /\ In(b, o)
  /\ f \in L!Cells /\ In(f, o) /\ l \in L!Cells /\ In(l, o)
  /\ n[a] = b /\ p[b] = a /\ o[b] = o[a] /\ o[a] # s
  /\ n[s] = f /\ p[f] = s /\ n[l] = s /\ p[s] = l /\ f # s /\ l # s /\ o[f] = s /\ o[l] = s
  /\ a # s /\ b # s /\ f # a /\ f # b /\ l # a /\ l # b
Moved(o, q, s, h) ==
  \A c \in L!Cells : q[c] = IF o[c] = s /\ c # s THEN h ELSE o[c]

LEMMA MovedIn ==
  ASSUME L!ListsAssumption, NEW o, Owned(o), NEW s \in Heads, NEW h \in Heads,
         NEW q, q \in [L!Cells -> L!Cells], Moved(o, q, s, h), h # s
  PROVE  /\ \A c \in L!Cells : In(c, q) <=> In(c, o)
         /\ Owned(q)
  <1>1. \A g \in Heads : g \in L!Cells /\ o[g] = g
    BY DEF Owned, L!Cells
  <1>2. \A c \in L!Cells : In(c, q) <=> In(c, o)
    BY <1>1 DEF In, Moved
  <1>3. \A g \in Heads : q[g] = g
    BY <1>1 DEF Moved
  <1>4. \A c \in L!Cells : In(c, q) => q[c] \in Heads
    BY <1>2 DEF Owned, Moved
  <1>. QED  BY <1>2, <1>3, <1>4 DEF Owned

LEMMA SplicedHalf ==
  ASSUME NEW n, NEW p, NEW o, Half(n, p, o),
         NEW s, NEW a, NEW b, NEW f, NEW l, Spliced(s, a, b, f, l, n, p, o),
         NEW m, Thrice(n, m, a, f, l, b, s, s), NEW r, Thrice(p, r, f, a, b, l, s, s),
         NEW q, Moved(o, q, s, o[a]), \A c \in L!Cells : In(c, q) <=> In(c, o)
  PROVE  Half(m, r, q)
  <1>1. q[a] = o[a] /\ q[b] = o[a] /\ q[f] = o[a] /\ q[l] = o[a] /\ q[s] = s
    BY DEF Moved, Spliced
  <1>2. ASSUME NEW c \in L!Cells, In(c, q) PROVE LeadsBack(c, m, r, q)
    <2>1. CASE c = a
      <3>1. m[a] = f /\ r[f] = a
        BY DEF Thrice
      <3>2. f \in L!Cells /\ In(f, q)
        BY DEF Spliced
      <3>. QED  BY <1>1, <2>1, <3>1, <3>2 DEF LeadsBack
    <2>2. CASE c = l
      <3>1. m[l] = b /\ r[b] = l
        BY DEF Thrice
      <3>2. b \in L!Cells /\ In(b, q)
        BY DEF Spliced
      <3>. QED  BY <1>1, <2>2, <3>1, <3>2 DEF LeadsBack
    <2>3. CASE c = s
      <3>1. m[s] = s /\ r[s] = s
        BY DEF Thrice
      <3>. QED  BY <1>2, <2>3, <3>1 DEF LeadsBack
    <2>4. CASE c # a /\ c # l /\ c # s
      <3>1. PICK d \in L!Cells : d = n[c] /\ In(d, o) /\ o[d] = o[c] /\ p[d] = c
        BY <1>2 DEF Half, LeadsBack
      <3>2. d # f /\ d # b /\ d # s
        BY <2>4, <3>1 DEF Spliced
      <3>3. m[c] = n[c] /\ r[d] = p[d]
        BY <2>4, <3>1, <3>2 DEF Thrice
      <3>4. q[d] = q[c] /\ In(d, q)
        BY <2>4, <3>1, <3>2 DEF Moved
      <3>. QED  BY <3>1, <3>3, <3>4 DEF LeadsBack
    <2>. QED  BY <2>1, <2>2, <2>3, <2>4
  <1>. QED  BY <1>2 DEF Half

LEMMA TimesLess ==
  ASSUME NEW W \in Nat, NEW x \in Nat, NEW y \in Nat
  PROVE  /\ W * x \in Nat
         /\ x < y => W * x + W <= W * y
  <1>1. W * x \in Nat /\ W * y \in Nat
    OBVIOUS
  <1>2. ASSUME x < y PROVE W * x + W <= W * y
    <2>1. PICK d \in Nat : y = (x + 1) + d
      <3>1. y - (x + 1) \in Nat /\ y = (x + 1) + (y - (x + 1))
        BY <1>2
      <3>. QED  BY <3>1
    <2>2. W * y = W * x + W + W * d /\ W * d \in Nat
      BY <2>1
    <2>. QED  BY <1>1, <2>2
  <1>. QED  BY <1>1, <1>2

LEMMA SplicedHung ==
  ASSUME L!ListsAssumption, NEW n, NEW p, NEW o, Owned(o), Half(p, n, o), Hung(p, o),
         NEW s, NEW a, NEW b, NEW f, NEW l, Spliced(s, a, b, f, l, n, p, o),
         NEW r, Thrice(p, r, f, a, b, l, s, s),
         NEW q, \A c \in L!Cells : In(c, q) <=> In(c, o)
  PROVE  Hung(r, q)
  <1>1. PICK k, M : Ranks(k, M, p, o)
    BY DEF Hung
  <1>2. /\ M \in Nat /\ k \in [L!Cells -> 0 .. M] /\ \A h \in Heads : k[h] = 0
        /\ \A c \in Nodes : In(c, o) => k[p[c]] < k[c]
    BY <1>1 DEF Ranks
  <1>3. PICK W \in Nat : W = M + 1
    BY <1>2
  <1>4. PICK Z \in Nat : Z = W * M + M
    BY <1>2, TimesLess
  <1>5. PICK j : j = [c \in L!Cells |-> IF o[c] = s /\ c # s THEN W * k[a] + k[c] ELSE W * k[c]]
    OBVIOUS
  <1>6. \A c \in L!Cells : /\ k[c] \in Nat /\ k[c] <= M
                           /\ W * k[c] \in Nat /\ W * k[c] <= W * M
    <2>1. ASSUME NEW c \in L!Cells
          PROVE  k[c] \in Nat /\ k[c] <= M /\ W * k[c] \in Nat /\ W * k[c] <= W * M
      <3>1. k[c] \in 0 .. M
        BY <1>2
      <3>2. k[c] \in Nat /\ k[c] <= M /\ (k[c] < M \/ k[c] = M)
        BY <1>2, <3>1
      <3>3. W * k[c] \in Nat /\ W * M \in Nat
        BY <1>2, <3>2, TimesLess
      <3>4. CASE k[c] < M
        <4>1. W * k[c] + W <= W * M
          BY <1>2, <3>2, <3>4, TimesLess
        <4>. QED  BY <3>2, <3>3, <4>1
      <3>5. CASE k[c] = M
        BY <3>2, <3>3, <3>5
      <3>. QED  BY <3>2, <3>4, <3>5
    <2>. QED  BY <2>1
  <1>7. /\ \A c \in L!Cells : o[c] = s /\ c # s => j[c] = W * k[a] + k[c]
        /\ \A c \in L!Cells : ~ (o[c] = s /\ c # s) => j[c] = W * k[c]
    BY <1>5
  <1>8. a \in L!Cells /\ W * M \in Nat
    BY <1>2, TimesLess DEF Spliced
  <1>9. j \in [L!Cells -> 0 .. Z]
    <2>1. ASSUME NEW c \in L!Cells PROVE j[c] \in 0 .. Z
      <3>1. CASE o[c] = s /\ c # s
        BY <1>2, <1>4, <1>6, <1>7, <1>8, <3>1
      <3>2. CASE ~ (o[c] = s /\ c # s)
        BY <1>2, <1>4, <1>6, <1>7, <1>8, <3>2
      <3>. QED  BY <3>1, <3>2
    <2>. QED  BY <1>5, <2>1
  <1>10. \A h \in Heads : j[h] = 0
    <2>1. \A h \in Heads : h \in L!Cells /\ o[h] = h /\ k[h] = 0
      BY <1>2 DEF Owned, L!Cells
    <2>. QED  BY <1>7, <2>1
  <1>11. ASSUME NEW c \in Nodes, In(c, q) PROVE j[r[c]] < j[c]
    <2>1. c \in L!Cells /\ In(c, o) /\ c # s /\ k[p[c]] < k[c]
      BY <1>2, <1>11 DEF L!Cells, L!ListsAssumption, Spliced
    <2>2. CASE c = f
      <3>1. r[c] = a /\ p[c] = s /\ k[s] = 0 /\ j[a] = W * k[a] /\ j[c] = W * k[a] + k[c]
        BY <1>2, <1>7, <2>1, <2>2 DEF Thrice, Spliced
      <3>. QED  BY <1>6, <1>8, <2>1, <3>1
    <2>3. CASE c = b
      <3>1. /\ r[c] = l /\ p[c] = a /\ j[l] = W * k[a] + k[l] /\ j[c] = W * k[c]
            /\ l \in L!Cells
        BY <1>7, <2>1, <2>3 DEF Thrice, Spliced
      <3>2. W * k[a] + W <= W * k[c]
        BY <1>6, <1>8, <2>1, <3>1, TimesLess
      <3>3. k[l] < W
        BY <1>2, <1>3, <1>6, <3>1
      <3>. QED  BY <1>6, <1>8, <2>1, <3>1, <3>2, <3>3
    <2>4. CASE c # f /\ c # b
      <3>1. r[c] = p[c]
        BY <2>1, <2>4 DEF Thrice
      <3>2. PICK d \in L!Cells : d = p[c] /\ In(d, o) /\ o[d] = o[c] /\ n[d] = c
        BY <2>1 DEF Half, LeadsBack
      <3>3. d # s /\ k[d] < k[c]
        BY <2>1, <2>4, <3>2 DEF Spliced
      <3>4. CASE o[c] = s
        <4>1. j[d] = W * k[a] + k[d] /\ j[c] = W * k[a] + k[c]
          BY <1>7, <2>1, <3>2, <3>3, <3>4
        <4>. QED  BY <1>6, <1>8, <2>1, <3>1, <3>2, <3>3, <4>1
      <3>5. CASE o[c] # s
        <4>1. j[d] = W * k[d] /\ j[c] = W * k[c]
          BY <1>7, <2>1, <3>2, <3>3, <3>5
        <4>2. W * k[d] + W <= W * k[c]
          BY <1>6, <2>1, <3>2, <3>3, TimesLess
        <4>3. W > 0
          BY <1>2, <1>3
        <4>. QED  BY <1>6, <2>1, <3>1, <3>2, <4>1, <4>2, <4>3
      <3>. QED  BY <3>4, <3>5
    <2>. QED  BY <2>2, <2>3, <2>4
  <1>12. Ranks(j, Z, r, q)
    BY <1>9, <1>10, <1>11 DEF Ranks
  <1>. QED  BY <1>12, HungIs

\* The nodes N, from f to e, go from list h to list s, which is empty; t is next.
Cut(s, h, f, e, t, N, n, p, o) ==
  /\ s \in Heads /\ h \in Heads /\ s # h /\ s \in L!Cells /\ h \in L!Cells
  /\ o[s] = s /\ o[h] = h /\ n[s] = s /\ p[s] = s
  /\ f \in L!Cells /\ In(f, o) /\ e \in L!Cells /\ In(e, o) /\ t \in L!Cells /\ In(t, o)
  /\ n[h] = f /\ p[f] = h /\ n[e] = t /\ p[t] = e /\ o[t] = h /\ t # s
  /\ f \in N /\ e \in N /\ t \notin N /\ s \notin N /\ h \notin N
  /\ \A c \in N : /\ c \in L!Cells /\ o[c] = h /\ c \notin Heads
                  /\ c # e => n[c] \in N
                  /\ p[c] = h \/ p[c] \in N
Parted(o, q, s, N) == \A c \in L!Cells : q[c] = IF c \in N THEN s ELSE o[c]

LEMMA PartedIn ==
  ASSUME NEW o, Owned(o), NEW q, q \in [L!Cells -> L!Cells], NEW s \in Heads,
         NEW N, \A c \in N : c \notin Heads /\ c \in L!Cells /\ In(c, o), Parted(o, q, s, N)
  PROVE  /\ \A c \in L!Cells : In(c, q) <=> In(c, o)
         /\ Owned(q)
  <1>1. \A g \in Heads : g \in L!Cells /\ o[g] = g
    BY DEF Owned, L!Cells
  <1>2. \A c \in L!Cells : In(c, q) <=> In(c, o)
    BY <1>1 DEF In, Parted
  <1>3. \A g \in Heads : q[g] = g
    BY <1>1 DEF Parted
  <1>4. \A c \in L!Cells : In(c, q) => q[c] \in Heads
    BY <1>2 DEF Owned, Parted
  <1>. QED  BY <1>2, <1>3, <1>4 DEF Owned

LEMMA CutForth ==
  ASSUME NEW n, NEW p, NEW o, Half(n, p, o),
         NEW s, NEW h, NEW f, NEW e, NEW t, NEW N, Cut(s, h, f, e, t, N, n, p, o),
         NEW m, Thrice(n, m, s, f, e, s, h, t), NEW r, Thrice(p, r, f, s, s, e, t, h),
         NEW q, Parted(o, q, s, N), \A c \in L!Cells : In(c, q) <=> In(c, o)
  PROVE  Half(m, r, q)
  <1>1. q[s] = s /\ q[e] = s /\ q[f] = s /\ q[h] = h /\ q[t] = h
    BY DEF Parted, Cut
  <1>2. In(f, q) /\ In(s, q) /\ In(t, q) /\ f \in L!Cells /\ s \in L!Cells /\ t \in L!Cells
    BY DEF Cut, In
  <1>3. /\ m[s] = f /\ r[f] = s /\ m[e] = s /\ r[s] = e /\ m[h] = t /\ r[t] = h
    BY DEF Thrice
  <1>4. ASSUME NEW c \in L!Cells, In(c, q) PROVE LeadsBack(c, m, r, q)
    <2>1. CASE c = s \/ c = e \/ c = h
      BY <1>1, <1>2, <1>3, <2>1 DEF LeadsBack
    <2>2. CASE c # s /\ c # e /\ c # h
      <3>1. PICK d \in L!Cells : d = n[c] /\ In(d, o) /\ o[d] = o[c] /\ p[d] = c
        BY <1>4 DEF Half, LeadsBack
      <3>2. d # f /\ d # t /\ d # s
        BY <2>2, <3>1 DEF Cut
      <3>3. m[c] = n[c] /\ r[d] = p[d]
        BY <2>2, <3>1, <3>2 DEF Thrice
      <3>4. c \in N <=> d \in N
        BY <2>2, <3>1 DEF Cut
      <3>5. q[d] = q[c] /\ In(d, q)
        BY <3>1, <3>4 DEF Parted
      <3>. QED  BY <3>1, <3>3, <3>5 DEF LeadsBack
    <2>. QED  BY <2>1, <2>2
  <1>. QED  BY <1>4 DEF Half

LEMMA CutBack ==
  ASSUME NEW n, NEW p, NEW o, Half(p, n, o),
         NEW s, NEW h, NEW f, NEW e, NEW t, NEW N, Cut(s, h, f, e, t, N, n, p, o),
         NEW m, Thrice(n, m, s, f, e, s, h, t), NEW r, Thrice(p, r, f, s, s, e, t, h),
         NEW q, Parted(o, q, s, N), \A c \in L!Cells : In(c, q) <=> In(c, o)
  PROVE  Half(r, m, q)
  <1>1. q[s] = s /\ q[e] = s /\ q[f] = s /\ q[h] = h /\ q[t] = h
    BY DEF Parted, Cut
  <1>2. In(e, q) /\ In(s, q) /\ In(h, q) /\ e \in L!Cells /\ s \in L!Cells /\ h \in L!Cells
    BY DEF Cut, In
  <1>3. /\ m[s] = f /\ r[f] = s /\ m[e] = s /\ r[s] = e /\ m[h] = t /\ r[t] = h
    BY DEF Thrice
  <1>4. ASSUME NEW c \in L!Cells, In(c, q) PROVE LeadsBack(c, r, m, q)
    <2>1. CASE c = s \/ c = f \/ c = t
      BY <1>1, <1>2, <1>3, <2>1 DEF LeadsBack
    <2>2. CASE c # s /\ c # f /\ c # t
      <3>1. PICK d \in L!Cells : d = p[c] /\ In(d, o) /\ o[d] = o[c] /\ n[d] = c
        BY <1>4 DEF Half, LeadsBack
      <3>2. d # h /\ d # e /\ d # s
        BY <2>2, <3>1 DEF Cut
      <3>3. r[c] = p[c] /\ m[d] = n[d]
        BY <2>2, <3>1, <3>2 DEF Thrice
      <3>4. c \in N <=> d \in N
        BY <2>2, <3>1, <3>2 DEF Cut
      <3>5. q[d] = q[c] /\ In(d, q)
        BY <3>1, <3>4 DEF Parted
      <3>. QED  BY <3>1, <3>3, <3>5 DEF LeadsBack
    <2>. QED  BY <2>1, <2>2
  <1>. QED  BY <1>4 DEF Half

LEMMA CutHung ==
  ASSUME L!ListsAssumption, NEW n, NEW p, NEW o, Half(p, n, o), Hung(p, o),
         NEW s, NEW h, NEW f, NEW e, NEW t, NEW N, Cut(s, h, f, e, t, N, n, p, o),
         NEW r, Thrice(p, r, f, s, s, e, t, h), NEW q, \A c \in L!Cells : In(c, q) <=> In(c, o)
  PROVE  Hung(r, q)
  <1>1. PICK k, M : Ranks(k, M, p, o)
    BY DEF Hung
  <1>2. /\ M \in Nat /\ k \in [L!Cells -> 0 .. M] /\ \A g \in Heads : k[g] = 0
        /\ \A c \in Nodes : In(c, o) => k[p[c]] < k[c]
    BY <1>1 DEF Ranks
  <1>3. ASSUME NEW c \in Nodes, In(c, q) PROVE k[r[c]] < k[c]
    <2>1. c \in L!Cells /\ c # s /\ In(c, o) /\ k[p[c]] < k[c]
      BY <1>2, <1>3 DEF L!Cells, L!ListsAssumption, Cut
    <2>2. PICK d \in L!Cells : d = p[c]
      BY <2>1 DEF Half, LeadsBack
    <2>3. 0 < k[c]
      <3>1. k[d] \in 0 .. M /\ k[c] \in 0 .. M
        BY <1>2, <2>1
      <3>. QED  BY <1>2, <2>1, <2>2, <3>1
    <2>4. CASE c = f \/ c = t
      <3>1. k[r[c]] = 0
        BY <1>2, <2>4 DEF Thrice, Cut
      <3>. QED  BY <2>3, <3>1
    <2>5. CASE c # f /\ c # t
      BY <2>1, <2>5 DEF Thrice
    <2>. QED  BY <2>4, <2>5
  <1>4. Ranks(k, M, r, q)
    BY <1>2, <1>3 DEF Ranks
  <1>. QED  BY <1>4, HungIs

\* The functions of lists.h, one by one.
LEMMA ListAddKeeps ==
  ASSUME L!ListsAssumption, LInv, NEW n \in Nodes, NEW h \in Heads,
         L!ListAdd(n, h) \/ L!ListAddTail(n, h)
  PROVE  LInv'
  <1>1. /\ Woven(next, prev, owner) /\ Owned(owner) /\ h \in L!Cells /\ In(h, owner)
        /\ owner[h] = h /\ Half(prev, next, owner)
    BY DEF LInv, Woven, Links, Owned, L!Cells, In
  <1>2. owner[n] = n /\ ~ In(n, owner) /\ owner' = [owner EXCEPT ![n] = h]
    BY DEF L!ListAdd, L!ListAddTail, L!Off, In, L!ListsAssumption
  <1>3. CASE L!ListAdd(n, h)
    <2>1. PICK l : l = L!Added([next |-> next, prev |-> prev], n, h, next[h])
      OBVIOUS
    <2>2. Woven(l.next, l.prev, [owner EXCEPT ![n] = owner[h]])
      BY <1>1, <1>2, <2>1, AddedWoven
    <2>3. next' = l.next /\ prev' = l.prev
      BY <1>3, <2>1 DEF L!ListAdd, L!Becomes, L!Here
    <2>. QED  BY <1>1, <1>2, <2>2, <2>3 DEF LInv
  <1>4. CASE L!ListAddTail(n, h)
    <2>1. PICK a \in L!Cells : a = prev[h] /\ In(a, owner) /\ owner[a] = h /\ next[a] = h
      BY <1>1 DEF Half, LeadsBack
    <2>2. PICK l : l = L!Added([next |-> next, prev |-> prev], n, a, h)
      OBVIOUS
    <2>3. Woven(l.next, l.prev, [owner EXCEPT ![n] = owner[a]])
      BY <1>1, <1>2, <2>1, <2>2, AddedWoven
    <2>4. next' = l.next /\ prev' = l.prev
      BY <1>4, <2>1, <2>2 DEF L!ListAddTail, L!Becomes, L!Here
    <2>. QED  BY <1>2, <2>1, <2>3, <2>4 DEF LInv
  <1>. QED  BY <1>3, <1>4

LEMMA ListDelKeeps ==
  ASSUME L!ListsAssumption, LInv, NEW n \in Nodes, L!ListDel(n)
  PROVE  LInv'
  <1>1. /\ Woven(next, prev, owner) /\ owner \in [L!Cells -> L!Cells]
        /\ n \in L!Cells /\ n \notin Heads
    BY DEF LInv, Woven, Links, Owned, L!Cells, L!ListsAssumption
  <1>2. In(n, owner) /\ owner' = [owner EXCEPT ![n] = n]
    BY DEF L!ListDel, L!Listed, In
  <1>3. PICK l : l = L!Deleted([next |-> next, prev |-> prev], prev[n], next[n])
    OBVIOUS
  <1>4. Woven(l.next, l.prev, owner')
    BY <1>1, <1>2, <1>3, DeletedWoven
  <1>5. ~ In(n, owner')
    BY <1>1, <1>2 DEF In
  <1>6. PICK at \in {Nil, n} : L!Becomes(L!Alone(L!Deleted(L!Here, prev[n], next[n]), n, at))
    BY DEF L!ListDel
  <1>7. PICK k : k = L!Alone([next |-> l.next, prev |-> l.prev], n, at)
    OBVIOUS
  <1>8. next' = k.next /\ prev' = k.prev
    BY <1>3, <1>6, <1>7 DEF L!Becomes, L!Here, L!Alone, L!Deleted
  <1>9. Woven(k.next, k.prev, owner')
    BY <1>1, <1>4, <1>5, <1>7, AloneWoven
  <1>. QED  BY <1>8, <1>9 DEF LInv

\* A node goes to another place, between a and b of the list without it.
LEMMA Replanted ==
  ASSUME L!ListsAssumption, NEW n, NEW p, NEW o, Woven(n, p, o), NEW x \in Nodes, In(x, o),
         NEW h \in Heads, NEW l, l = L!Deleted([next |-> n, prev |-> p], p[x], n[x]),
         NEW k, k = L!Added(l, x, h, l.next[h]) \/ k = L!Added(l, x, l.prev[h], h)
  PROVE  Woven(k.next, k.prev, [o EXCEPT ![x] = h])
  <1>1. /\ o \in [L!Cells -> L!Cells] /\ x \in L!Cells /\ x \notin Heads
        /\ h \in L!Cells /\ o[h] = h
    BY DEF Woven, Links, Owned, L!Cells, L!ListsAssumption
  <1>2. PICK q : q = [o EXCEPT ![x] = x]
    OBVIOUS
  <1>3. Woven(l.next, l.prev, q)
    BY <1>2, DeletedWoven
  <1>4. PICK m, r : m = l.next /\ r = l.prev
    OBVIOUS
  <1>5. Woven(m, r, q) /\ ~ In(x, q) /\ In(h, q) /\ q[h] = h
    BY <1>1, <1>2, <1>3, <1>4 DEF In
  <1>6. Half(r, m, q)
    BY <1>5 DEF Woven, Links
  <1>7. PICK a \in L!Cells : a = r[h] /\ In(a, q) /\ q[a] = h /\ m[a] = h
    BY <1>1, <1>5, <1>6 DEF Half, LeadsBack
  <1>8. [q EXCEPT ![x] = h] = [o EXCEPT ![x] = h]
    BY <1>1, <1>2
  <1>9. CASE k = L!Added(l, x, h, l.next[h])
    <2>1. PICK j : j = L!Added([next |-> m, prev |-> r], x, h, m[h])
      OBVIOUS
    <2>2. Woven(j.next, j.prev, [q EXCEPT ![x] = q[h]])
      BY <1>1, <1>5, <2>1, AddedWoven
    <2>3. j = k
      BY <1>4, <1>9, <2>1 DEF L!Added
    <2>. QED  BY <1>5, <1>8, <2>2, <2>3
  <1>10. CASE k = L!Added(l, x, l.prev[h], h)
    <2>1. PICK j : j = L!Added([next |-> m, prev |-> r], x, a, h)
      OBVIOUS
    <2>2. Woven(j.next, j.prev, [q EXCEPT ![x] = q[a]])
      BY <1>5, <1>7, <2>1, AddedWoven
    <2>3. j = k
      BY <1>4, <1>7, <1>10, <2>1 DEF L!Added
    <2>. QED  BY <1>7, <1>8, <2>2, <2>3
  <1>. QED  BY <1>9, <1>10

LEMMA ListMoveKeeps ==
  ASSUME L!ListsAssumption, LInv, NEW n \in Nodes, NEW h \in Heads, L!ListMove(n, h)
  PROVE  LInv'
  <1>1. Woven(next, prev, owner) /\ In(n, owner) /\ owner' = [owner EXCEPT ![n] = h]
    BY DEF LInv, L!ListMove, L!Listed, In
  <1>2. PICK l : l = L!Deleted([next |-> next, prev |-> prev], prev[n], next[n])
    OBVIOUS
  <1>3. PICK k : /\ k = L!Added(l, n, h, l.next[h]) \/ k = L!Added(l, n, l.prev[h], h)
                 /\ next' = k.next /\ prev' = k.prev
    BY <1>2 DEF L!ListMove, L!Becomes, L!Here
  <1>4. Woven(k.next, k.prev, [owner EXCEPT ![n] = h])
    BY <1>1, <1>2, <1>3, Replanted
  <1>. QED  BY <1>1, <1>3, <1>4 DEF LInv

LEMMA ListRotateLeftKeeps ==
  ASSUME L!ListsAssumption, LInv, NEW h \in Heads, L!ListRotateLeft(h)
  PROVE  LInv'
  <1>1. /\ Woven(next, prev, owner) /\ h \in L!Cells /\ Owned(owner) /\ Half(next, prev, owner)
        /\ next[h] # h
    BY DEF LInv, Woven, Links, L!Cells, L!ListRotateLeft
  <1>2. In(h, owner) /\ owner[h] = h
    BY <1>1 DEF Owned, In
  <1>3. PICK n \in L!Cells : n = next[h] /\ In(n, owner) /\ owner[n] = h /\ prev[n] = h /\ n # h
    BY <1>1, <1>2 DEF Half, LeadsBack
  <1>4. n \in Nodes
    BY <1>1, <1>3 DEF L!Cells, Owned
  <1>5. PICK l : l = L!Deleted([next |-> next, prev |-> prev], prev[n], next[n])
    OBVIOUS
  <1>6. PICK k : k = L!Added(l, n, l.prev[h], h)
    OBVIOUS
  <1>7. next' = k.next /\ prev' = k.prev /\ owner' = owner
    BY <1>3, <1>5, <1>6 DEF L!ListRotateLeft, L!Becomes, L!Here
  <1>8. [owner EXCEPT ![n] = h] = owner
    BY <1>1, <1>3 DEF Owned
  <1>9. Woven(k.next, k.prev, [owner EXCEPT ![n] = h])
    BY <1>1, <1>3, <1>4, <1>5, <1>6, Replanted
  <1>. QED  BY <1>7, <1>8, <1>9 DEF LInv

LEMMA ListReplaceInitKeeps ==
  ASSUME L!ListsAssumption, LInv, NEW x \in Nodes, NEW y \in Nodes, L!ListReplaceInit(x, y)
  PROVE  LInv'
  <1>1. /\ Woven(next, prev, owner) /\ next \in Ptrs /\ prev \in Ptrs /\ Owned(owner)
        /\ Half(next, prev, owner) /\ Half(prev, next, owner) /\ Hung(prev, owner)
    BY DEF LInv, Woven, Links
  <1>2. x \in L!Cells /\ y \in L!Cells /\ x \notin Heads /\ y \notin Heads
    BY DEF L!Cells, L!ListsAssumption
  <1>3. In(x, owner) /\ ~ In(y, owner) /\ x # y
    BY <1>2 DEF L!ListReplaceInit, L!Listed, L!Off, In
  <1>4. PICK a \in L!Cells : a = prev[x] /\ In(a, owner) /\ next[a] = x
    BY <1>1, <1>2, <1>3 DEF Half, LeadsBack
  <1>5. PICK b \in L!Cells : b = next[x] /\ In(b, owner) /\ prev[b] = x
    BY <1>1, <1>2, <1>3 DEF Half, LeadsBack
  <1>6. a # x /\ b # x /\ a # y /\ b # y
    <2>1. a # x
      BY <1>1, <1>3, <1>4, HungNotSelf
    <2>. QED  BY <1>3, <1>4, <1>5, <2>1
  <1>7. Placed(x, y, a, b, next, prev, owner) /\ Placed(x, y, b, a, prev, next, owner)
    BY <1>2, <1>3, <1>4, <1>5, <1>6 DEF Placed
  <1>8. /\ next' = [next EXCEPT ![y] = b, ![a] = y, ![x] = x]
        /\ prev' = [prev EXCEPT ![y] = a, ![b] = y, ![x] = x]
    BY <1>4, <1>5 DEF L!ListReplaceInit, L!Becomes, L!Alone
  <1>9. PICK m : m = next'
    OBVIOUS
  <1>10. PICK r : r = prev'
    OBVIOUS
  <1>11. PICK q : q = owner'
    OBVIOUS
  <1>12. Thrice(next, m, y, b, a, y, x, x)
    BY <1>1, <1>2, <1>3, <1>6, <1>8, <1>9, ThriceIs
  <1>13. Thrice(prev, r, y, a, b, y, x, x)
    BY <1>1, <1>2, <1>3, <1>6, <1>8, <1>10, ThriceIs
  <1>14. /\ Handed(owner, q, x, y) /\ q \in [L!Cells -> L!Cells]
    BY <1>1, <1>2, <1>3, <1>11 DEF L!ListReplaceInit, Handed, Owned
  <1>15. /\ ~ In(x, q) /\ In(y, q)
         /\ \A c \in L!Cells : c # x /\ c # y => (In(c, q) <=> In(c, owner))
    BY <1>1, <1>2, <1>3, <1>14, HandedIn
  <1>16. Owned(q)
    <2>1. \A h \in Heads : h \in L!Cells /\ owner[h] = h
      BY <1>1 DEF Owned, L!Cells
    <2>2. \A h \in Heads : q[h] = h
      BY <1>2, <1>14, <2>1 DEF Handed
    <2>3. ASSUME NEW c \in L!Cells, In(c, q) PROVE q[c] \in Heads
      <3>1. CASE c = y
        BY <1>1, <1>2, <1>3, <1>14, <3>1 DEF Handed, Owned
      <3>2. CASE c # y
        BY <1>1, <1>14, <1>15, <2>3, <3>2 DEF Handed, Owned
      <3>. QED  BY <3>1, <3>2
    <2>. QED  BY <1>14, <2>2, <2>3 DEF Owned
  <1>17. Half(m, r, q)
    BY <1>1, <1>7, <1>12, <1>13, <1>14, ReplacedHalf
  <1>18. Half(r, m, q)
    BY <1>1, <1>7, <1>12, <1>13, <1>14, ReplacedHalf
  <1>19. Hung(r, q)
    BY <1>1, <1>7, <1>13, <1>14, ReplacedHung
  <1>20. Woven(m, r, q)
    BY <1>12, <1>13, <1>16, <1>17, <1>18, <1>19 DEF Woven, Links, Thrice
  <1>. QED  BY <1>9, <1>10, <1>11, <1>20 DEF LInv

\* Of both splices: the list goes between a and b, neighbours of another list.
LEMMA ListSpliceInitKeeps ==
  ASSUME L!ListsAssumption, LInv, NEW s \in Heads, NEW a \in L!Cells, NEW b \in L!Cells,
         In(a, owner), b = next[a], owner[a] # s, L!ListSpliceInit(s, a, b)
  PROVE  LInv'
  <1>1. /\ Woven(next, prev, owner) /\ next \in Ptrs /\ prev \in Ptrs /\ Owned(owner)
        /\ Half(next, prev, owner) /\ Half(prev, next, owner) /\ Hung(prev, owner)
    BY DEF LInv, Woven, Links
  <1>2. s \in L!Cells /\ owner[s] = s /\ In(s, owner) /\ owner[a] \in Heads
    BY <1>1 DEF Owned, L!Cells, In
  <1>3. /\ LeadsBack(a, next, prev, owner)
        /\ LeadsBack(s, next, prev, owner) /\ LeadsBack(s, prev, next, owner)
    BY <1>1, <1>2 DEF Half
  <1>4. PICK f, l \in L!Cells : f = next[s] /\ l = prev[s]
    BY <1>3 DEF LeadsBack
  <1>5. f # s /\ l # s
    BY <1>3, <1>4 DEF LeadsBack, L!ListSpliceInit
  <1>6. Spliced(s, a, b, f, l, next, prev, owner) /\ Spliced(s, b, a, l, f, prev, next, owner)
    BY <1>2, <1>3, <1>4, <1>5 DEF Spliced, LeadsBack
  <1>7. /\ next' = [next EXCEPT ![a] = f, ![l] = b, ![s] = s]
        /\ prev' = [prev EXCEPT ![f] = a, ![b] = l, ![s] = s]
    BY <1>4 DEF L!ListSpliceInit, L!Becomes, L!Alone
  <1>8. PICK m : m = next'
    OBVIOUS
  <1>9. PICK r : r = prev'
    OBVIOUS
  <1>10. PICK q : q = owner'
    OBVIOUS
  <1>11. /\ a # l /\ l # s /\ a # s /\ f # b /\ b # s /\ f # s
    BY <1>6 DEF Spliced
  <1>12. Thrice(next, m, a, f, l, b, s, s)
    BY <1>1, <1>2, <1>4, <1>7, <1>8, <1>11, ThriceIs
  <1>13. Thrice(prev, r, f, a, b, l, s, s)
    BY <1>1, <1>2, <1>4, <1>7, <1>9, <1>11, ThriceIs
  <1>14. Thrice(next, m, l, b, a, f, s, s) /\ Thrice(prev, r, b, l, f, a, s, s)
    BY <1>12, <1>13 DEF Thrice
  <1>15. q = [c \in L!Cells |-> IF owner[c] = s /\ c # s THEN owner[a] ELSE owner[c]]
    BY <1>10 DEF L!ListSpliceInit
  <1>16. /\ Moved(owner, q, s, owner[a]) /\ q \in [L!Cells -> L!Cells]
         /\ Moved(owner, q, s, owner[b])
    BY <1>1, <1>6, <1>15 DEF Moved, Owned, Spliced
  <1>17. Owned(q) /\ \A c \in L!Cells : In(c, q) <=> In(c, owner)
    BY <1>1, <1>2, <1>16, MovedIn
  <1>18. Half(m, r, q)
    BY <1>1, <1>6, <1>12, <1>13, <1>16, <1>17, SplicedHalf
  <1>19. Half(r, m, q)
    BY <1>1, <1>6, <1>14, <1>16, <1>17, SplicedHalf
  <1>20. Hung(r, q)
    BY <1>1, <1>6, <1>13, <1>17, SplicedHung
  <1>21. Woven(m, r, q)
    BY <1>12, <1>13, <1>17, <1>18, <1>19, <1>20 DEF Woven, Links, Thrice
  <1>. QED  BY <1>8, <1>9, <1>10, <1>21 DEF LInv

LEMMA ListCutPositionKeeps ==
  ASSUME L!ListsAssumption, LInv, NEW s \in Heads, NEW h \in Heads, NEW e \in Nodes,
         NEW N \in SUBSET Nodes, L!ListCutPosition(s, h, e, N)
  PROVE  LInv'
  <1>1. /\ Woven(next, prev, owner) /\ next \in Ptrs /\ prev \in Ptrs /\ Owned(owner)
        /\ Half(next, prev, owner) /\ Half(prev, next, owner) /\ Hung(prev, owner)
    BY DEF LInv, Woven, Links
  <1>2. /\ s # h /\ next[s] = s /\ owner[e] = h
        /\ next[h] \in N /\ e \in N /\ next[e] \notin N
        /\ \A c \in N : /\ owner[c] = h /\ c # h
                        /\ c # e => next[c] \in N
                        /\ prev[c] = h \/ prev[c] \in N
    BY DEF L!ListCutPosition, L!UpTo
  <1>3. /\ s \in L!Cells /\ h \in L!Cells /\ owner[s] = s /\ owner[h] = h
        /\ In(s, owner) /\ In(h, owner)
        /\ \A c \in N : c \in L!Cells /\ c \notin Heads /\ In(c, owner)
    BY <1>1, <1>2 DEF Owned, L!Cells, In, L!ListsAssumption
  <1>4. /\ LeadsBack(s, next, prev, owner) /\ LeadsBack(h, next, prev, owner)
        /\ LeadsBack(e, next, prev, owner)
    BY <1>1, <1>2, <1>3 DEF Half
  <1>5. PICK f, t \in L!Cells : f = next[h] /\ t = next[e]
    BY <1>4 DEF LeadsBack
  <1>6. Cut(s, h, f, e, t, N, next, prev, owner)
    BY <1>2, <1>3, <1>4, <1>5 DEF Cut, LeadsBack
  <1>7. /\ next' = [next EXCEPT ![s] = f, ![e] = s, ![h] = t]
        /\ prev' = [prev EXCEPT ![f] = s, ![s] = e, ![t] = h]
    BY <1>5 DEF L!ListCutPosition, L!Becomes
  <1>8. PICK m : m = next'
    OBVIOUS
  <1>9. PICK r : r = prev'
    OBVIOUS
  <1>10. PICK q : q = owner'
    OBVIOUS
  <1>11. s # e /\ e # h /\ s # h /\ f # s /\ s # t /\ f # t /\ e \in L!Cells
    BY <1>6 DEF Cut
  <1>12. Thrice(next, m, s, f, e, s, h, t)
    BY <1>1, <1>3, <1>5, <1>7, <1>8, <1>11, ThriceIs
  <1>13. Thrice(prev, r, f, s, s, e, t, h)
    BY <1>1, <1>3, <1>5, <1>7, <1>9, <1>11, ThriceIs
  <1>14. q = [c \in L!Cells |-> IF c \in N THEN s ELSE owner[c]]
    BY <1>10 DEF L!ListCutPosition
  <1>15. Parted(owner, q, s, N) /\ q \in [L!Cells -> L!Cells]
    BY <1>1, <1>3, <1>14 DEF Parted, Owned
  <1>16. Owned(q) /\ \A c \in L!Cells : In(c, q) <=> In(c, owner)
    BY <1>1, <1>3, <1>15, PartedIn
  <1>17. Half(m, r, q)
    BY <1>1, <1>6, <1>12, <1>13, <1>15, <1>16, CutForth
  <1>18. Half(r, m, q)
    BY <1>1, <1>6, <1>12, <1>13, <1>15, <1>16, CutBack
  <1>19. Hung(r, q)
    BY <1>1, <1>6, <1>13, <1>16, CutHung
  <1>20. Woven(m, r, q)
    BY <1>12, <1>13, <1>16, <1>17, <1>18, <1>19 DEF Woven, Links, Thrice
  <1>. QED  BY <1>8, <1>9, <1>10, <1>20 DEF LInv

LEMMA ListsStep ==
  ASSUME L!ListsAssumption, LInv, [L!LlNext]_listVars
  PROVE  LInv'
  <1>1. CASE UNCHANGED listVars
    BY <1>1 DEF listVars, LInv, Woven, Links, Hung
  <1>2. ASSUME NEW s \in Heads, NEW h \in Heads, s # h,
               L!ListSpliceInit(s, h, next[h]) \/ L!ListSpliceInit(s, prev[h], h)
        PROVE  LInv'
    <2>1. h \in L!Cells /\ In(h, owner) /\ owner[h] = h
      BY DEF LInv, Woven, Links, Owned, L!Cells, In
    <2>2. LeadsBack(h, next, prev, owner) /\ LeadsBack(h, prev, next, owner)
      BY <2>1 DEF LInv, Woven, Links, Half
    <2>3. CASE L!ListSpliceInit(s, h, next[h])
      <3>1. PICK b \in L!Cells : b = next[h]
        BY <2>2 DEF LeadsBack
      <3>. QED  BY <1>2, <2>1, <2>3, <3>1, ListSpliceInitKeeps
    <2>4. CASE L!ListSpliceInit(s, prev[h], h)
      <3>1. PICK a \in L!Cells : a = prev[h] /\ In(a, owner) /\ owner[a] = h /\ next[a] = h
        BY <2>1, <2>2 DEF LeadsBack
      <3>. QED  BY <1>2, <2>1, <2>4, <3>1, ListSpliceInitKeeps
    <2>. QED  BY <1>2, <2>3, <2>4
  <1>. QED  BY <1>1, <1>2, ListAddKeeps, ListDelKeeps, ListMoveKeeps, ListReplaceInitKeeps,
               ListRotateLeftKeeps, ListCutPositionKeeps DEF L!LlNext
-----------------------------------------------------------------------------
(* The parts next to each other                                            *)

LEMMA StepOfKeys == [Next]_vars => [K!KpNext]_keyVars
  BY DEF Next, Others, vars

LEMMA StepOfButtons == [Next]_vars => [B!MbNext]_mbVars
  BY DEF Next, Others, vars

LEMMA StepOfResources == [Next]_vars => [R!RmNext]_rmVars
  BY DEF Next, Others, vars

LEMMA StepOfLists == [Next]_vars => [L!LlNext]_listVars
  BY DEF Next, Others, vars

LEMMA StepOfCenter == [Next]_vars => [D!DcNext]_dcVars
  BY DEF Next, Others, vars

(* Of keys and buttons: however the polls fall, a press is told as one     *)
(* story, and a click as single or double after one or two presses.  The   *)
(* limit of a long press is not moved during one, a button that is started *)
(* is not initialised, and there are no more presses in a row than repeat  *)
(* can count.                                                              *)
THEOREM PressesAreTold == ~ ChangedInPress /\ Counting => (Spec => []PressesTold)
  <1>. SUFFICES ASSUME ~ ChangedInPress, Counting PROVE Spec => []PressesTold
    OBVIOUS
  <1>0. K!KeyAssumption /\ B!MultiButtonAssumption
    BY PartsAssumption
  <1>1. Init => KeyInv /\ MbInv
    BY <1>0, KeyBegins, ButtonsBegin DEF Init
  <1>2. KeyInv /\ MbInv /\ [Next]_vars => KeyInv' /\ MbInv'
    BY <1>0, StepOfKeys, StepOfButtons, KeyStep, ButtonsStep
  <1>3. KeyInv /\ MbInv => PressesTold
    BY KeyTellsOneStory, ClicksCounted DEF PressesTold
  <1>. QED  BY <1>1, <1>2, <1>3, PTL DEF Spec

(* Of the lists: through any order of calls of lists.h, the two pointers   *)
(* of every cell in a list are inverse and within its list, for any number *)
(* of lists and nodes.                                                     *)
THEOREM ListsStayLinked == Spec => [](L!ListsTypeOK /\ L!Linked)
  <1>0. L!ListsAssumption
    BY PartsAssumption
  <1>1. Init => LInv
    BY <1>0, ListsBegin DEF Init
  <1>2. LInv /\ [Next]_vars => LInv'
    BY <1>0, StepOfLists, ListsStep
  <1>. QED  BY <1>1, <1>2, ListsAreLinked, PTL DEF Spec

(* Of the resource manager: over any order of calls a name finds the       *)
(* pointer it was added with, and every node is found again, where a name  *)
(* is added once and its string stays as it is while a node has it.  Of    *)
(* the data centre: a reader gets what was committed last, once, and what  *)
(* it reads stays as it was committed while publications call back, where  *)
(* no callback unlinks who is walked or reads what is being published.  Of *)
(* the lists: their pointers are inverse.                                  *)
THEOREM WhatIsPutIsFound == Distinct /\ Guarded => (Spec => []FoundAsPut)
  <1>. SUFFICES ASSUME Distinct, Guarded PROVE Spec => []FoundAsPut
    OBVIOUS
  <1>0. R!ResourceAssumption /\ D!CenterAssumption /\ L!ListsAssumption
    BY PartsAssumption
  <1>1. Init => RmInv /\ DcInv /\ LInv
    BY <1>0, ResourcesBegin, CenterBegins, ListsBegin DEF Init
  <1>2. RmInv /\ DcInv /\ LInv /\ [Next]_vars => RmInv' /\ DcInv' /\ LInv'
    <2>1. ASSUME RmInv, UNCHANGED rmVars PROVE RmInv'
      BY <2>1 DEF rmVars, RmInv, RmTypeOK, OwnNames, NameOf, ExpectedIs, NoneLeft,
                  R!ResourcesAreFound
    <2>2. DcInv /\ [Next]_vars => DcInv'
      BY <1>0, StepOfCenter, CenterStep
    <2>3. LInv /\ [Next]_vars => LInv'
      BY <1>0, StepOfLists, ListsStep
    <2>. QED  BY <1>0, <2>1, <2>2, <2>3, StepOfResources, ResourcesKeep
  <1>3. RmInv /\ DcInv /\ LInv => FoundAsPut
    BY PublishesIntact, ListsAreLinked DEF RmInv, FoundAsPut
  <1>. QED  BY <1>1, <1>2, <1>3, PTL DEF Spec
=============================================================================
