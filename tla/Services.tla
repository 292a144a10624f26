------------------------------ MODULE Services ------------------------------
(***************************************************************************)
(* The services an application calls that never call each other: the heap, *)
(* the lists, the data centre, the resource manager, keys, buttons, the    *)
(* log, the checksums, and the wire of the mia PHY.  Each is a module of   *)
(* its own; this one checks them side by side: `part` says which of them a *)
(* behaviour is about, and the others stay as they began.                  *)
(***************************************************************************)
EXTENDS Integers, Sequences, FiniteSets

CONSTANTS Threads, Alignment, StructSize, HeapAddress, TotalSize, AllocateBit, Requests, DoubleFree
VARIABLES mem, remaining, minimum, ready, owned, thread
heapVars == <<mem, remaining, minimum, ready, owned, thread>>
H == INSTANCE Heap

CONSTANTS Heads, Nodes, Nil
VARIABLES next, prev, owner
listVars == <<next, prev, owner>>
L == INSTANCE LinkedLists

CONSTANTS Accounts, Main, Cached, Twins, SelfUnlink, NestedRead, DeinitMounted, Timed, MaxDepth
VARIABLES live, pool, lists, cache, callback, timer, walks, corrupt, latest, taken
dcVars == <<live, pool, lists, cache, callback, timer, walks, corrupt, latest, taken>>
D == INSTANCE DataCenter

CONSTANTS Names, Pointers, NoPointer, Strings, MaxResources, AddedTwice, Rewritten
VARIABLES rm, rmNodes, rmStrings, rmExpected, rmGot
rmVars == <<rm, rmNodes, rmStrings, rmExpected, rmGot>>
R == INSTANCE ResourceManager

CONSTANTS LongTimes, PressingPeriod, KeyTime, ChangedInPress
VARIABLES key, keyPin, keyNow, keyEvents, keySamples
keyVars == <<key, keyPin, keyNow, keyEvents, keySamples>>
K == INSTANCE KeyProcessing

CONSTANTS Buttons, DebounceTicks, ShortTicks, LongTicks, TickMod, RepeatMod, MaxPresses, MbReinit
VARIABLES mb, mbList, mbHistory
mbVars == <<mb, mbList, mbHistory>>
B == INSTANCE MultiButton

CONSTANTS LogBufLen, OffsetMod, Levels, DefaultLevel, Texts, MaxLogs, ConsoleKinds
VARIABLES xl, logBuf, xlConsole, printed, logs
xlVars == <<xl, logBuf, xlConsole, printed, logs>>
X == INSTANCE Xlog

CONSTANTS Stations, Messages, Capacity, FaultTicks, Gap, Latency, MaxSends
VARIABLES phy, drive, edge, round, turn, quiet, busy, starts, sent, heard
phyVars == <<phy, drive, edge, round, turn, quiet, busy, starts, sent, heard>>
P == INSTANCE MiaPhy

CONSTANTS SumBytes, MaxBytes
VARIABLES fed, sums
sumVars == <<fed, sums>>
C == INSTANCE Checksums

\* What every part assumes of its constants.
ASSUME PartsAssumption ==
  /\ H!HeapAssumption /\ L!ListsAssumption /\ D!CenterAssumption /\ R!ResourceAssumption
  /\ K!KeyAssumption /\ B!MultiButtonAssumption /\ X!XlogAssumption /\ P!PhyAssumption
  /\ C!ChecksumsAssumption

VARIABLE part

\* What the run writes to the log: a line, two lines, half a line, and the end of one.
Lines == {<<98, 10>>, <<98, 10, 98, 99, 10>>, <<98>>, <<98, 99, 10, 98>>}

\* And what it sends: bytes with and without an edge between two bits, a
\* message and its beginning, zeros and the highest nibble.
Samples == {<<{0, 2, 5, 7}>>, <<{0, 2, 5, 7}, {7}>>, <<{}>>, <<{4, 5, 6, 7}>>}

-----------------------------------------------------------------------------
Parts == {"heap", "lists", "center", "resources", "keys", "buttons", "log", "phy", "sums"}

\* Where a part has several initial states, one that is not looked at has one of them.
Init == /\ part \in Parts
        /\ H!Init /\ L!LlInit /\ D!DcInit /\ K!KpInit /\ B!MbInit /\ C!SumInit
        /\ R!RmInit /\ (part # "resources" => rmStrings = [s \in Strings |-> CHOOSE m \in Names : TRUE])
        /\ X!XlInit /\ (part # "log" => logs.whole)
        /\ P!Init /\ (part # "phy" => round[1] = CHOOSE s \in Stations : TRUE)

Others == /\ UNCHANGED part
          /\ IF part = "heap" THEN TRUE ELSE UNCHANGED heapVars
          /\ IF part = "lists" THEN TRUE ELSE UNCHANGED listVars
          /\ IF part = "center" THEN TRUE ELSE UNCHANGED dcVars
          /\ IF part = "resources" THEN TRUE ELSE UNCHANGED rmVars
          /\ IF part = "keys" THEN TRUE ELSE UNCHANGED keyVars
          /\ IF part = "buttons" THEN TRUE ELSE UNCHANGED mbVars
          /\ IF part = "log" THEN TRUE ELSE UNCHANGED xlVars
          /\ IF part = "phy" THEN TRUE ELSE UNCHANGED phyVars
          /\ IF part = "sums" THEN TRUE ELSE UNCHANGED sumVars

Next == \/ part = "heap" /\ H!Next /\ Others
        \/ part = "lists" /\ L!LlNext /\ Others
        \/ part = "center" /\ D!DcNext /\ Others
        \/ part = "resources" /\ R!RmNext /\ Others
        \/ part = "keys" /\ K!KpNext /\ Others
        \/ part = "buttons" /\ B!MbNext /\ Others
        \/ part = "log" /\ X!XlNext /\ Others
        \/ part = "phy" /\ P!Next /\ Others
        \/ part = "sums" /\ C!SumNext /\ Others

vars == <<part, heapVars, listVars, dcVars, rmVars, keyVars, mbVars, xlVars, phyVars, sumVars>>
Spec == Init /\ [][Next]_vars

-----------------------------------------------------------------------------
(* heap.c: its blocks tile the heap, the free list is sorted, merged and   *)
(* counted, freed blocks are one block again, and a request is refused     *)
(* only if no free block holds it.  data_center.c and account.c: two       *)
(* accounts agree on who has subscribed to whom, however callbacks call    *)
(* back.                                                                   *)
StoresKept ==
  /\ part = "heap" => H!TypeOK /\ H!HeapSound /\ H!AllGivenBack /\ H!NoFalseRefusal
  /\ part = "center" => D!DcTypeOK /\ D!SubscriptionsMirrored

(* resource_manager.c: over any order of calls a name finds the pointer it *)
(* was registered with, and every node that is allocated is in the list.   *)
(* data_center.c: a reader gets what was committed last, once, and it      *)
(* stays as it was committed while the reader has it.  lists.h: the two    *)
(* pointers of every cell in a list are inverse, within its list.          *)
FoundAsPut == /\ part = "resources" => R!ResourcesAreFound
              /\ part = "center" => D!PublishedIntact
              /\ part = "lists" => L!ListsTypeOK /\ L!Linked

(* key_processing.c and multi_button.c: a press is told as one story, and  *)
(* clicks are told as many as there were presses, whenever the pin moves   *)
(* between two samples.                                                    *)
PressesTold == /\ part = "keys" => K!PressIsOneStory
               /\ part = "buttons" => B!ClicksAreCounted

(* mia_phy.c: what a station accepts was sent by one, and of two that      *)
(* start together one backs off before the other's message is damaged.     *)
(* checksum.c: each sum is the one its comment states, a byte that is      *)
(* garbled shows in it, and bytes before their own crc8_maxim sum to 0.    *)
WireKept == /\ part = "phy" => P!HeardWasSent /\ P!OneWinner
            /\ part = "sums" => C!SumTypeOK /\ C!SumsAreTheStated /\ C!ErrorsShow

(* lists.h: every step of a function is one of ListSpec's on the sequences *)
(* of nodes.  xlog.c: characters are printed once, in order, under their   *)
(* line's level, and none stays behind when the console is free.           *)
ListsAndLogKept == [][/\ part = "lists" => L!ImplementsStep
                      /\ part = "log" => X!XlTypeOK' /\ X!PrintedInOrder /\ X!NothingKept]_vars
=============================================================================
