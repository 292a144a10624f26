---------------------------- MODULE TransportLevel ----------------------------
(***************************************************************************)
(* The three transport levels, serial_transport_level.c,                   *)
(* radio_transport_level.c and mia_transport_level.c of                    *)
(* common/media_access_control: a list of blocked packets between tasks    *)
(* that offer them and the media access controller that caches one at a    *)
(* time.  The limit is tested outside the lock, by any number of tasks.    *)
(*                                                                         *)
(* Of the controller this module uses what HalfDuplexMac, FullDuplexMac    *)
(* and RadioMac show: a cached message settles.                            *)
(***************************************************************************)
EXTENDS Naturals, FiniteSets, SequencesExt

CONSTANTS
  Levels,      \* the levels to be checked: serial, radio, mia
  Producers,   \* tasks that call set_transmitter_cache
  Kinds,       \* kinds of packets; is_repeat holds within a kind
  LongKinds,   \* those longer than trans_capacity
  MaxBlocked,  \* max_blocked_count
  MaxOffers    \* bound: packets one task offers, mia's high priority aside

ASSUME TransportAssumption ==
  /\ Levels \subseteq {"serial", "radio", "mia"}
  /\ IsFiniteSet(Producers) /\ Producers # {}
  /\ MaxBlocked \in Nat /\ MaxOffers \in Nat
  /\ LongKinds \subseteq Kinds

VARIABLES
  level,    \* which of the three files
  list,     \* the blocked packets, self->head
  count,    \* cur_blocked_count
  task,     \* the producers: where in set_transmitter_cache, and the packet
  offers,   \* packets offered so far
  mac,      \* the controller has a packet in its cache
  picked,   \* mia: the packet polling took from the list, not removed yet
  last,     \* history: the last packet of each producer that was passed on,
            \* those of high priority aside
  stale     \* history: a task reset the counter of a list that was no longer
            \* empty, and the list was not empty since

vars == <<level, list, count, task, offers, mac, picked, last, stale>>

\* Packets are numbered in the order a task offers them; those of high priority,
\* of which there is no end, have the number 0.
NoPacket == [from |-> "none", nr |-> 0, kind |-> "none", high |-> FALSE]
Idle == [pc |-> "idle", packet |-> NoPacket]
Packets == {n \in [from : Producers, nr : 0 .. MaxOffers, kind : Kinds, high : BOOLEAN] :
              n.nr = 0 <=> n.high}

Init ==
  /\ level \in Levels
  /\ list = <<>> /\ count = 0
  /\ task = [p \in Producers |-> Idle]
  /\ offers = [p \in Producers |-> 0]
  /\ mac = FALSE /\ picked = NoPacket
  /\ last = [p \in Producers |-> 0]
  /\ stale = FALSE

StillStale == stale' = (stale /\ list' # <<>>)

\* Mutant: no test for zero.
DecrementedBug(n) == n - 1
Decremented(n) == IF n > 0 THEN n - 1 ELSE 0

-----------------------------------------------------------------------------
(* set_transmitter_cache, a task between its locked sections *)

At(p, pc) == task[p].pc = pc
Goto(p, pc) == task' = [task EXCEPT ![p] = IF pc = "idle" THEN Idle ELSE [@ EXCEPT !.pc = pc]]

\* Mutant: one too many.
AtLimitBug == count > MaxBlocked

\* cur_blocked_count >= max_blocked_count, read without the lock
AtLimit == count >= MaxBlocked

Offer(p, kind, high) ==
  /\ At(p, "idle")
  /\ IF high THEN level = "mia" /\ offers' = offers
     ELSE offers[p] < MaxOffers /\ offers' = [offers EXCEPT ![p] = @ + 1]
  /\ task' = [task EXCEPT ![p] =
       IF AtLimit /\ level = "mia" THEN Idle
       ELSE [pc |-> IF AtLimit THEN "full" ELSE "admitted",
             packet |-> [from |-> p, nr |-> IF high THEN 0 ELSE offers'[p],
                        kind |-> kind, high |-> high]]]
  /\ UNCHANGED <<level, list, count, mac, picked, last, stale>>

\* A full list refuses; an empty one cannot be full.
Full(p) ==
  /\ At(p, "full")
  /\ Goto(p, IF list # <<>> THEN "idle" ELSE "reset")
  /\ UNCHANGED <<level, list, count, offers, mac, picked, last, stale>>

Reset(p) ==
  /\ At(p, "reset")
  /\ count' = 0
  /\ stale' = (stale \/ list # <<>>)
  /\ Goto(p, "admitted")
  /\ UNCHANGED <<level, list, offers, mac, picked, last>>

\* The allocation may fail.
Alloc(p) ==
  /\ At(p, "admitted")
  /\ \E pc \in {"idle", IF level = "radio" THEN "allocated" ELSE "single"} : Goto(p, pc)
  /\ UNCHANGED <<level, list, count, offers, mac, picked, last, stale>>

\* _del_repeat: a locked section of its own, node by node
Superseded(q, packet) ==
  LET kept[i \in 0 .. Len(q)] ==
        IF i = 0 THEN <<>>
        ELSE IF q[i].kind = packet.kind THEN kept[i - 1] ELSE Append(kept[i - 1], q[i])
  IN  kept[Len(q)]

\* Mutant: the counter keeps the packets deleted.
DelRepeatBug(p) ==
  /\ At(p, "allocated")
  /\ list' = Superseded(list, task[p].packet)
  /\ Goto(p, "single") /\ StillStale
  /\ UNCHANGED <<level, count, offers, mac, picked, last>>

DelRepeat(p) ==
  /\ At(p, "allocated")
  /\ list' = Superseded(list, task[p].packet)
  /\ LET gone == Len(list) - Len(list')
     IN count' = IF count > gone THEN count - gone ELSE 0
  /\ Goto(p, "single")
  /\ StillStale
  /\ UNCHANGED <<level, offers, mac, picked, last>>

\* Mutant: list_add for every packet.
InsertedBug(q, packet) == <<packet>> \o q

\* list_add_tail, or list_add for mia's high priority
Inserted(q, packet) == IF packet.high THEN <<packet>> \o q ELSE Append(q, packet)

Add(p) ==
  /\ At(p, "single")
  /\ list' = Inserted(list, task[p].packet)
  /\ count' = count + 1
  /\ Goto(p, "idle")
  /\ StillStale
  /\ UNCHANGED <<level, offers, mac, picked, last>>

-----------------------------------------------------------------------------
(* poll and drop in the main loop *)

Passed(n) == IF n.high THEN last ELSE [last EXCEPT ![n.from] = n.nr]

\* Mutant: a packet that is refused stays in the list.
AcceptsBug(n) == ~mac /\ n.kind \notin LongKinds

\* A packet that is too long is refused by the controller and removed like one
\* it took.
Accepts(n) == ~mac
Cached(n) == mac' = (n.kind \notin LongKinds)

Poll ==
  /\ level # "mia" /\ list # <<>>
  /\ LET n == Head(list)
     IN Accepts(n) /\ Cached(n) /\ last' = Passed(n)
  /\ list' = Tail(list) /\ count' = Decremented(count)
  /\ StillStale
  /\ UNCHANGED <<level, task, offers, picked>>

\* mia_transport_polling takes the lock only to remove the packet.
PollPick ==
  /\ level = "mia" /\ list # <<>> /\ picked = NoPacket
  /\ LET n == Head(list)
     IN Accepts(n) /\ Cached(n) /\ last' = Passed(n) /\ picked' = n
  /\ UNCHANGED <<level, list, count, task, offers, stale>>

PollRemove ==
  /\ picked # NoPacket
  /\ \E i \in DOMAIN list : list[i] = picked /\ list' = RemoveAt(list, i)
  /\ count' = Decremented(count)
  /\ picked' = NoPacket
  /\ StillStale
  /\ UNCHANGED <<level, task, offers, mac, last>>

DropTransmitterCache ==
  /\ level # "mia" /\ list # <<>>
  /\ list' = <<>>
  /\ count' = IF count > Len(list) THEN count - Len(list) ELSE 0
  /\ StillStale
  /\ UNCHANGED <<level, task, offers, mac, picked, last>>

\* The controller: the cached packet was answered or given up.
MacSettles ==
  /\ mac
  /\ mac' = FALSE
  /\ UNCHANGED <<level, list, count, task, offers, picked, last, stale>>

-----------------------------------------------------------------------------
Caller(p) == Full(p) \/ Reset(p) \/ Alloc(p) \/ DelRepeat(p) \/ Add(p)
MainLoop == Poll \/ PollPick \/ PollRemove

Next ==
  \/ \E p \in Producers :
       Caller(p) \/ \E kind \in Kinds, high \in BOOLEAN : Offer(p, kind, high)
  \/ MainLoop \/ DropTransmitterCache \/ MacSettles

Spec == Init /\ [][Next]_vars

\* The main loop keeps polling and the controller settles; a task may stay
\* blocked inside a call for ever.
FairSpec == Spec /\ WF_vars(MainLoop) /\ WF_vars(MacSettles)

-----------------------------------------------------------------------------
(* Properties *)

PcsOf(l) == {"idle", "admitted", "single"}
            \union (IF l = "mia" THEN {} ELSE {"full", "reset"})
            \union (IF l = "radio" THEN {"allocated"} ELSE {})

TypeOK ==
  /\ level \in Levels
  /\ list \in Seq(Packets) /\ count \in Nat
  /\ task \in [Producers -> [pc : PcsOf(level), packet : Packets \union {NoPacket}]]
  /\ offers \in [Producers -> 0 .. MaxOffers]
  /\ mac \in BOOLEAN
  /\ picked \in Packets \union {NoPacket}
  /\ last \in [Producers -> 0 .. MaxOffers] /\ stale \in BOOLEAN

\* The counter never exceeds the list: no packet that is gone goes on counting,
\* so an empty list always admits one, although the counter is reset by a task
\* that looked at the list before.
NoPhantom == count <= Len(list)

\* The limit holds, one packet per further task aside: each may have passed the
\* test before the others add.  Only a reset that comes late, when another task
\* has added, breaks it, and then until the list is empty again.
Limit == IF MaxBlocked = 0 THEN 1 ELSE MaxBlocked
LimitKept ==
  ~stale => count = Len(list) /\ Len(list) <= Limit + Cardinality(Producers) - 1

\* The list of blocked packets is sound: the three together.
ListSound == TypeOK /\ NoPhantom /\ LimitKept

\* The packets of one task reach the controller in the order it offered them;
\* only mia's high priority overtakes.
PassedInOrder == [][\A p \in Producers : last'[p] >= last[p]]_vars

\* A packet leaves the list: sent, superseded, dropped or refused as too long;
\* or packets of mia's high priority, which go to the head, are added for ever.
Blocked(p, nr) == \E i \in DOMAIN list : list[i].from = p /\ list[i].nr = nr
HighAdded == \E p \in Producers : Add(p) /\ task[p].packet.high
Delivered ==
  \A p \in Producers, nr \in 1 .. MaxOffers :
    (Blocked(p, nr) ~> ~Blocked(p, nr)) \/ []<><<HighAdded>>_vars
=============================================================================
