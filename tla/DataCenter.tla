----------------------------- MODULE DataCenter -----------------------------
(***************************************************************************)
(* common/data_center/data_center.c and account.c: accounts that subscribe *)
(* to each other by name, hand each other data through a double buffer,    *)
(* and are called back while a publisher walks its list of subscribers.    *)
(*                                                                         *)
(* Everything runs in one thread, but a callback may call any operation:   *)
(* walks is the stack of calls of publish, and whatever happens while it   *)
(* is not empty is done by the callback of the topmost one.  The other     *)
(* callbacks (pull, notify, timer) return to nothing, and need no frame.   *)
(***************************************************************************)
EXTENDS Naturals, SequencesExt, PingPong

CONSTANTS
  Accounts,
  Main,           \* account_main, whose id is the name of the centre
  Cached,         \* the accounts created with a buf_size
  Twins,          \* environment: accounts created with one and the same id
  SelfUnlink,     \* environment: a callback of publish may unsubscribe or
                  \* destroy the account it was called for, or the publisher
  NestedRead,     \* environment: it may publish or pull what is being published
  DeinitMounted,  \* environment: deinit while accounts are mounted
  Timed,          \* environment: the accounts that are given a timer
  MaxDepth        \* bound: nesting of publish

CenterAssumption ==
  /\ Main \in Accounts /\ Cached \subseteq Accounts \ {Main}
  /\ Twins \subseteq Accounts
  /\ {SelfUnlink, NestedRead, DeinitMounted} \subseteq BOOLEAN
  /\ Timed \subseteq Accounts /\ MaxDepth \in Nat

VARIABLES
  live,      \* the accounts that were created and not destroyed
  pool,      \* center->account_pool
  lists,     \* pub, sub: the publishers and subscribers of each account
  cache,     \* priv.buffer_manager and the contents of its buffers
  callback,  \* the accounts with a priv.event_cb
  timer,     \* priv.timer
  walks,     \* the calls of publish in progress, the innermost first
  corrupt,   \* a node was unlinked and freed twice
  latest, taken  \* history: the last commit, and whether it has been read

dcVars == <<live, pool, lists, cache, callback, timer, walks, corrupt, latest, taken>>

None == "none"
Id(a) == IF a \in Twins THEN "twin" ELSE a

Find(list, id) ==
  LET hits == SelectSeq(list, LAMBDA a : Id(a) = id)
  IN  IF hits = <<>> THEN None ELSE hits[1]

\* _remove unlinks and frees the first node with the name of the account.
Removed(list, a) ==
  IF Find(list, Id(a)) = None THEN list ELSE Remove(list, Find(list, Id(a)))

NoLists == [pub |-> [a \in Accounts |-> <<>>], sub |-> [a \in Accounts |-> <<>>]]
NewCache == [pp |-> NewHandler, data |-> [b \in Buffers |-> 0]]

\* data_center_init
DcInit ==
  /\ live = {Main} /\ pool = <<>> /\ lists = NoLists
  /\ cache = [a \in Accounts |-> NewCache]
  /\ callback = {}
  /\ timer = [a \in Accounts |-> None]
  /\ walks = <<>> /\ corrupt = FALSE
  /\ latest = [a \in Accounts |-> 0] /\ taken = [a \in Accounts |-> TRUE]

-----------------------------------------------------------------------------
(* Subscriptions, as functions of the two families of lists.               *)

\* What subscribe does unless one of its allocations fails.
CanSubscribe(l, p, a, id) == /\ Id(a) # id
                             /\ Find(l.pub[a], id) = None
                             /\ Find(p, id) # None
Subscribed(l, p, a, id) ==
  LET pub == Find(p, id)
  IN  [pub |-> [l.pub EXCEPT ![a] = Append(@, pub)],
       sub |-> [l.sub EXCEPT ![pub] = Append(@, a)]]

OneSidedBug(l, a, id) ==
  LET pub == Find(l.pub[a], id)
  IN  IF pub = None THEN l ELSE [l EXCEPT !.pub[a] = Removed(@, pub)]
Unsubscribed(l, a, id) ==
  LET pub == Find(l.pub[a], id)
  IN  IF pub = None THEN l
      ELSE [pub |-> [l.pub EXCEPT ![a] = Removed(@, pub)],
            sub |-> [l.sub EXCEPT ![pub] = Removed(@, a)]]

\* account_destroy: the subscribers unfollow, then the publishers forget it.
Unfollowed(l, a) ==
  FoldLeft(LAMBDA m, s : Unsubscribed(m, s, Id(a)), l, l.sub[a])
Forgotten(l, a) ==
  [pub |-> [l.pub EXCEPT ![a] = <<>>],
   sub |-> [p \in Accounts |->
              IF Contains(l.pub[a], p) THEN Removed(l.sub[p], a) ELSE l.sub[p]]]

\* What a callback of publish leaves alone, unless SelfUnlink.
Standing == {w.node : w \in ToSet(walks)}
Publishing == {w.pub : w \in ToSet(walks)}

-----------------------------------------------------------------------------
\* Mounts the account under a new name, and the main account follows it.
AddAccount(a, memory, followed) ==
  IF memory /\ Find(pool, Id(a)) = None
  THEN /\ pool' = Append(pool, a)
       /\ lists' = IF followed /\ CanSubscribe(lists, pool', Main, Id(a))
                   THEN Subscribed(lists, pool', Main, Id(a)) ELSE lists
  ELSE UNCHANGED <<pool, lists>>

\* Whether add_account succeeds is not looked at.  Without memory for its
\* buffers create fails, and the account is not in use.
Create(a, mounted, followed) ==
  /\ a \notin live /\ Main \in live
  /\ live' = live \cup {a}
  /\ cache' = [cache EXCEPT ![a] = NewCache]
  /\ AddAccount(a, mounted, followed)
  /\ UNCHANGED <<callback, timer, walks, corrupt, latest, taken>>

Destroy(a) ==
  /\ a \in live \ {Main}
  /\ SelfUnlink \/ a \notin Standing \cup Publishing
  /\ live' = live \ {a}
  /\ lists' = Forgotten(Unfollowed(lists, a), a)
  /\ pool' = Removed(pool, a)
  /\ timer' = [timer EXCEPT ![a] = None]
  /\ cache' = [cache EXCEPT ![a] = NewCache]
  /\ callback' = callback \ {a}
  /\ latest' = [latest EXCEPT ![a] = 0] /\ taken' = [taken EXCEPT ![a] = TRUE]
  /\ UNCHANGED <<walks, corrupt>>

\* data_center_deinit, and the next data_center_init.  destroy unlinks and
\* frees the node of each mounted account, which deinit then does again.
Deinit ==
  /\ walks = <<>>
  /\ DeinitMounted \/ live = {Main}
  /\ corrupt' = (pool # <<>>)
  /\ live' = {Main} /\ pool' = <<>> /\ lists' = NoLists
  /\ callback' = {}
  /\ timer' = [a \in Accounts |-> None]
  /\ UNCHANGED <<cache, walks, latest, taken>>

Subscribe(a, id) ==
  /\ a \in live /\ CanSubscribe(lists, pool, a, id)
  /\ lists' = Subscribed(lists, pool, a, id)
  /\ UNCHANGED <<live, pool, cache, callback, timer, walks, corrupt, latest, taken>>

Unsubscribe(a, id) ==
  /\ a \in live /\ Find(lists.pub[a], id) # None
  /\ SelfUnlink \/ a \notin Standing
  /\ lists' = Unsubscribed(lists, a, id)
  /\ UNCHANGED <<live, pool, cache, callback, timer, walks, corrupt, latest, taken>>

-----------------------------------------------------------------------------
(* Data.  A commit differs from what the two buffers hold.                 *)
Commits == 1 .. 3
Commit(a) ==
  LET pp   == GetWriteBuf(cache[a].pp)
      data == CHOOSE d \in Commits : \A b \in Buffers : cache[a].data[b] # d
  IN  /\ a \in live \cap Cached
      /\ cache' = [cache EXCEPT ![a] = [pp   |-> SetWriteDone(pp),
                                        data |-> [@.data EXCEPT ![pp.write] = data]]]
      /\ latest' = [latest EXCEPT ![a] = data]
      /\ taken' = [taken EXCEPT ![a] = FALSE]
      /\ UNCHANGED <<live, pool, lists, callback, timer, walks, corrupt>>

\* The subscribers from position i on that have a callback; those without
\* one are passed by.
Called(subs) == SelectSeq(subs, LAMBDA s : s \in callback)

\* The node the walk reaches next in list subs, its callback called, or the
\* end of publish.
Walk(w, rest, pp) ==
  LET todo == Called(rest)
  IN  IF todo = <<>>
      THEN /\ walks' = Tail(w)
           /\ cache' = [cache EXCEPT ![w[1].pub].pp = SetReadDone(pp)]
      ELSE /\ walks' = <<[w[1] EXCEPT !.node = todo[1]]>> \o Tail(w)
           /\ cache' = [cache EXCEPT ![w[1].pub].pp = pp]

Publish(a) ==
  LET pp == GetReadBuf(cache[a].pp)
      w  == [pub |-> a, node |-> None, rbuf |-> pp.read, value |-> latest[a]]
  IN  /\ a \in live \cap Cached /\ SomethingToRead(cache[a].pp)
      /\ Len(walks) < MaxDepth
      /\ NestedRead \/ a \notin Publishing
      /\ Walk(<<w>> \o walks, lists.sub[a], pp)
      /\ taken' = [taken EXCEPT ![a] = TRUE]
      /\ UNCHANGED <<live, pool, lists, callback, timer, corrupt, latest>>

\* The callback returns: the walk goes on from its node, which must still be
\* in the list.
Returned ==
  LET subs == lists.sub[walks[1].pub]
  IN  /\ walks # <<>>
      /\ Contains(subs, walks[1].node)
      /\ Walk(walks, SubSeq(subs, IndexFirstSubSeq(<<walks[1].node>>, subs) + 1, Len(subs)),
              cache[walks[1].pub].pp)
      /\ UNCHANGED <<live, pool, lists, callback, timer, corrupt, latest, taken>>

\* pull: the callback of the publisher answers, or its buffer is read.  A callback that
\* answers, is notified or timed may do what the other actions do; until it does nothing
\* changes.
PullAsked(a, id) ==
  LET pub == Find(lists.pub[a], id)
  IN  /\ a \in live /\ pub \in callback
      /\ UNCHANGED dcVars

PullCached(a, id) ==
  LET pub == Find(lists.pub[a], id)
      pp  == GetReadBuf(cache[pub].pp)
  IN  /\ a \in live /\ pub \in Cached \ callback
      /\ SomethingToRead(cache[pub].pp)
      /\ NestedRead \/ pub \notin Publishing
      /\ cache' = [cache EXCEPT ![pub].pp = SetReadDone(pp)]
      /\ taken' = [taken EXCEPT ![pub] = TRUE]
      /\ UNCHANGED <<live, pool, lists, callback, timer, walks, corrupt, latest>>

Notify(a, id) ==
  LET pub == Find(lists.pub[a], id)
  IN  /\ a \in live /\ pub \in callback
      /\ UNCHANGED dcVars

-----------------------------------------------------------------------------
SetEventCallback(a, on) ==
  /\ a \in live
  /\ callback' = IF on THEN callback \cup {a} ELSE callback \ {a}
  /\ UNCHANGED <<live, pool, lists, cache, timer, walks, corrupt, latest, taken>>

\* The period 0 only destroys the old timer; a new one is stopped.
SetTimerPeriod(a, period) ==
  /\ a \in live \cap Timed
  /\ timer' = [timer EXCEPT ![a] = IF period THEN "stopped" ELSE None]
  /\ UNCHANGED <<live, pool, lists, cache, callback, walks, corrupt, latest, taken>>

SetTimerEnable(a, en) ==
  /\ a \in live /\ timer[a] # None
  /\ timer' = [timer EXCEPT ![a] = IF en THEN "running" ELSE "stopped"]
  /\ UNCHANGED <<live, pool, lists, cache, callback, walks, corrupt, latest, taken>>

\* soft_timer_poll, called by the main loop only.
TimerCallback(a) ==
  /\ walks = <<>> /\ timer[a] = "running" /\ a \in callback
  /\ UNCHANGED dcVars

DcNext ==
  \/ \E a \in Accounts :
       \/ \E mounted, followed \in BOOLEAN : Create(a, mounted, followed)
       \/ Destroy(a) \/ Commit(a) \/ Publish(a) \/ TimerCallback(a)
       \/ \E b \in live : \/ Subscribe(a, Id(b)) \/ Unsubscribe(a, Id(b))
                          \/ PullAsked(a, Id(b)) \/ PullCached(a, Id(b))
                          \/ Notify(a, Id(b))
       \/ \E on \in BOOLEAN : \/ SetEventCallback(a, on) \/ SetTimerPeriod(a, on)
                              \/ SetTimerEnable(a, on)
  \/ Returned \/ Deinit

DcSpec == DcInit /\ [][DcNext]_dcVars

-----------------------------------------------------------------------------
DcTypeOK ==
  /\ live \subseteq Accounts /\ callback \subseteq Accounts
  /\ pool \in Seq(Accounts)
  /\ lists \in [{"pub", "sub"} -> [Accounts -> Seq(Accounts)]]
  /\ cache \in [Accounts -> [pp : Handlers, data : [Buffers -> {0} \cup Commits]]]
  /\ timer \in [Accounts -> {None, "stopped", "running"}]
  /\ corrupt \in BOOLEAN

(* Whatever is created, destroyed, subscribed and cancelled, also by the   *)
(* callbacks of a publish and when memory runs out, the two lists of an    *)
(* account mirror those of the others without a repetition, whoever is     *)
(* followed is in the pool, no list, timer or walk refers to an account    *)
(* that was destroyed, and no node is freed twice.                         *)
SubscriptionsMirrored ==
  /\ \A a, b \in Accounts : Contains(lists.pub[a], b) <=> Contains(lists.sub[b], a)
  /\ \A a \in Accounts : IsInjective(lists.pub[a]) /\ IsInjective(lists.sub[a])
  /\ \A a \in Accounts \ live : timer[a] = None /\ lists.pub[a] = <<>> /\ lists.sub[a] = <<>>
  /\ ToSet(pool) \subseteq live /\ IsInjective(pool) /\ ~corrupt
  /\ \A a \in Accounts : ToSet(lists.pub[a]) \subseteq ToSet(pool)
  /\ \A w \in ToSet(walks) : Contains(lists.sub[w.pub], w.node)

(* All subscribers a publish calls see the data that was committed last    *)
(* when it began, whatever their callbacks commit meanwhile; and what is   *)
(* next to be read is the last commit and was never read before.           *)
PublishedIntact ==
  /\ \A w \in ToSet(walks) : cache[w.pub].data[w.rbuf] = w.value
  /\ \A a \in live, b \in Buffers :
       /\ cache[a].pp.avail[b]
       /\ \A w \in ToSet(walks) : w.pub = a => w.rbuf # b
       => cache[a].data[b] = latest[a] /\ ~taken[a]
=============================================================================
