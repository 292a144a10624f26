---------------------------- MODULE SimpleQueues ----------------------------
(***************************************************************************)
(* common/simple_fifo: simple_queue.c, simple_semaphore.c and              *)
(* simple_message_buffer.c, each a byte ring (SimpleFifo) with a test for  *)
(* room before the bytes are pushed.  A queue moves members of one size; a *)
(* semaphore is a queue of one meaningless word; a message is its length   *)
(* and then its body, pushed and popped by separate calls of the ring.     *)
(*                                                                         *)
(* The steps of the two sides of the ring are those of SimpleFifo: a queue *)
(* may be used from both sides at once.  The push of a message must not be *)
(* interrupted by a pop: a message buffer is modelled with an interrupt as *)
(* its producer, which may fall into the middle of a pop.                  *)
(***************************************************************************)
EXTENDS SimpleFifo, SequencesExt

CONSTANTS
  Users,       \* what the ring is used for in the behaviours to be checked
  Bodies,      \* the members and messages that are pushed
  MemberSize,  \* member_size of a queue
  LengthSize,  \* sizeof(uint32_t), in bytes: the width of a length
  Length,      \* the length that so many bytes are in memory, in the byte
               \* order of the build
  Capacities   \* the capacity arguments of simple_message_pop

Words == [1 .. LengthSize -> Byte]

ASSUME UsersAssumption ==
  /\ Users \subseteq {"bytes", "queue", "semaphore", "message"}
  /\ 0 \in Byte /\ Bodies \subseteq Seq(Byte)
  /\ MemberSize \in 1 .. Size /\ LengthSize \in 1 .. Size
  /\ Length \in [Words -> Nat]
  /\ \A v, w \in Words : Length[v] = Length[w] => v = w
  /\ Capacities \subseteq Nat

VARIABLES
  user,  \* one of Users
  up,    \* the producer: the bytes being pushed, and the calls that follow
  down,  \* the consumer: where it is, its capacity, and what it copied
  sent   \* history: the members pushed and not handed out, oldest first

queueVars == <<user, up, down, sent>>
allVars == <<vars, queueVars>>

NoPush == [now |-> <<>>, later |-> <<>>]
NoPop == [pc |-> "idle", capacity |-> 0, buf |-> <<>>]

QueueInit == /\ Init
             /\ user \in Users /\ up = NoPush /\ down = NoPop /\ sent = <<>>

\* A length that fits, as bytes, and back: a byte that was not popped leaves
\* the zero the local variable length was set to.
Fits(n) == \E w \in Words : Length[w] = n
Encoded(n) == CHOOSE w \in Words : Length[w] = n
Decoded(bytes) ==
  Length[[i \in 1 .. LengthSize |-> IF i \in DOMAIN bytes THEN bytes[i] ELSE 0]]

-----------------------------------------------------------------------------
(* The producer.                                                           *)

PushIsIdle == push.pc = "idle" /\ up.later = <<>>
PopIsIdle == down.pc = "idle"

\* There is room for what a push stores: the parts are pushed one by one.
PushParts(m, parts) == /\ PushIsIdle
                       /\ up' = [now |-> <<>>, later |-> parts]
                       /\ sent' = Append(sent, m)
                       /\ UNCHANGED <<vars, user, down>>

\* Without room a push returns false and changes nothing.
SimpleQueuePush(m) == /\ user = "queue" /\ Len(m) = MemberSize
                      /\ Remaining >= MemberSize
                      /\ PushParts(m, <<m>>)

Count == [i \in 1 .. LengthSize |-> 0]
SimpleSemaphorePush == /\ user = "semaphore"
                       /\ Remaining >= LengthSize
                       /\ PushParts(Count, <<Count>>)

SimpleMessagePushBug(m) == /\ user = "message" /\ Fits(Len(m))
                           /\ Remaining >= Len(m)
                           /\ PushParts(m, <<Encoded(Len(m)), m>>)
SimpleMessagePush(m) == /\ user = "message" /\ Fits(Len(m))
                        /\ Remaining >= Len(m) + LengthSize
                        /\ PushParts(m, <<Encoded(Len(m)), m>>)

\* The next call of simple_fifo_push.
PushPart == /\ push.pc = "idle" /\ up.later # <<>>
            /\ PushCall(Len(Head(up.later)))
            /\ up' = [now |-> Head(up.later), later |-> Tail(up.later)]
            /\ UNCHANGED <<user, down, sent>>
PushByte == /\ push.pc = "store"
            /\ PushStore(up.now[Len(up.now) - push.left + 1])
            /\ UNCHANGED queueVars
PushOn == PushAdvance /\ UNCHANGED queueVars

-----------------------------------------------------------------------------
(* The consumer.                                                           *)

\* A pop falls into the push of a queue, never into that of a message.
MayPop == user = "message" => PushIsIdle

\* The first call of simple_fifo_pop, when there are bytes enough.  Without
\* them a pop returns false.
PopPart(size, pc, capacity) ==
  /\ PopIsIdle /\ MayPop
  /\ PopCall(size)
  /\ down' = [pc |-> pc, capacity |-> capacity, buf |-> <<>>]
  /\ UNCHANGED <<user, up, sent>>

SimpleQueuePopBug == user = "queue" /\ Available >= 1
                     /\ PopPart(MemberSize, "body", MemberSize)
SimpleQueuePop == user = "queue" /\ Available >= MemberSize
                  /\ PopPart(MemberSize, "body", MemberSize)
SimpleSemaphorePop == user = "semaphore" /\ Available >= LengthSize
                      /\ PopPart(LengthSize, "body", LengthSize)
SimpleMessagePop(capacity) == user = "message" /\ Available > LengthSize
                              /\ PopPart(LengthSize, "length", capacity)

\* simple_fifo_pop goes on.
PopStep == /\ ~PopIsIdle /\ MayPop /\ (PopTest \/ PopAdvance)
           /\ UNCHANGED queueVars
PopByte == /\ ~PopIsIdle /\ MayPop /\ PopLoad
           /\ down' = [down EXCEPT !.buf = Append(@, taken')]
           /\ UNCHANGED <<user, up, sent>>

\* The length is known: pop the body, or drop as many bytes (_drop_message, one
\* at a time) when the capacity is too small.
PopLength ==
  LET length == Decoded(down.buf) IN
  /\ down.pc = "length" /\ pop.pc = "idle" /\ MayPop
  /\ PopCall(length)
  /\ down' = [down EXCEPT !.pc = IF length > down.capacity THEN "drop" ELSE "body",
                          !.buf = <<>>]
  /\ UNCHANGED <<user, up, sent>>

\* A pop returns true; simple_message_pop returns false with the message dropped.
HandOut == /\ down.pc = "body" /\ pop.pc = "idle" /\ MayPop
           /\ down' = NoPop /\ sent' = Tail(sent)
           /\ UNCHANGED <<vars, user, up>>
DropMessage == /\ down.pc = "drop" /\ pop.pc = "idle" /\ MayPop
               /\ down' = NoPop /\ sent' = Tail(sent)
               /\ UNCHANGED <<vars, user, up>>

\* simple_queue_reset and the others, while neither side is inside a call.
ResetAll == /\ PushIsIdle /\ PopIsIdle /\ Reset
            /\ sent' = <<>> /\ UNCHANGED <<user, up, down>>

-----------------------------------------------------------------------------
UseBytes == user = "bytes" /\ Next /\ UNCHANGED queueVars
Producing == \/ \E m \in Bodies : SimpleQueuePush(m) \/ SimpleMessagePush(m)
             \/ SimpleSemaphorePush
             \/ PushPart \/ PushByte \/ PushOn
Consuming == \/ SimpleQueuePop \/ SimpleSemaphorePop
             \/ \E c \in Capacities : SimpleMessagePop(c)
             \/ PopStep \/ PopByte \/ PopLength \/ HandOut \/ DropMessage
UseQueue == user # "bytes" /\ (Producing \/ Consuming \/ ResetAll)

QueueNext == UseBytes \/ UseQueue
QueueSpec == QueueInit /\ [][QueueNext]_allVars

-----------------------------------------------------------------------------
(* What a pop hands out is the oldest member pushed, whole: the consumer   *)
(* never sees half a member while the producer is still pushing it, and    *)
(* lengths and bodies never get out of step (the tests for room and for    *)
(* enough bytes, and the drop of a message that is too long).              *)
HandsOutWhole ==
  [][/\ HandOut => sent # <<>> /\ down.buf = Head(sent)
     /\ DropMessage => sent # <<>> /\ Len(Head(sent)) > down.capacity]_allVars

\* The members that wait, as the bytes that were pushed for them.
Framed(m) == IF user = "message" THEN Encoded(Len(m)) \o m ELSE m

\* The bytes s are those of the members ms, one after the other: the i-th of
\* them ends at end[i].
Holds(s, ms) ==
  \E end \in [0 .. Len(ms) -> 0 .. Len(s)] :
    /\ end[0] = 0 /\ end[Len(ms)] = Len(s)
    /\ \A i \in 0 .. Len(ms) : \A j \in 0 .. i : end[j] <= end[i]
    /\ \A i \in 1 .. Len(ms) :
         /\ end[i] = end[i - 1] + Len(Framed(ms[i]))
         /\ \A k \in 1 .. Len(Framed(ms[i])) : s[end[i - 1] + k] = Framed(ms[i])[k]

(* With neither side inside a call the ring holds exactly the members that *)
(* were pushed and not handed out: none is lost and no byte left behind.   *)
NothingLeftBehind ==
  user # "bytes" /\ PushIsIdle /\ PopIsIdle => Holds(Unread, sent)

-----------------------------------------------------------------------------
\* What the run pushes, and its byte order: the lowest byte first.
UpToMaxLength == UNION {[1 .. n -> 0 .. 1] : n \in 0 .. MaxLength}
LowestFirst ==
  [w \in Words |-> FoldLeft(LAMBDA n, i : n + w[i] * Cardinality(Byte) ^ (i - 1), 0,
                           [i \in 1 .. LengthSize |-> i])]
=============================================================================
