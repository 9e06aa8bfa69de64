-------------------------- MODULE FrontendAdapter --------------------------
(***************************************************************************)
(* The command side of MatrixFrontendAdapter (backend-matrix lib.rs) and   *)
(* the bounded channel to the runtime (backend-core channel.rs).           *)
(*                                                                         *)
(* Callers share the adapter.  A flush pops the oldest command under the   *)
(* queue's lock, and sends it after the lock is gone, waiting for room in  *)
(* the channel; when the runtime is gone it puts the command back.  So the *)
(* command a flush has in hand is neither queued nor sent.  Commands are   *)
(* named by their place in the order of push_back; the ids callers get are *)
(* drawn before the lock is taken and are names only.                      *)
(***************************************************************************)
EXTENDS Naturals, Sequences, SequencesExt, FiniteSets

CONSTANTS Callers,      \* threads or tasks that use the adapter
          Capacity,     \* command_buffer of BackendChannels::new
          MaxCommands   \* commands ever enqueued

ASSUME AdapterAssumption ==
    /\ IsFiniteSet(Callers) /\ Callers # {}
    /\ Capacity \in Nat \ {0}
    /\ MaxCommands \in Nat

VARIABLES
    next,       \* next_command_id
    queue,      \* the adapter's queue
    pc,         \* what each caller is in: nothing, flush_one, flush_all
    hand,       \* the command its flush has popped and not sent, 0 for none
    sent,       \* every command that entered the channel, in order
    received,   \* how many of them the runtime has taken
    withdrawn,  \* commands cancelled, or dropped with the flush that held them
    closed      \* has the runtime dropped its receiver?

vars == <<next, queue, pc, hand, sent, received, withdrawn, closed>>

Commands == 1..(next - 1)
Queued == Range(queue)
InHand == {hand[c] : c \in Callers} \ {0}
Sent == Range(sent)

Init ==
    /\ next = 1
    /\ queue = <<>>
    /\ pc = [c \in Callers |-> "idle"]
    /\ hand = [c \in Callers |-> 0]
    /\ sent = <<>> /\ received = 0
    /\ withdrawn = {}
    /\ closed = FALSE

\* The desktop's command worker: enqueue, then flush_all.
Submit(c) ==
    /\ pc[c] = "idle"
    /\ next <= MaxCommands
    /\ next' = next + 1
    /\ queue' = Append(queue, next)
    /\ pc' = [pc EXCEPT ![c] = "all"]
    /\ UNCHANGED <<hand, sent, received, withdrawn, closed>>

BeginFlushOne(c) ==
    /\ pc[c] = "idle"
    /\ pc' = [pc EXCEPT ![c] = "one"]
    /\ UNCHANGED <<next, queue, hand, sent, received, withdrawn, closed>>

Cancel(c) ==
    /\ pc[c] = "idle"
    /\ \E k \in DOMAIN queue :
          /\ queue' = RemoveAt(queue, k)
          /\ withdrawn' = withdrawn \cup {queue[k]}
    /\ UNCHANGED <<next, pc, hand, sent, received, closed>>

\* pop_front under the lock.
Pop(c) ==
    /\ pc[c] # "idle"
    /\ hand[c] = 0
    /\ queue # <<>>
    /\ hand' = [hand EXCEPT ![c] = Head(queue)]
    /\ queue' = Tail(queue)
    /\ UNCHANGED <<next, pc, sent, received, withdrawn, closed>>

\* The queue is empty: Ok(None), which ends flush_all too.
FlushEnds(c) ==
    /\ pc[c] # "idle"
    /\ hand[c] = 0
    /\ queue = <<>>
    /\ pc' = [pc EXCEPT ![c] = "idle"]
    /\ UNCHANGED <<next, queue, hand, sent, received, withdrawn, closed>>

\* Mutant: the channel refuses a command when full and the flush drops it.
SendOrDrop(c) ==
    /\ hand[c] # 0
    /\ ~closed
    /\ sent' = IF Len(sent) - received < Capacity THEN Append(sent, hand[c]) ELSE sent
    /\ hand' = [hand EXCEPT ![c] = 0]
    /\ pc' = [pc EXCEPT ![c] = IF pc[c] = "one" THEN "idle" ELSE "all"]
    /\ UNCHANGED <<next, queue, received, withdrawn, closed>>

\* The channel has room.
SendCommand(c) ==
    /\ hand[c] # 0
    /\ ~closed
    /\ Len(sent) - received < Capacity
    /\ sent' = Append(sent, hand[c])
    /\ hand' = [hand EXCEPT ![c] = 0]
    /\ pc' = [pc EXCEPT ![c] = IF pc[c] = "one" THEN "idle" ELSE "all"]
    /\ UNCHANGED <<next, queue, received, withdrawn, closed>>

\* Mutant: a command that could not be sent goes to the end of the queue, and
\* the flush goes on.
PutAtEnd(c) ==
    /\ hand[c] # 0
    /\ queue' = Append(queue, hand[c])
    /\ hand' = [hand EXCEPT ![c] = 0]
    /\ pc' = [pc EXCEPT ![c] = "idle"]
    /\ UNCHANGED <<next, sent, received, withdrawn, closed>>

\* Mutant: a flush that finds the channel full puts its command back and ends.
PutBackWhenFull(c) ==
    /\ hand[c] # 0
    /\ closed \/ Len(sent) - received = Capacity
    /\ queue' = <<hand[c]>> \o queue
    /\ hand' = [hand EXCEPT ![c] = 0]
    /\ pc' = [pc EXCEPT ![c] = "idle"]
    /\ UNCHANGED <<next, sent, received, withdrawn, closed>>

\* The runtime is gone: push_front, and the flush returns the error.
PutBack(c) ==
    /\ hand[c] # 0
    /\ closed
    /\ queue' = <<hand[c]>> \o queue
    /\ hand' = [hand EXCEPT ![c] = 0]
    /\ pc' = [pc EXCEPT ![c] = "idle"]
    /\ UNCHANGED <<next, sent, received, withdrawn, closed>>

\* The future of a flush is dropped while it waits for room (its task is
\* aborted, or loses a select): the command it holds goes with it.
DropFlush(c) ==
    /\ pc[c] # "idle"
    /\ hand[c] # 0
    /\ withdrawn' = withdrawn \cup {hand[c]}
    /\ hand' = [hand EXCEPT ![c] = 0]
    /\ pc' = [pc EXCEPT ![c] = "idle"]
    /\ UNCHANGED <<next, queue, sent, received, closed>>

\* The runtime's loop: command_rx.recv().
Receive ==
    /\ ~closed
    /\ received < Len(sent)
    /\ received' = received + 1
    /\ UNCHANGED <<next, queue, pc, hand, sent, withdrawn, closed>>

\* The runtime's task ends; the commands in the channel are dropped with it.
CloseChannel ==
    /\ ~closed
    /\ closed' = TRUE
    /\ UNCHANGED <<next, queue, pc, hand, sent, received, withdrawn>>

Flush(c) == Pop(c) \/ FlushEnds(c) \/ SendCommand(c) \/ PutBack(c)

Next ==
    \/ \E c \in Callers :
          \/ Submit(c)
          \/ BeginFlushOne(c)
          \/ Cancel(c)
          \/ Pop(c)
          \/ FlushEnds(c)
          \/ SendCommand(c)
          \/ PutBack(c)
          \/ DropFlush(c)
    \/ Receive
    \/ CloseChannel

\* Tokio polls every task that can go on, and the runtime takes commands.
Fairness ==
    /\ \A c \in Callers : WF_vars(Flush(c))
    /\ WF_vars(Receive)

Spec == Init /\ [][Next]_vars /\ Fairness

-----------------------------------------------------------------------------
(* Properties.                                                             *)

TypeOK ==
    /\ next \in Nat \ {0}
    /\ queue \in Seq(Nat \ {0})
    /\ pc \in [Callers -> {"idle", "one", "all"}]
    /\ hand \in [Callers -> Nat]
    /\ sent \in Seq(Nat \ {0})
    /\ received \in 0..Len(sent)
    /\ withdrawn \subseteq Nat \ {0}
    /\ closed \in BOOLEAN
    /\ Len(sent) - received <= Capacity

Once(s) == \A k, l \in DOMAIN s : s[k] = s[l] => k = l
Ascending(s) == \A k, l \in DOMAIN s : k < l => s[k] < s[l]

\* Every command enqueued is in exactly one place and there once: queued, in
\* the hand of one flush, sent, or withdrawn.  None is lost between the pop
\* and the send or sent twice, and a cancelled one never runs.
EachCommandOnce ==
    /\ Commands = Queued \cup InHand \cup Sent \cup withdrawn
    /\ Queued \cap (InHand \cup Sent \cup withdrawn) = {}
    /\ InHand \cap (Sent \cup withdrawn) = {}
    /\ Sent \cap withdrawn = {}
    /\ Once(queue) /\ Once(sent)
    /\ \A c, d \in Callers : hand[c] = hand[d] /\ hand[c] # 0 => c = d

\* While the runtime lives, the queue is in order and everything queued is
\* younger than everything in hand: what a command can overtake is only what
\* other flushes hold.
QueueBehindHands ==
    ~closed =>
        /\ Ascending(queue)
        /\ \A x \in Queued, y \in InHand \cup Sent : y < x

\* The adapter is a queue in which a command overtakes at most as many others
\* as there are other callers.
Queue == INSTANCE RelaxedQueue WITH
    K <- Cardinality(Callers),
    waiting <- Queued \cup InHand,
    delivered <- sent,
    open <- ~closed
ImplementsQueue == Queue!Spec

\* A command submitted is sent or withdrawn, unless the runtime ends: with a
\* flush_all after every enqueue none stays behind in the queue.
CommandsArrive ==
    \A x \in 1..MaxCommands :
        x \in Queued ~> x \in Sent \cup withdrawn \/ closed
=============================================================================
