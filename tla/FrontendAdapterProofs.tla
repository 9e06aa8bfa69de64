------------------------ MODULE FrontendAdapterProofs ------------------------
(***************************************************************************)
(* Theorems about FrontendAdapter, for every finite set of callers and     *)
(* every capacity: a command enqueued is in one place and runs at most     *)
(* once, and the adapter is a relaxed queue.                               *)
(***************************************************************************)
EXTENDS FrontendAdapter, FiniteSetTheorems, SequenceTheorems, TLAPS

Positive == Nat \ {0}

\* The inductive invariant.
AdapterInv == TypeOK /\ EachCommandOnce /\ QueueBehindHands

-----------------------------------------------------------------------------
(* Sequences of commands.                                                  *)

LEMMA AppendSeq ==
    ASSUME NEW s \in Seq(Positive), NEW x \in Positive
    PROVE  /\ Append(s, x) \in Seq(Positive)
           /\ Range(Append(s, x)) = Range(s) \cup {x}
           /\ Once(s) /\ x \notin Range(s) => Once(Append(s, x))
           /\ Ascending(s) /\ (\A y \in Range(s) : y < x) => Ascending(Append(s, x))
<1> DEFINE t == Append(s, x)
<1>1. /\ t \in Seq(Positive) /\ Len(t) = Len(s) + 1 /\ DOMAIN t = 1..(Len(s) + 1)
      /\ DOMAIN s = 1..Len(s) /\ Len(s) \in Nat
      /\ \A k \in DOMAIN s : t[k] = s[k] /\ k \in DOMAIN t
      /\ t[Len(s) + 1] = x
  OBVIOUS
<1>2. Range(t) = Range(s) \cup {x}
  BY <1>1, SMT DEF Range
<1>3. Once(s) /\ x \notin Range(s) => Once(t)
  <2> SUFFICES ASSUME Once(s), x \notin Range(s), NEW k \in DOMAIN t, NEW l \in DOMAIN t,
                      t[k] = t[l]
               PROVE  k = l
    BY DEF Once
  <2> QED
    BY <1>1 DEF Once, Range
<1>4. Ascending(s) /\ (\A y \in Range(s) : y < x) => Ascending(t)
  <2> SUFFICES ASSUME Ascending(s), \A y \in Range(s) : y < x,
                      NEW k \in DOMAIN t, NEW l \in DOMAIN t, k < l
               PROVE  t[k] < t[l]
    BY DEF Ascending
  <2> QED
    BY <1>1 DEF Ascending, Range
<1> HIDE DEF t
<1> QED
  BY <1>1, <1>2, <1>3, <1>4 DEF t

LEMMA TailSeq ==
    ASSUME NEW s \in Seq(Positive), s # <<>>
    PROVE  /\ Head(s) \in Positive /\ Tail(s) \in Seq(Positive)
           /\ Range(s) = Range(Tail(s)) \cup {Head(s)}
           /\ Once(s) => Once(Tail(s)) /\ Head(s) \notin Range(Tail(s))
           /\ Ascending(s) => /\ Ascending(Tail(s))
                              /\ \A y \in Range(Tail(s)) : Head(s) < y
<1> DEFINE t == Tail(s)
           x == Head(s)
<1>1. /\ t \in Seq(Positive) /\ DOMAIN t = 1..(Len(s) - 1) /\ DOMAIN s = 1..Len(s)
      /\ Len(s) \in Nat /\ Len(s) >= 1 /\ x = s[1] /\ x \in Positive
      /\ \A k \in DOMAIN t : t[k] = s[k + 1] /\ k + 1 \in DOMAIN s
  OBVIOUS
<1> HIDE DEF t, x
<1>2. \A k \in DOMAIN s : k = 1 \/ (k - 1 \in DOMAIN t /\ s[k] = t[k - 1])
  BY <1>1
<1>3. Range(s) = Range(t) \cup {x}
  <2>1. Range(s) \subseteq Range(t) \cup {x}
    BY <1>1, <1>2 DEF Range
  <2>2. Range(t) \subseteq Range(s)
    BY <1>1 DEF Range
  <2>3. x \in Range(s)
    BY <1>1 DEF Range
  <2> QED
    BY <2>1, <2>2, <2>3
<1>4. ASSUME Once(s) PROVE Once(t) /\ x \notin Range(t)
  <2>1. \A k, l \in DOMAIN t : t[k] = t[l] => k = l
    BY <1>1, <1>4 DEF Once
  <2>2. \A k \in DOMAIN t : t[k] # x
    BY <1>1, <1>4 DEF Once
  <2> QED
    BY <2>1, <2>2 DEF Once, Range
<1>5. ASSUME Ascending(s) PROVE Ascending(t) /\ \A y \in Range(t) : x < y
  <2>1. \A k, l \in DOMAIN t : k < l => t[k] < t[l]
    BY <1>1, <1>5 DEF Ascending
  <2>2. \A k \in DOMAIN t : x < t[k]
    BY <1>1, <1>5 DEF Ascending
  <2> QED
    BY <2>1, <2>2 DEF Ascending, Range
<1> QED
  BY <1>1, <1>3, <1>4, <1>5 DEF t, x

LEMMA ConsSeq ==
    ASSUME NEW s \in Seq(Positive), NEW x \in Positive
    PROVE  /\ <<x>> \o s \in Seq(Positive)
           /\ Range(<<x>> \o s) = Range(s) \cup {x}
           /\ Once(s) /\ x \notin Range(s) => Once(<<x>> \o s)
<1> DEFINE t == <<x>> \o s
<1>1. /\ t \in Seq(Positive) /\ DOMAIN t = 1..(Len(s) + 1) /\ DOMAIN s = 1..Len(s)
      /\ Len(s) \in Nat /\ t[1] = x
      /\ \A k \in DOMAIN s : t[k + 1] = s[k] /\ k + 1 \in DOMAIN t
  OBVIOUS
<1> HIDE DEF t
<1>2. \A k \in DOMAIN t : k = 1 \/ (k - 1 \in DOMAIN s /\ t[k] = s[k - 1])
  BY <1>1
<1>3. Range(t) = Range(s) \cup {x}
  <2>1. Range(t) \subseteq Range(s) \cup {x}
    BY <1>1, <1>2 DEF Range
  <2>2. Range(s) \subseteq Range(t)
    BY <1>1 DEF Range
  <2>3. x \in Range(t)
    BY <1>1 DEF Range
  <2> QED
    BY <2>1, <2>2, <2>3
<1>4. ASSUME Once(s), x \notin Range(s) PROVE Once(t)
  <2> SUFFICES ASSUME NEW k \in DOMAIN t, NEW l \in DOMAIN t, t[k] = t[l]
               PROVE  k = l
    BY DEF Once
  <2> QED
    BY <1>1, <1>2, <1>4 DEF Once, Range
<1> QED
  BY <1>1, <1>3, <1>4 DEF t

LEMMA RemoveSeq ==
    ASSUME NEW s \in Seq(Positive), NEW k \in DOMAIN s, Once(s)
    PROVE  /\ RemoveAt(s, k) \in Seq(Positive)
           /\ s[k] \in Positive
           /\ Range(RemoveAt(s, k)) = Range(s) \ {s[k]}
           /\ Once(RemoveAt(s, k))
           /\ Ascending(s) => Ascending(RemoveAt(s, k))
<1> DEFINE a == SubSeq(s, 1, k - 1)
           b == SubSeq(s, k + 1, Len(s))
           t == RemoveAt(s, k)
<1>0. DOMAIN s = 1..Len(s) /\ Len(s) \in Nat /\ k \in 1..Len(s) /\ s[k] \in Positive
  OBVIOUS
<1>1. /\ a \in Seq(Positive) /\ Len(a) = k - 1
      /\ \A i \in 1..(k - 1) : a[i] = s[i]
  BY <1>0
<1>2. /\ b \in Seq(Positive) /\ Len(b) = Len(s) - k
      /\ \A i \in 1..(Len(s) - k) : b[i] = s[k + i]
  BY <1>0
<1> HIDE DEF a, b
<1>3. t = a \o b
  BY DEF RemoveAt, a, b
<1> HIDE DEF t
<1>4. /\ t \in Seq(Positive) /\ DOMAIN t = 1..(Len(s) - 1)
      /\ \A i \in DOMAIN t : i < k => t[i] = s[i] /\ i \in DOMAIN s
      /\ \A i \in DOMAIN t : i >= k => t[i] = s[i + 1] /\ i + 1 \in DOMAIN s
  <2>1. t \in Seq(Positive) /\ Len(t) = Len(a) + Len(b)
    BY <1>1, <1>2, <1>3, ConcatProperties, Zenon
  <2>2. DOMAIN t = 1..Len(t)
    BY <2>1
  <2>3. DOMAIN t = 1..(Len(s) - 1)
    BY <1>0, <1>1, <1>2, <2>1, <2>2
  <2>4. \A i \in DOMAIN t : t[i] = IF i <= Len(a) THEN a[i] ELSE b[i - Len(a)]
    <3>1. \A i \in 1..(Len(a) + Len(b)) :
              (a \o b)[i] = IF i <= Len(a) THEN a[i] ELSE b[i - Len(a)]
      BY <1>1, <1>2, ConcatProperties, Zenon
    <3> QED
      BY <1>3, <2>1, <2>2, <3>1
  <2>5. ASSUME NEW i \in DOMAIN t, i < k PROVE t[i] = s[i] /\ i \in DOMAIN s
    BY <1>0, <1>1, <2>3, <2>4, <2>5
  <2>6. ASSUME NEW i \in DOMAIN t, i >= k PROVE t[i] = s[i + 1] /\ i + 1 \in DOMAIN s
    <3>1. t[i] = b[i - (k - 1)]
      BY <1>0, <1>1, <2>3, <2>4, <2>6
    <3>2. i - (k - 1) \in 1..(Len(s) - k) /\ k + (i - (k - 1)) = i + 1
      BY <1>0, <2>3, <2>6
    <3> QED
      BY <1>0, <1>2, <2>3, <2>6, <3>1, <3>2
  <2> QED
    BY <2>1, <2>3, <2>5, <2>6
<1>5. Range(t) = Range(s) \ {s[k]}
  <2>1. ASSUME NEW i \in DOMAIN t PROVE t[i] \in Range(s) /\ t[i] # s[k]
    BY <1>0, <1>4 DEF Once, Range
  <2>2. ASSUME NEW i \in DOMAIN s, s[i] # s[k] PROVE s[i] \in Range(t)
    <3>1. CASE i < k
      BY <1>0, <1>4, <3>1 DEF Range
    <3>2. CASE i > k
      <4>1. i - 1 \in DOMAIN t /\ t[i - 1] = s[i]
        BY <1>0, <1>4, <3>2
      <4> QED
        BY <4>1 DEF Range
    <3> QED
      BY <1>0, <2>2, <3>1, <3>2
  <2> QED
    BY <2>1, <2>2 DEF Range
<1>6. Once(t)
  BY <1>0, <1>4 DEF Once
<1>7. ASSUME Ascending(s) PROVE Ascending(t)
  BY <1>0, <1>4, <1>7 DEF Ascending
<1> QED
  BY <1>0, <1>4, <1>5, <1>6, <1>7 DEF t

-----------------------------------------------------------------------------
(* What the flushes hold.                                                  *)

Distinct(h) == \A c, d \in Callers : h[c] = h[d] /\ h[c] # 0 => c = d
Held(h) == {h[c] : c \in Callers} \ {0}

LEMMA TakeInHand ==
    ASSUME NEW h \in [Callers -> Nat], NEW c \in Callers, h[c] = 0,
           NEW x \in Positive, x \notin Held(h), Distinct(h)
    PROVE  /\ [h EXCEPT ![c] = x] \in [Callers -> Nat]
           /\ Held([h EXCEPT ![c] = x]) = Held(h) \cup {x}
           /\ Distinct([h EXCEPT ![c] = x])
<1> DEFINE g == [h EXCEPT ![c] = x]
<1>1. /\ g \in [Callers -> Nat] /\ g[c] = x /\ x # 0
      /\ \A d \in Callers : d # c => g[d] = h[d]
  BY DEF Positive
<1> HIDE DEF g
<1>2. Held(g) = Held(h) \cup {x}
  BY <1>1 DEF Held
<1>3. Distinct(g)
  BY <1>1 DEF Distinct, Held
<1> QED
  BY <1>1, <1>2, <1>3 DEF g

LEMMA EmptyHand ==
    ASSUME NEW h \in [Callers -> Nat], NEW c \in Callers, h[c] # 0, Distinct(h)
    PROVE  /\ [h EXCEPT ![c] = 0] \in [Callers -> Nat]
           /\ h[c] \in Held(h)
           /\ Held([h EXCEPT ![c] = 0]) = Held(h) \ {h[c]}
           /\ Distinct([h EXCEPT ![c] = 0])
<1> DEFINE g == [h EXCEPT ![c] = 0]
<1>1. /\ g \in [Callers -> Nat] /\ g[c] = 0
      /\ \A d \in Callers : d # c => g[d] = h[d]
  OBVIOUS
<1> HIDE DEF g
<1>2. h[c] \in Held(h)
  BY DEF Held
<1>3. Held(g) = Held(h) \ {h[c]}
  BY <1>1 DEF Held, Distinct
<1>4. Distinct(g)
  BY <1>1 DEF Distinct
<1> QED
  BY <1>1, <1>2, <1>3, <1>4 DEF g

-----------------------------------------------------------------------------
(* The invariant.                                                          *)

LEMMA InitEstablishes == Init => AdapterInv
<1> SUFFICES ASSUME Init PROVE AdapterInv
  OBVIOUS
<1> USE DEF Init
<1>1. TypeOK
  <2>1. /\ next \in Nat \ {0} /\ queue \in Seq(Nat \ {0}) /\ sent \in Seq(Nat \ {0})
        /\ withdrawn \subseteq Nat \ {0}
    OBVIOUS
  <2>2. received \in 0..Len(sent) /\ Len(sent) - received <= Capacity
    <3>1. Len(sent) = 0 /\ received = 0
      OBVIOUS
    <3> QED
      BY <3>1, AdapterAssumption
  <2>3. /\ pc \in [Callers -> {"idle", "one", "all"}]
        /\ hand \in [Callers -> Nat]
    OBVIOUS
  <2>4. closed \in BOOLEAN
    BY Zenon
  <2> QED
    BY <2>1, <2>2, <2>3, <2>4 DEF TypeOK
<1>2. Queued = {} /\ InHand = {} /\ Sent = {} /\ Commands = {}
  BY DEF Queued, InHand, Sent, Commands, Range
<1>3. EachCommandOnce
  BY <1>2 DEF EachCommandOnce, Once
<1>4. QueueBehindHands
  BY <1>2 DEF QueueBehindHands, Ascending
<1> QED
  BY <1>1, <1>3, <1>4 DEF AdapterInv

\* Every command that is somewhere has a number below the next one.
LEMMA Numbered ==
    ASSUME AdapterInv
    PROVE  /\ next \in Positive /\ Commands \subseteq Positive
           /\ \A x \in Commands : x < next
           /\ InHand = Held(hand) /\ Distinct(hand)
           /\ queue \in Seq(Positive) /\ sent \in Seq(Positive)
           /\ hand \in [Callers -> Nat]
  BY DEF AdapterInv, TypeOK, EachCommandOnce, Commands, InHand, Held, Distinct, Positive

LEMMA SubmitKeeps ==
    ASSUME AdapterInv, NEW c \in Callers, Submit(c) PROVE AdapterInv'
<1> USE DEF AdapterInv, Submit
<1>1. /\ queue' \in Seq(Positive) /\ Queued' = Queued \cup {next}
      /\ next \notin Commands
      /\ Once(queue) => Once(queue')
      /\ Ascending(queue) => Ascending(queue')
  <2>1. Queued \subseteq Commands
    BY DEF EachCommandOnce
  <2>2. next \notin Commands
    <3>1. next \in Nat /\ \A x \in Commands : x < next
      BY Numbered DEF Positive
    <3>2. ~(next < next)
      BY <3>1
    <3> QED
      BY <3>1, <3>2
  <2>3. next \notin Queued /\ \A y \in Queued : y < next
    BY <2>1, <2>2, Numbered
  <2> QED
    BY <2>2, <2>3, Numbered, AppendSeq DEF Queued
<1>2. TypeOK'
  BY <1>1 DEF TypeOK, Positive
<1>3. InHand' = InHand /\ Sent' = Sent /\ Commands' = Commands \cup {next}
  BY Numbered DEF InHand, Sent, Commands, Positive
<1>4. EachCommandOnce'
  BY <1>1, <1>3 DEF EachCommandOnce
<1>5. QueueBehindHands'
  BY <1>1, <1>3, Numbered DEF QueueBehindHands, EachCommandOnce
<1> QED
  BY <1>2, <1>4, <1>5

LEMMA CancelKeeps ==
    ASSUME AdapterInv, NEW c \in Callers, Cancel(c) PROVE AdapterInv'
<1> USE DEF AdapterInv, Cancel
<1> PICK k \in DOMAIN queue : /\ queue' = RemoveAt(queue, k)
                              /\ withdrawn' = withdrawn \cup {queue[k]}
  OBVIOUS
<1>1. /\ queue' \in Seq(Positive) /\ queue[k] \in Positive /\ queue[k] \in Queued
      /\ Queued' = Queued \ {queue[k]} /\ Once(queue')
      /\ Ascending(queue) => Ascending(queue')
  <2>1. queue[k] \in Queued
    BY DEF Queued, Range
  <2> QED
    BY <2>1, Numbered, RemoveSeq DEF Queued, EachCommandOnce
<1>2. TypeOK'
  BY <1>1 DEF TypeOK, Positive
<1>3. InHand' = InHand /\ Sent' = Sent /\ Commands' = Commands
  BY DEF InHand, Sent, Commands
<1>4. EachCommandOnce'
  BY <1>1, <1>3 DEF EachCommandOnce
<1>5. QueueBehindHands'
  BY <1>1, <1>3 DEF QueueBehindHands
<1> QED
  BY <1>2, <1>4, <1>5

LEMMA PopKeeps ==
    ASSUME AdapterInv, NEW c \in Callers, Pop(c) PROVE AdapterInv'
<1> USE DEF AdapterInv, Pop
<1> DEFINE x == Head(queue)
<1>1. /\ x \in Positive /\ queue' \in Seq(Positive)
      /\ Queued = Queued' \cup {x} /\ Once(queue') /\ x \notin Queued'
      /\ Ascending(queue) => Ascending(queue') /\ \A y \in Queued' : x < y
  BY Numbered, TailSeq DEF Queued, EachCommandOnce
<1>2. x \notin InHand
  BY <1>1 DEF EachCommandOnce
<1>3. hand' \in [Callers -> Nat] /\ InHand' = InHand \cup {x} /\ Distinct(hand')
  <2>1. InHand' = Held(hand')
    BY DEF InHand, Held
  <2> QED
    BY <1>1, <1>2, <2>1, Numbered, TakeInHand
<1>4. TypeOK'
  BY <1>1, <1>3 DEF TypeOK, Positive
<1>5. Sent' = Sent /\ Commands' = Commands
  BY DEF Sent, Commands
<1> HIDE DEF x
<1>6. EachCommandOnce'
  BY <1>1, <1>2, <1>3, <1>5 DEF EachCommandOnce, Distinct
<1>7. QueueBehindHands'
  BY <1>1, <1>3, <1>5 DEF QueueBehindHands
<1> QED
  BY <1>4, <1>6, <1>7

LEMMA SendKeeps ==
    ASSUME AdapterInv, NEW c \in Callers, SendCommand(c) PROVE AdapterInv'
<1> USE DEF AdapterInv, SendCommand
<1>1. /\ hand' \in [Callers -> Nat] /\ hand[c] \in InHand
      /\ InHand' = InHand \ {hand[c]} /\ Distinct(hand')
  <2>1. InHand' = Held(hand')
    BY DEF InHand, Held
  <2> QED
    BY <2>1, Numbered, EmptyHand
<1>2. hand[c] \in Positive /\ hand[c] \notin Sent
  BY <1>1, Numbered DEF EachCommandOnce
<1>3. /\ sent' \in Seq(Positive) /\ Sent' = Sent \cup {hand[c]} /\ Once(sent')
  BY <1>2, Numbered, AppendSeq DEF Sent, EachCommandOnce
<1>4. TypeOK'
  <2>1. Len(sent') = Len(sent) + 1 /\ Len(sent) \in Nat
    BY DEF TypeOK
  <2>2. received' \in 0..Len(sent') /\ Len(sent') - received' <= Capacity
    BY <2>1, AdapterAssumption DEF TypeOK
  <2>3. pc' \in [Callers -> {"idle", "one", "all"}]
    BY DEF TypeOK
  <2> QED
    BY <1>1, <1>3, <2>2, <2>3 DEF TypeOK, Positive
<1>5. Queued' = Queued /\ Commands' = Commands
  BY DEF Queued, Commands
<1>6. EachCommandOnce'
  BY <1>1, <1>2, <1>3, <1>5 DEF EachCommandOnce, Distinct
<1>7. QueueBehindHands'
  BY <1>1, <1>3, <1>5 DEF QueueBehindHands
<1> QED
  BY <1>4, <1>6, <1>7

LEMMA PutBackKeeps ==
    ASSUME AdapterInv, NEW c \in Callers, PutBack(c) PROVE AdapterInv'
<1> USE DEF AdapterInv, PutBack
<1>1. /\ hand' \in [Callers -> Nat] /\ hand[c] \in InHand
      /\ InHand' = InHand \ {hand[c]} /\ Distinct(hand')
  <2>1. InHand' = Held(hand')
    BY DEF InHand, Held
  <2> QED
    BY <2>1, Numbered, EmptyHand
<1>2. hand[c] \in Positive /\ hand[c] \notin Queued
  BY <1>1, Numbered DEF EachCommandOnce
<1>3. /\ queue' \in Seq(Positive) /\ Queued' = Queued \cup {hand[c]} /\ Once(queue')
  BY <1>2, Numbered, ConsSeq DEF Queued, EachCommandOnce
<1>4. TypeOK'
  BY <1>1, <1>3 DEF TypeOK, Positive
<1>5. Sent' = Sent /\ Commands' = Commands
  BY DEF Sent, Commands
<1>6. EachCommandOnce'
  BY <1>1, <1>2, <1>3, <1>5 DEF EachCommandOnce, Distinct
<1>7. QueueBehindHands'
  BY DEF QueueBehindHands
<1> QED
  BY <1>4, <1>6, <1>7

LEMMA DropKeeps ==
    ASSUME AdapterInv, NEW c \in Callers, DropFlush(c) PROVE AdapterInv'
<1> USE DEF AdapterInv, DropFlush
<1>1. /\ hand' \in [Callers -> Nat] /\ hand[c] \in InHand
      /\ InHand' = InHand \ {hand[c]} /\ Distinct(hand')
  <2>1. InHand' = Held(hand')
    BY DEF InHand, Held
  <2> QED
    BY <2>1, Numbered, EmptyHand
<1>2. hand[c] \in Positive
  BY <1>1, Numbered DEF EachCommandOnce
<1>3. TypeOK'
  BY <1>1, <1>2 DEF TypeOK, Positive
<1>4. Queued' = Queued /\ Sent' = Sent /\ Commands' = Commands
  BY DEF Queued, Sent, Commands
<1>5. EachCommandOnce'
  BY <1>1, <1>4 DEF EachCommandOnce, Distinct
<1>6. QueueBehindHands'
  BY <1>1, <1>4 DEF QueueBehindHands
<1> QED
  BY <1>3, <1>5, <1>6

\* Steps that move no command.
LEMMA OthersKeep ==
    ASSUME AdapterInv, UNCHANGED <<next, queue, hand, sent, withdrawn>>,
           closed' = closed \/ closed' = TRUE, TypeOK'
    PROVE  AdapterInv'
<1>1. /\ Queued' = Queued /\ InHand' = InHand /\ Sent' = Sent /\ Commands' = Commands
  BY DEF Queued, InHand, Sent, Commands
<1>2. EachCommandOnce'
  BY <1>1 DEF AdapterInv, EachCommandOnce
<1>3. QueueBehindHands'
  BY <1>1 DEF AdapterInv, QueueBehindHands
<1> QED
  BY <1>2, <1>3 DEF AdapterInv

LEMMA NextKeeps == AdapterInv /\ [Next]_vars => AdapterInv'
<1> SUFFICES ASSUME AdapterInv, [Next]_vars PROVE AdapterInv'
  OBVIOUS
<1>1. ASSUME NEW c \in Callers, Submit(c) PROVE AdapterInv'
  BY <1>1, SubmitKeeps
<1>2. ASSUME NEW c \in Callers, BeginFlushOne(c) PROVE AdapterInv'
  <2>1. TypeOK'
    BY <1>2 DEF BeginFlushOne, AdapterInv, TypeOK
  <2> QED
    BY <1>2, <2>1, OthersKeep DEF BeginFlushOne
<1>3. ASSUME NEW c \in Callers, Cancel(c) PROVE AdapterInv'
  BY <1>3, CancelKeeps
<1>4. ASSUME NEW c \in Callers, Pop(c) PROVE AdapterInv'
  BY <1>4, PopKeeps
<1>5. ASSUME NEW c \in Callers, FlushEnds(c) PROVE AdapterInv'
  <2>1. TypeOK'
    BY <1>5 DEF FlushEnds, AdapterInv, TypeOK
  <2> QED
    BY <1>5, <2>1, OthersKeep DEF FlushEnds
<1>6. ASSUME NEW c \in Callers, SendCommand(c) PROVE AdapterInv'
  BY <1>6, SendKeeps
<1>7. ASSUME NEW c \in Callers, PutBack(c) PROVE AdapterInv'
  BY <1>7, PutBackKeeps
<1>8. ASSUME NEW c \in Callers, DropFlush(c) PROVE AdapterInv'
  BY <1>8, DropKeeps
<1>9. CASE Receive
  <2>1. TypeOK'
    <3>1. Len(sent) \in Nat /\ received \in 0..Len(sent) /\ Len(sent) - received <= Capacity
      BY DEF AdapterInv, TypeOK
    <3>2. /\ received' \in 0..Len(sent) /\ Len(sent) - received' <= Capacity
      BY <1>9, <3>1, AdapterAssumption DEF Receive
    <3> QED
      BY <1>9, <3>2 DEF Receive, AdapterInv, TypeOK
  <2> QED
    BY <1>9, <2>1, OthersKeep DEF Receive
<1>10. CASE CloseChannel
  <2>1. TypeOK'
    BY <1>10 DEF CloseChannel, AdapterInv, TypeOK
  <2> QED
    BY <1>10, <2>1, OthersKeep DEF CloseChannel
<1>11. CASE UNCHANGED vars
  <2>1. TypeOK'
    BY <1>11 DEF vars, AdapterInv, TypeOK
  <2> QED
    BY <1>11, <2>1, OthersKeep DEF vars
<1> QED
  BY <1>1, <1>2, <1>3, <1>4, <1>5, <1>6, <1>7, <1>8, <1>9, <1>10, <1>11 DEF Next

LEMMA AdapterInvHolds == Spec => []AdapterInv
  BY InitEstablishes, NextKeeps, PTL DEF Spec

\* The adapter's variables keep their types, and the channel its bound.
THEOREM TypeCorrect == Spec => []TypeOK
<1>1. AdapterInv => TypeOK
  BY DEF AdapterInv
<1> QED
  BY <1>1, AdapterInvHolds, PTL

\* A command that enqueue accepted is always queued, held by one flush, sent
\* or withdrawn, and never in two of these places: flush_one neither loses nor
\* repeats it, and a command that cancel removed never reaches the runtime.
THEOREM CommandsNeitherLostNorRepeated == Spec => []EachCommandOnce
<1>1. AdapterInv => EachCommandOnce
  BY DEF AdapterInv
<1> QED
  BY <1>1, AdapterInvHolds, PTL

\* While the runtime lives nothing in the queue is older than what was popped.
THEOREM QueueStaysBehind == Spec => []QueueBehindHands
<1>1. AdapterInv => QueueBehindHands
  BY DEF AdapterInv
<1> QED
  BY <1>1, AdapterInvHolds, PTL
-----------------------------------------------------------------------------
(* The refinement.                                                         *)

\* What a command in hand can overtake: the other hands, one command each.
LEMMA FewOlder ==
    ASSUME AdapterInv, ~closed, NEW c \in Callers, hand[c] # 0
    PROVE  Cardinality({y \in Queued \cup InHand : y < hand[c]}) < Cardinality(Callers)
<1> DEFINE x == hand[c]
           S == {y \in Queued \cup InHand : y < x}
           D == {d \in Callers : hand[d] \in S}
           f == [d \in D |-> hand[d]]
<1>1. x \in InHand /\ InHand \subseteq Nat
  BY DEF InHand, AdapterInv, TypeOK
<1>2. S \subseteq InHand
  <2> SUFFICES ASSUME NEW y \in Queued, y < x PROVE FALSE
    OBVIOUS
  <2>1. y \in Nat
    BY DEF AdapterInv, Queued, TypeOK, Range
  <2>2. x < y
    BY <1>1 DEF AdapterInv, QueueBehindHands
  <2>3. x \in Nat
    BY <1>1
  <2> HIDE DEF x
  <2> QED
    BY <2>1, <2>2, <2>3
<1>3. c \notin D
  <2>1. x \in Nat
    BY <1>1
  <2>2. ~(x < x)
    <3> HIDE DEF x
    <3> QED BY <2>1
  <2> QED
    BY <2>2, Zenon
<1>4. f \in Surjection(D, S)
  BY <1>2 DEF Surjection, InHand
<1> HIDE DEF f
<1>5. /\ IsFiniteSet(Callers \ {c})
      /\ Cardinality(Callers \ {c}) = Cardinality(Callers) - 1
      /\ Cardinality(Callers) \in Nat
  BY AdapterAssumption, FS_RemoveElement, FS_CardinalityType
<1>6. D \in SUBSET (Callers \ {c})
  BY <1>3
<1> HIDE DEF D
<1>7. IsFiniteSet(D) /\ Cardinality(D) <= Cardinality(Callers) - 1 /\ Cardinality(D) \in Nat
  BY <1>5, <1>6, FS_Subset, FS_CardinalityType
<1> HIDE DEF S
<1>8. IsFiniteSet(S) /\ Cardinality(S) <= Cardinality(D)
  BY <1>4, <1>7, FS_Surjection
<1>9. Cardinality(S) \in Nat
  BY <1>8, FS_CardinalityType
<1>10. Cardinality(S) < Cardinality(Callers)
  BY <1>5, <1>7, <1>8, <1>9
<1> QED
  BY <1>10 DEF S

\* Steps after which the same commands wait.
LEMMA StutterMaps ==
    ASSUME UNCHANGED <<next, sent, closed>>, (Queued \cup InHand)' = Queued \cup InHand
    PROVE  UNCHANGED Queue!vars
  BY DEF Queue!vars

LEMMA StepMaps ==
    ASSUME AdapterInv, AdapterInv', [Next]_vars
    PROVE  [Queue!Next]_(Queue!vars)
<1>1. ASSUME NEW c \in Callers, Submit(c) PROVE Queue!Submit
  <2>1. queue \in Seq(Positive) /\ next \in Positive
    BY Numbered
  <2>2. Queued' = Queued \cup {next}
    BY <1>1, <2>1, AppendSeq DEF Submit, Queued
  <2>3. InHand' = InHand
    BY <1>1 DEF Submit, InHand
  <2> QED
    BY <1>1, <2>2, <2>3 DEF Submit, Queue!Submit
<1>2. ASSUME NEW c \in Callers, BeginFlushOne(c) \/ FlushEnds(c)
      PROVE UNCHANGED Queue!vars
  BY <1>2, StutterMaps DEF BeginFlushOne, FlushEnds, Queued, InHand
<1>3. ASSUME NEW c \in Callers, Cancel(c)
      PROVE \E x \in Queued \cup InHand : Queue!Withdraw(x)
  <2> PICK k \in DOMAIN queue : queue' = RemoveAt(queue, k)
    BY <1>3 DEF Cancel
  <2>1. queue \in Seq(Positive) /\ Once(queue)
    BY Numbered DEF AdapterInv, EachCommandOnce
  <2>2. Queued' = Queued \ {queue[k]} /\ queue[k] \in Queued
    BY <2>1, RemoveSeq DEF Queued, Range
  <2>3. InHand' = InHand /\ queue[k] \notin InHand
    BY <1>3, <2>2 DEF Cancel, InHand, AdapterInv, EachCommandOnce
  <2>4. (Queued \cup InHand)' = (Queued \cup InHand) \ {queue[k]}
    BY <2>2, <2>3
  <2> QED
    BY <1>3, <2>2, <2>4 DEF Cancel, Queue!Withdraw
<1>4. ASSUME NEW c \in Callers, Pop(c) PROVE UNCHANGED Queue!vars
  <2>1. queue \in Seq(Positive) /\ hand \in [Callers -> Nat] /\ InHand = Held(hand) /\ Distinct(hand)
    BY Numbered
  <2>2. Queued = Queued' \cup {Head(queue)} /\ Head(queue) \in Positive
    BY <1>4, <2>1, TailSeq DEF Pop, Queued
  <2>3. Head(queue) \notin InHand
    BY <2>2 DEF AdapterInv, EachCommandOnce
  <2>4. InHand' = Held(hand')
    BY DEF InHand, Held
  <2>5. InHand' = InHand \cup {Head(queue)}
    BY <1>4, <2>1, <2>2, <2>3, <2>4, TakeInHand DEF Pop
  <2>6. (Queued \cup InHand)' = Queued \cup InHand
    BY <2>2, <2>5
  <2> QED
    BY <1>4, <2>6, StutterMaps DEF Pop
<1>5. ASSUME NEW c \in Callers, hand[c] # 0, hand' = [hand EXCEPT ![c] = 0]
      PROVE  /\ hand[c] \in InHand /\ InHand' = InHand \ {hand[c]}
             /\ hand[c] \notin Queued
  <2>1. InHand' = Held(hand')
    BY DEF InHand, Held
  <2>2. hand[c] \in InHand /\ InHand' = InHand \ {hand[c]}
    BY <1>5, <2>1, Numbered, EmptyHand
  <2> QED
    BY <2>2 DEF AdapterInv, EachCommandOnce
<1>6. ASSUME NEW c \in Callers, SendCommand(c)
      PROVE \E x \in Queued \cup InHand : Queue!Deliver(x)
  <2>1. /\ hand[c] \in InHand /\ InHand' = InHand \ {hand[c]}
        /\ hand[c] \notin Queued
    BY <1>5, <1>6 DEF SendCommand
  <2>2. Queued' = Queued
    BY <1>6 DEF SendCommand, Queued
  <2>3. (Queued \cup InHand)' = (Queued \cup InHand) \ {hand[c]}
    BY <2>1, <2>2
  <2>4. Cardinality({y \in Queued \cup InHand : y < hand[c]}) < Cardinality(Callers)
    BY <1>6, FewOlder DEF SendCommand
  <2>5. ~closed /\ UNCHANGED <<next, closed>> /\ sent' = Append(sent, hand[c])
    BY <1>6 DEF SendCommand
  <2>6. Queue!Deliver(hand[c])
    <3>1. Queue!Cardinality({y \in Queued \cup InHand : y < hand[c]}) < Cardinality(Callers)
      BY <2>4, Zenon DEF Cardinality, Queue!Cardinality
    <3>2. UNCHANGED <<next, ~closed>>
      BY <2>5
    <3> QED
      BY <2>1, <2>3, <2>5, <3>1, <3>2, Zenon DEF Queue!Deliver
  <2> QED
    BY <2>1, <2>6
<1>7. ASSUME NEW c \in Callers, PutBack(c) PROVE UNCHANGED Queue!vars
  <2>1. /\ hand[c] \in InHand /\ InHand' = InHand \ {hand[c]}
    BY <1>5, <1>7 DEF PutBack
  <2>2. queue \in Seq(Positive) /\ hand[c] \in Positive
    BY <2>1, Numbered DEF AdapterInv, EachCommandOnce
  <2>3. Queued' = Queued \cup {hand[c]}
    BY <1>7, <2>2, ConsSeq DEF PutBack, Queued
  <2>4. (Queued \cup InHand)' = Queued \cup InHand
    BY <2>1, <2>3
  <2> QED
    BY <1>7, <2>4, StutterMaps DEF PutBack
<1>8. ASSUME NEW c \in Callers, DropFlush(c)
      PROVE \E x \in Queued \cup InHand : Queue!Withdraw(x)
  <2>1. /\ hand[c] \in InHand /\ InHand' = InHand \ {hand[c]}
        /\ hand[c] \notin Queued
    BY <1>5, <1>8 DEF DropFlush
  <2>2. Queued' = Queued
    BY <1>8 DEF DropFlush, Queued
  <2>3. (Queued \cup InHand)' = (Queued \cup InHand) \ {hand[c]}
    BY <2>1, <2>2
  <2> QED
    BY <1>8, <2>1, <2>3 DEF DropFlush, Queue!Withdraw
<1>9. ASSUME Receive \/ UNCHANGED vars PROVE UNCHANGED Queue!vars
  BY <1>9, StutterMaps DEF Receive, vars, Queued, InHand
<1>10. ASSUME CloseChannel PROVE Queue!Close
  <2>1. (Queued \cup InHand)' = Queued \cup InHand /\ UNCHANGED <<next, sent>>
    BY <1>10 DEF CloseChannel, Queued, InHand
  <2>2. ~closed /\ closed' = TRUE
    BY <1>10 DEF CloseChannel
  <2> QED
    BY <2>1, <2>2 DEF Queue!Close
<1> QED
  BY <1>1, <1>2, <1>3, <1>4, <1>6, <1>7, <1>8, <1>9, <1>10 DEF Next, Queue!Next

LEMMA InitMaps == Init => Queue!Init
  BY DEF Init, Queue!Init, Queued, InHand, Range

\* For every number of callers the adapter, its channel and its flushes are a
\* queue that delivers a command at most once, never one that was withdrawn,
\* and lets it overtake fewer commands than there are callers.
THEOREM ImplementsTheQueue == Spec => ImplementsQueue
<1>1. Init => Queue!Init
  BY InitMaps
<1>2. AdapterInv /\ AdapterInv' /\ [Next]_vars => [Queue!Next]_(Queue!vars)
  BY StepMaps
<1> QED
  BY <1>1, <1>2, AdapterInvHolds, PTL DEF Spec, ImplementsQueue, Queue!Spec
=============================================================================
