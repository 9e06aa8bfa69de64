---------------------------- MODULE OutboxProofs ----------------------------
(***************************************************************************)
(* Images on their way out, proved for any number of transactions, turns   *)
(* and capacity of the event stream: a row that offers no retry has an     *)
(* answer on its way, no item vanishes unposted, and none is posted more   *)
(* often than the user asked.                                              *)
(*                                                                         *)
(* The argument is about the line of what is under way: the answers not    *)
(* handled, then the commands not taken.  A command keeps its place in it  *)
(* when it is executed, the event worker takes the first of it, and a full *)
(* stream drops the first.  Each counter gives an id once, so two sends in *)
(* the line have one id only if both counters have passed it.              *)
(***************************************************************************)
EXTENDS Outbox, FiniteSetTheorems, FunctionTheorems, SequenceTheorems, TLAPS

Ops == {"upload", "image", "text", "logout"}
CommandType == [op : Ops, txn : Nat, item : Nat]
AckType == [op : Ops, txn : Nat, item : Nat, ok : BOOLEAN]
Row == [status : Statuses, source : BOOLEAN]

\* The type invariant of what the theorems need.
TypesOK ==
    /\ nextTxn \in Nat \ {0} /\ autoTxn \in Nat
    /\ items \in [DOMAIN items -> Row] /\ DOMAIN items \subseteq Items
    /\ uploads \in [DOMAIN uploads -> Items] /\ sends \in [DOMAIN sends -> Items]
    /\ DOMAIN uploads \subseteq Nat
    /\ commands \in Seq(CommandType) /\ events \in Seq(AckType)
    /\ posted \in [Items -> Nat]

\* What is under way, the next to be handled first.
Note(x) == [op |-> x.op, txn |-> x.txn, item |-> x.item]
LineOf(answers, asks) ==
    [k \in 1..(Len(answers) + Len(asks)) |->
        IF k <= Len(answers) THEN Note(answers[k]) ELSE Note(asks[k - Len(answers)])]
Line == LineOf(events, commands)

\* What a line of notes means to the maps of the event worker.
IdsAreDrawn(line) ==
    /\ \A t \in DOMAIN uploads : t < nextTxn
    /\ \A i \in DOMAIN items : i < nextTxn
    /\ \A k \in DOMAIN line :
          /\ line[k].op = "upload" => line[k].txn < nextTxn
          /\ line[k].op = "image" => line[k].txn < nextTxn \/ line[k].txn < autoTxn

UploadsAreKnown(line) ==
    /\ \A k \in DOMAIN line : line[k].op = "upload" =>
          line[k].txn \in DOMAIN uploads /\ uploads[line[k].txn] = line[k].item
    /\ \A k, l \in DOMAIN line :
          line[k].op = "upload" /\ line[l].op = "upload" /\ line[k].txn = line[l].txn
             => k = l

\* A send's entry is its own, or was taken over; it is missing, or shared, only
\* when both counters have given its id.
SendsAreKnown(line) ==
    /\ \A k \in DOMAIN line : line[k].op = "image" =>
          \/ /\ line[k].txn \in DOMAIN sends
             /\ sends[line[k].txn] = line[k].item \/ sends[line[k].txn] \in reused
          \/ /\ line[k].txn \notin DOMAIN sends
             /\ line[k].txn < nextTxn /\ line[k].txn < autoTxn
    /\ \A k, l \in DOMAIN line :
          line[k].op = "image" /\ line[l].op = "image" /\ line[k].txn = line[l].txn
             => k = l \/ (line[k].txn < nextTxn /\ line[k].txn < autoTxn)

RowsAreAwaited(line) ==
    \A i \in DOMAIN items \ (lost \cup reused) :
        /\ items[i].status = "uploading" =>
              \E t \in DOMAIN uploads, k \in DOMAIN line :
                  uploads[t] = i /\ line[k].op = "upload" /\ line[k].txn = t
        /\ items[i].status = "sending" =>
              \E t \in DOMAIN sends, k \in DOMAIN line :
                  sends[t] = i /\ line[k].op = "image" /\ line[k].txn = t

\* The inductive invariant.
LineInv(line) ==
    IdsAreDrawn(line) /\ UploadsAreKnown(line) /\ SendsAreKnown(line) /\ RowsAreAwaited(line)

\* A send answered as good was posted.
GoodIsPosted ==
    \A k \in DOMAIN events :
        events[k].op = "image" /\ events[k].ok /\ events[k].item \in Items
            => posted[events[k].item] > 0

OutboxInv == TypesOK /\ LineInv(Line) /\ GoodIsPosted

-----------------------------------------------------------------------------
(* Maps.                                                                   *)

LEMMA WithFacts ==
    ASSUME NEW f, NEW x, NEW y
    PROVE  /\ DOMAIN With(f, x, y) = DOMAIN f \cup {x}
           /\ With(f, x, y)[x] = y
           /\ \A z \in DOMAIN f \ {x} : With(f, x, y)[z] = f[z]
           /\ \A S : f \in [DOMAIN f -> S] /\ y \in S
                 => With(f, x, y) \in [DOMAIN With(f, x, y) -> S]
BY DEF With

LEMMA WithoutFacts ==
    ASSUME NEW f, NEW x
    PROVE  /\ DOMAIN Without(f, x) = DOMAIN f \ {x}
           /\ \A z \in DOMAIN f \ {x} : Without(f, x)[z] = f[z]
           /\ \A S : f \in [DOMAIN f -> S]
                 => Without(f, x) \in [DOMAIN Without(f, x) -> S]
BY DEF Without, Restrict

-----------------------------------------------------------------------------
(* The line.                                                               *)

LEMMA NoteFacts ==
    /\ \A x \in CommandType :
          Note(x) \in CommandType /\ Note(x).op = x.op /\ Note(x).txn = x.txn /\ Note(x).item = x.item
    /\ \A x \in AckType :
          Note(x) \in CommandType /\ Note(x).op = x.op /\ Note(x).txn = x.txn /\ Note(x).item = x.item
BY DEF Note, CommandType, AckType

LEMMA LineFacts ==
    ASSUME NEW answers \in Seq(AckType), NEW asks \in Seq(CommandType)
    PROVE  LET line == LineOf(answers, asks) IN
           /\ DOMAIN line = 1..(Len(answers) + Len(asks))
           /\ \A k \in DOMAIN line : line[k] \in CommandType
           /\ \A k \in DOMAIN line : k <= Len(answers) => line[k] = Note(answers[k])
           /\ \A k \in DOMAIN line : k > Len(answers) => line[k] = Note(asks[k - Len(answers)])
<1>1. /\ Len(answers) \in Nat /\ Len(asks) \in Nat
      /\ \A k \in 1..Len(answers) : answers[k] \in AckType
      /\ \A k \in 1..Len(asks) : asks[k] \in CommandType
  OBVIOUS
<1>2. ASSUME NEW k \in 1..(Len(answers) + Len(asks))
      PROVE  LineOf(answers, asks)[k] \in CommandType
  <2>1. CASE k <= Len(answers)
    BY <1>1, <2>1, NoteFacts DEF LineOf
  <2>2. CASE ~(k <= Len(answers))
    BY <1>1, <2>2, NoteFacts DEF LineOf
  <2> QED
    BY <2>1, <2>2
<1>3. DOMAIN LineOf(answers, asks) = 1..(Len(answers) + Len(asks))
  BY DEF LineOf
<1>4. \A k \in 1..(Len(answers) + Len(asks)) :
         /\ k <= Len(answers) => LineOf(answers, asks)[k] = Note(answers[k])
         /\ k > Len(answers) => LineOf(answers, asks)[k] = Note(asks[k - Len(answers)])
  BY <1>1 DEF LineOf
<1> QED
  BY <1>2, <1>3, <1>4

\* The line new is the line old without its first d, and a note of set more (empty
\* or of one) behind.
Moved(old, new, d, more) ==
    /\ DOMAIN old \subseteq Nat \ {0} /\ DOMAIN new \subseteq Nat \ {0}
    /\ \A k \in DOMAIN new :
          \/ k + d \in DOMAIN old /\ new[k] = old[k + d]
          \/ k + d \notin DOMAIN old /\ new[k] \in more
             /\ \A l \in DOMAIN new : l + d \in DOMAIN old \/ l = k
    /\ \A k \in DOMAIN old : k > d => k - d \in DOMAIN new /\ new[k - d] = old[k]
    /\ \A n \in more : \E k \in DOMAIN new : new[k] = n /\ k + d \notin DOMAIN old

\* The user asks.
LEMMA LineGrows ==
    ASSUME NEW answers \in Seq(AckType), NEW asks \in Seq(CommandType),
           NEW c \in CommandType
    PROVE  Moved(LineOf(answers, asks), LineOf(answers, Append(asks, c)), 0, {Note(c)})
<1> DEFINE more == Append(asks, c)
<1>1. /\ more \in Seq(CommandType) /\ Len(more) = Len(asks) + 1
      /\ \A k \in 1..Len(asks) : more[k] = asks[k]
      /\ more[Len(asks) + 1] = c
      /\ Len(asks) \in Nat /\ Len(answers) \in Nat
  OBVIOUS
<1> HIDE DEF more
<1> DEFINE old == LineOf(answers, asks)
           new == LineOf(answers, more)
<1>2. /\ DOMAIN old = 1..(Len(answers) + Len(asks))
      /\ \A k \in DOMAIN old : k <= Len(answers) => old[k] = Note(answers[k])
      /\ \A k \in DOMAIN old : k > Len(answers) => old[k] = Note(asks[k - Len(answers)])
  BY LineFacts
<1>3. /\ DOMAIN new = 1..(Len(answers) + Len(more))
      /\ \A k \in DOMAIN new : k <= Len(answers) => new[k] = Note(answers[k])
      /\ \A k \in DOMAIN new : k > Len(answers) => new[k] = Note(more[k - Len(answers)])
  BY <1>1, LineFacts
<1> HIDE DEF old, new
<1>4. new[Len(answers) + Len(asks) + 1] = Note(c)
  <2>1. PICK n \in Nat : n = Len(answers) + Len(asks) + 1
    BY <1>1
  <2>2. n - Len(answers) = Len(asks) + 1 /\ n \in DOMAIN new /\ n > Len(answers)
    BY <1>1, <1>3, <2>1
  <2>3. new[n] = Note(more[n - Len(answers)])
    BY <1>3, <2>2
  <2> QED
    BY <1>1, <2>1, <2>2, <2>3
<1>5. ASSUME NEW k \in DOMAIN old PROVE k \in DOMAIN new /\ new[k] = old[k]
  <2>1. CASE k <= Len(answers)
    BY <1>1, <1>2, <1>3, <2>1
  <2>2. CASE k > Len(answers)
    <3>1. k - Len(answers) \in 1..Len(asks)
      BY <1>1, <1>2, <2>2
    <3> QED
      BY <1>1, <1>2, <1>3, <2>2, <3>1
  <2> QED
    BY <1>1, <1>2, <2>1, <2>2
<1>6. DOMAIN old \subseteq Nat \ {0} /\ DOMAIN new \subseteq Nat \ {0}
  BY <1>1, <1>2, <1>3
<1>7. /\ DOMAIN new = DOMAIN old \cup {Len(answers) + Len(asks) + 1}
      /\ Len(answers) + Len(asks) + 1 \notin DOMAIN old
  <2>1. ASSUME NEW m \in Nat
        PROVE  1..(m + 1) = 1..m \cup {m + 1} /\ m + 1 \notin 1..m
    OBVIOUS
  <2>2. DOMAIN new = 1..(Len(answers) + Len(asks) + 1)
    <3>1. Len(answers) + (Len(asks) + 1) = Len(answers) + Len(asks) + 1
      BY <1>1
    <3> QED
      BY <1>1, <1>3, <3>1
  <2> QED
    BY <1>1, <1>2, <2>1, <2>2
<1>8. /\ \A k \in DOMAIN old : k + 0 = k /\ k - 0 = k
      /\ \A k \in DOMAIN new : k + 0 = k /\ k - 0 = k
  BY <1>6

<1>9. Moved(old, new, 0, {Note(c)})
  BY <1>4, <1>5, <1>6, <1>7, <1>8 DEF Moved
<1> QED
  BY <1>9 DEF old, new, more

\* The event worker takes the first answer.
LEMMA LineShrinks ==
    ASSUME NEW answers \in Seq(AckType), NEW asks \in Seq(CommandType), answers # <<>>
    PROVE  /\ Moved(LineOf(answers, asks), LineOf(Tail(answers), asks), 1, {})
           /\ 1 \in DOMAIN LineOf(answers, asks)
           /\ LineOf(answers, asks)[1] = Note(Head(answers))
<1> DEFINE rest == Tail(answers)
<1>1. /\ rest \in Seq(AckType) /\ Len(rest) = Len(answers) - 1
      /\ \A k \in 1..Len(rest) : rest[k] = answers[k + 1]
      /\ Len(asks) \in Nat /\ Len(answers) \in Nat /\ Len(answers) >= 1
      /\ Head(answers) = answers[1]
  OBVIOUS
<1> HIDE DEF rest
<1> DEFINE old == LineOf(answers, asks)
           new == LineOf(rest, asks)
<1>2. /\ DOMAIN old = 1..(Len(answers) + Len(asks))
      /\ \A k \in DOMAIN old : k <= Len(answers) => old[k] = Note(answers[k])
      /\ \A k \in DOMAIN old : k > Len(answers) => old[k] = Note(asks[k - Len(answers)])
  BY LineFacts
<1>3. /\ DOMAIN new = 1..(Len(rest) + Len(asks))
      /\ \A k \in DOMAIN new : k <= Len(rest) => new[k] = Note(rest[k])
      /\ \A k \in DOMAIN new : k > Len(rest) => new[k] = Note(asks[k - Len(rest)])
  BY <1>1, LineFacts
<1> HIDE DEF old, new
<1>4. ASSUME NEW k \in DOMAIN new PROVE k + 1 \in DOMAIN old /\ new[k] = old[k + 1]
  <2>1. CASE k <= Len(rest)
    <3>1. k \in 1..Len(rest) /\ k + 1 \in DOMAIN old /\ k + 1 <= Len(answers)
      BY <1>1, <1>2, <1>3, <2>1
    <3>2. new[k] = Note(rest[k]) /\ rest[k] = answers[k + 1]
      BY <1>1, <1>3, <2>1, <3>1
    <3>3. old[k + 1] = Note(answers[k + 1])
      BY <1>2, <3>1
    <3> QED
      BY <3>1, <3>2, <3>3
  <2>2. CASE k > Len(rest)
    <3>1. (k + 1) - Len(answers) = k - Len(rest)
      BY <1>1, <1>3, <2>2
    <3>2. k + 1 \in DOMAIN old /\ k + 1 > Len(answers)
      BY <1>1, <1>2, <1>3, <2>2
    <3> QED
      BY <1>2, <1>3, <2>2, <3>1, <3>2
  <2> QED
    BY <1>1, <1>3, <2>1, <2>2
<1>5. ASSUME NEW k \in DOMAIN old, k > 1 PROVE k - 1 \in DOMAIN new /\ new[k - 1] = old[k]
  <2>1. k - 1 \in DOMAIN new /\ (k - 1) + 1 = k
    BY <1>1, <1>2, <1>3, <1>5
  <2> QED
    BY <1>4, <2>1
<1>6. DOMAIN old \subseteq Nat \ {0} /\ DOMAIN new \subseteq Nat \ {0}
  BY <1>1, <1>2, <1>3
<1>7. Moved(old, new, 1, {})
  BY <1>4, <1>5, <1>6 DEF Moved
<1>8. 1 \in DOMAIN old /\ old[1] = Note(Head(answers))
  BY <1>1, <1>2
<1> QED
  BY <1>7, <1>8 DEF old, new, rest

\* A command is executed and its answer sent.
LEMMA LineStays ==
    ASSUME NEW answers \in Seq(AckType), NEW asks \in Seq(CommandType), asks # <<>>,
           NEW e \in AckType, Note(e) = Note(Head(asks))
    PROVE  LineOf(Append(answers, e), Tail(asks)) = LineOf(answers, asks)
<1> DEFINE more == Append(answers, e)
           rest == Tail(asks)
<1>1. /\ more \in Seq(AckType) /\ Len(more) = Len(answers) + 1
      /\ \A k \in 1..Len(answers) : more[k] = answers[k]
      /\ more[Len(answers) + 1] = e
      /\ Len(answers) \in Nat
  OBVIOUS
<1>2. /\ rest \in Seq(CommandType) /\ Len(rest) = Len(asks) - 1
      /\ \A k \in 1..Len(rest) : rest[k] = asks[k + 1]
      /\ Len(asks) \in Nat /\ Len(asks) >= 1 /\ Head(asks) = asks[1]
  OBVIOUS
<1> HIDE DEF more, rest
<1> DEFINE old == LineOf(answers, asks)
           new == LineOf(more, rest)
<1>3. /\ DOMAIN old = 1..(Len(answers) + Len(asks))
      /\ \A k \in DOMAIN old : k <= Len(answers) => old[k] = Note(answers[k])
      /\ \A k \in DOMAIN old : k > Len(answers) => old[k] = Note(asks[k - Len(answers)])
  BY LineFacts
<1>4. /\ DOMAIN new = 1..(Len(more) + Len(rest))
      /\ \A k \in DOMAIN new : k <= Len(more) => new[k] = Note(more[k])
      /\ \A k \in DOMAIN new : k > Len(more) => new[k] = Note(rest[k - Len(more)])
  BY <1>1, <1>2, LineFacts
<1>5. old = [k \in DOMAIN old |-> old[k]] /\ new = [k \in DOMAIN new |-> new[k]]
  BY DEF LineOf
<1> HIDE DEF old, new
<1>6. DOMAIN new = DOMAIN old
  BY <1>1, <1>2, <1>3, <1>4
<1>7. ASSUME NEW k \in DOMAIN old PROVE new[k] = old[k]
  <2>1. CASE k <= Len(answers)
    BY <1>1, <1>2, <1>3, <1>4, <1>6, <2>1
  <2>2. CASE k = Len(answers) + 1
    <3>1. k - Len(answers) = 1 /\ k > Len(answers) /\ k <= Len(more)
      BY <1>1, <2>2
    <3>2. new[k] = Note(e)
      BY <1>1, <1>4, <1>6, <2>2, <3>1
    <3>3. old[k] = Note(asks[1])
      BY <1>3, <3>1
    <3> QED
      BY <1>2, <3>2, <3>3
  <2>3. CASE k > Len(answers) + 1
    <3>1. /\ k - Len(more) \in 1..Len(rest) /\ k > Len(more) /\ k > Len(answers)
          /\ k - Len(answers) = (k - Len(more)) + 1
      BY <1>1, <1>2, <1>3, <2>3
    <3>2. new[k] = Note(rest[k - Len(more)])
      BY <1>4, <1>6, <3>1
    <3>3. old[k] = Note(asks[k - Len(answers)])
      BY <1>3, <3>1
    <3> QED
      BY <1>2, <3>1, <3>2, <3>3
  <2> QED
    BY <1>1, <1>3, <2>1, <2>2, <2>3
<1>8. new = old
  BY <1>5, <1>6, <1>7
<1> QED
  BY <1>8 DEF old, new, more, rest

LEMMA LineRests ==
    ASSUME NEW answers \in Seq(AckType), NEW asks \in Seq(CommandType)
    PROVE  Moved(LineOf(answers, asks), LineOf(answers, asks), 0, {})
<1> DEFINE line == LineOf(answers, asks)
<1>1. DOMAIN line \subseteq Nat \ {0}
  BY LineFacts
<1> HIDE DEF line
<1>2. Moved(line, line, 0, {})
  BY <1>1 DEF Moved
<1> QED
  BY <1>2 DEF line

-----------------------------------------------------------------------------
(* What a step does to the line and to the maps, and the invariant.        *)

\* What is known of the line's notes.
LEMMA NotesAreTyped ==
    ASSUME TypesOK
    PROVE  /\ \A k \in DOMAIN Line : Line[k] \in CommandType /\ k \in Nat \ {0}
           /\ \A k \in DOMAIN Line : Line[k].txn \in Nat /\ Line[k].item \in Nat
<1>1. \A k \in DOMAIN Line : Line[k] \in CommandType /\ k \in Nat \ {0}
  BY LineFacts DEF TypesOK, Line
<1> QED
  BY <1>1 DEF CommandType

\* Steps that neither enter nor settle a transaction: the notes that join the line are
\* of neither kind, and one of either kind leaves it only as an answer that is
\* lost.  Rows may go, fail, or be new and failed.
LEMMA IdleStepKeepsInv ==
    ASSUME TypesOK, LineInv(Line), NEW d \in {0, 1}, NEW more,
           Moved(Line, Line', d, more),
           \A n \in more : n.op \notin {"upload", "image"},
           d = 1 => /\ 1 \in DOMAIN Line
                    /\ Line[1].op \notin {"upload", "image"} \/ Line[1].item \in lost',
           UNCHANGED <<uploads, sends, reused>>, lost \subseteq lost',
           nextTxn' \in Nat, nextTxn <= nextTxn', autoTxn' \in Nat, autoTxn <= autoTxn',
           \A i \in DOMAIN items' :
              \/ i \in DOMAIN items /\ items'[i].status = items[i].status
              \/ i < nextTxn' /\ items'[i].status \in {"uploadFailed", "sendFailed"}
    PROVE  LineInv(Line)'
<1>0. /\ nextTxn \in Nat /\ autoTxn \in Nat
      /\ \A i \in DOMAIN items : i \in Nat
      /\ \A t \in DOMAIN uploads : t \in Nat
  BY DEF TypesOK, Items
<1>1. ASSUME NEW k \in DOMAIN Line', Line'[k].op \in {"upload", "image"}
      PROVE  k + d \in DOMAIN Line /\ Line'[k] = Line[k + d]
  BY <1>1 DEF Moved
<1>2. ASSUME NEW k \in DOMAIN Line, ~(d = 1 /\ k = 1)
      PROVE  k - d \in DOMAIN Line' /\ Line'[k - d] = Line[k]
  <2>1. k > d
    BY <1>2, NotesAreTyped
  <2> QED
    BY <2>1 DEF Moved
<1>3. IdsAreDrawn(Line)'
  <2>1. ASSUME NEW k \in DOMAIN Line'
        PROVE  /\ Line'[k].op = "upload" => Line'[k].txn < nextTxn'
               /\ Line'[k].op = "image" => Line'[k].txn < nextTxn' \/ Line'[k].txn < autoTxn'
    BY <1>0, <1>1, NotesAreTyped DEF LineInv, IdsAreDrawn
  <2>2. \A t \in DOMAIN uploads : t < nextTxn'
    BY <1>0 DEF LineInv, IdsAreDrawn
  <2>3. \A i \in DOMAIN items' : i < nextTxn'
    BY <1>0 DEF LineInv, IdsAreDrawn
  <2> QED
    BY <2>1, <2>2, <2>3 DEF IdsAreDrawn
<1>4. UploadsAreKnown(Line)'
  <2>1. ASSUME NEW k \in DOMAIN Line', NEW l \in DOMAIN Line',
               Line'[k].op = "upload", Line'[l].op = "upload", Line'[k].txn = Line'[l].txn
        PROVE  k = l
    <3>1. k + d = l + d
      BY <1>1, <2>1 DEF LineInv, UploadsAreKnown
    <3>2. k \in Nat /\ l \in Nat
      BY DEF Moved
    <3> QED
      BY <3>1, <3>2
  <2> QED
    BY <1>1, <2>1 DEF LineInv, UploadsAreKnown
<1>5. SendsAreKnown(Line)'
  <2>1. ASSUME NEW k \in DOMAIN Line', NEW l \in DOMAIN Line',
               Line'[k].op = "image", Line'[l].op = "image", Line'[k].txn = Line'[l].txn
        PROVE  k = l \/ (Line'[k].txn < nextTxn' /\ Line'[k].txn < autoTxn')
    <3>1. /\ k + d \in DOMAIN Line /\ Line'[k] = Line[k + d]
          /\ l + d \in DOMAIN Line /\ Line'[l] = Line[l + d]
      BY <1>1, <2>1
    <3>2. k + d = l + d \/ (Line[k + d].txn < nextTxn /\ Line[k + d].txn < autoTxn)
      BY <2>1, <3>1 DEF LineInv, SendsAreKnown
    <3>3. k \in Nat /\ l \in Nat /\ Line[k + d].txn \in Nat
      BY <3>1, NotesAreTyped DEF Moved
    <3> QED
      BY <1>0, <3>1, <3>2, <3>3
  <2>2. ASSUME NEW k \in DOMAIN Line', Line'[k].op = "image"
        PROVE  \/ /\ Line'[k].txn \in DOMAIN sends
                  /\ sends[Line'[k].txn] = Line'[k].item \/ sends[Line'[k].txn] \in reused
               \/ /\ Line'[k].txn \notin DOMAIN sends
                  /\ Line'[k].txn < nextTxn' /\ Line'[k].txn < autoTxn'
    <3>1. k + d \in DOMAIN Line /\ Line'[k] = Line[k + d] /\ Line[k + d].txn \in Nat
      BY <1>1, <2>2, NotesAreTyped
    <3> QED
      BY <1>0, <2>2, <3>1 DEF LineInv, SendsAreKnown
  <2> QED
    BY <2>1, <2>2 DEF SendsAreKnown
<1>6. RowsAreAwaited(Line)'
  <2> SUFFICES ASSUME NEW i \in DOMAIN items' \ (lost' \cup reused'),
                      items'[i].status \in {"uploading", "sending"}
               PROVE  /\ items'[i].status = "uploading" =>
                            \E t \in DOMAIN uploads, k \in DOMAIN Line' :
                               uploads[t] = i /\ Line'[k].op = "upload" /\ Line'[k].txn = t
                      /\ items'[i].status = "sending" =>
                            \E t \in DOMAIN sends, k \in DOMAIN Line' :
                               sends[t] = i /\ Line'[k].op = "image" /\ Line'[k].txn = t
    BY DEF RowsAreAwaited
  <2>1. i \in DOMAIN items \ (lost \cup reused) /\ items'[i].status = items[i].status
    OBVIOUS
  <2>2. CASE items[i].status = "uploading"
    <3>1. PICK t \in DOMAIN uploads, k \in DOMAIN Line :
             uploads[t] = i /\ Line[k].op = "upload" /\ Line[k].txn = t
      BY <2>1, <2>2 DEF LineInv, RowsAreAwaited
    <3>2. ~(d = 1 /\ k = 1)
      BY <3>1 DEF LineInv, UploadsAreKnown
    <3> QED
      BY <1>2, <2>1, <2>2, <3>1, <3>2
  <2>3. CASE items[i].status = "sending"
    <3>1. PICK t \in DOMAIN sends, k \in DOMAIN Line :
             sends[t] = i /\ Line[k].op = "image" /\ Line[k].txn = t
      BY <2>1, <2>3 DEF LineInv, RowsAreAwaited
    <3>2. ~(d = 1 /\ k = 1)
      BY <3>1 DEF LineInv, SendsAreKnown
    <3> QED
      BY <1>2, <2>1, <2>3, <3>1, <3>2
  <2> QED
    BY <2>1, <2>2, <2>3
<1> QED
  BY <1>3, <1>4, <1>5, <1>6 DEF LineInv

\* An upload is queued under a fresh id.
LEMMA UploadAskedKeepsInv ==
    ASSUME TypesOK, LineInv(Line), NEW t \in Nat, NEW i \in Items,
           nextTxn <= t, nextTxn' = t + 1, i < nextTxn',
           Moved(Line, Line', 0, {Command("upload", t, i)}),
           uploads' = With(uploads, t, i), UNCHANGED <<sends, reused, autoTxn, lost>>,
           \A j \in DOMAIN items' :
              \/ j \in DOMAIN items /\ items'[j].status = items[j].status
              \/ j = i /\ items'[j].status = "uploading"
    PROVE  LineInv(Line)'
<1>0. /\ nextTxn \in Nat /\ autoTxn \in Nat /\ nextTxn' \in Nat /\ nextTxn <= nextTxn'
      /\ t < nextTxn' /\ i \in Nat
      /\ \A j \in DOMAIN items : j \in Nat
      /\ \A u \in DOMAIN uploads : u \in Nat
  BY DEF TypesOK, Items
<1>1. ASSUME NEW k \in DOMAIN Line'
      PROVE  /\ k \in Nat
             /\ \/ k \in DOMAIN Line /\ Line'[k] = Line[k]
                \/ /\ k \notin DOMAIN Line /\ Line'[k] = Command("upload", t, i)
                   /\ \A l \in DOMAIN Line' : l \in DOMAIN Line \/ l = k
  <2>1. \A l \in DOMAIN Line' : l \in Nat /\ l + 0 = l
    BY DEF Moved
  <2> QED
    BY <2>1 DEF Moved
<1>2. ASSUME NEW k \in DOMAIN Line PROVE k \in DOMAIN Line' /\ Line'[k] = Line[k]
  BY NotesAreTyped DEF Moved
<1>3. PICK last \in DOMAIN Line' : Line'[last] = Command("upload", t, i)
  BY DEF Moved
<1>4. t \notin DOMAIN uploads
  BY <1>0 DEF LineInv, IdsAreDrawn
<1>5. /\ DOMAIN uploads' = DOMAIN uploads \cup {t}
      /\ uploads'[t] = i
      /\ \A u \in DOMAIN uploads : uploads'[u] = uploads[u]
  BY <1>4 DEF With
<1>6. Command("upload", t, i).op = "upload" /\ Command("upload", t, i).txn = t
      /\ Command("upload", t, i).item = i
  BY DEF Command
<1>7. IdsAreDrawn(Line)'
  <2>1. \A u \in DOMAIN uploads' : u < nextTxn'
    BY <1>0, <1>5 DEF LineInv, IdsAreDrawn
  <2>2. \A j \in DOMAIN items' : j < nextTxn'
    BY <1>0 DEF LineInv, IdsAreDrawn
  <2>3. ASSUME NEW k \in DOMAIN Line'
        PROVE  /\ Line'[k].op = "upload" => Line'[k].txn < nextTxn'
               /\ Line'[k].op = "image" => Line'[k].txn < nextTxn' \/ Line'[k].txn < autoTxn'
    <3>1. CASE k \in DOMAIN Line /\ Line'[k] = Line[k]
      BY <1>0, <3>1, NotesAreTyped DEF LineInv, IdsAreDrawn
    <3>2. CASE Line'[k] = Command("upload", t, i)
      BY <1>0, <1>6, <3>2
    <3> QED
      BY <1>1, <3>1, <3>2
  <2> QED
    BY <2>1, <2>2, <2>3 DEF IdsAreDrawn
<1>8. UploadsAreKnown(Line)'
  <2>1. ASSUME NEW k \in DOMAIN Line', Line'[k].op = "upload"
        PROVE  Line'[k].txn \in DOMAIN uploads' /\ uploads'[Line'[k].txn] = Line'[k].item
    <3>1. CASE k \in DOMAIN Line /\ Line'[k] = Line[k]
      BY <1>5, <2>1, <3>1 DEF LineInv, UploadsAreKnown
    <3>2. CASE Line'[k] = Command("upload", t, i)
      BY <1>5, <1>6, <3>2
    <3> QED
      BY <1>1, <3>1, <3>2
  <2>2. ASSUME NEW k \in DOMAIN Line', NEW l \in DOMAIN Line',
               Line'[k].op = "upload", Line'[l].op = "upload", Line'[k].txn = Line'[l].txn
        PROVE  k = l
    <3>1. \A m \in DOMAIN Line : Line[m].op = "upload" => Line[m].txn # t
      BY <1>4 DEF LineInv, UploadsAreKnown
    <3>2. CASE k \in DOMAIN Line /\ l \in DOMAIN Line
      BY <1>2, <2>2, <3>2 DEF LineInv, UploadsAreKnown
    <3>3. CASE k \notin DOMAIN Line
      BY <1>1, <1>2, <1>6, <2>2, <3>1, <3>3
    <3>4. CASE l \notin DOMAIN Line
      BY <1>1, <1>2, <1>6, <2>2, <3>1, <3>4
    <3> QED
      BY <3>2, <3>3, <3>4
  <2> QED
    BY <2>1, <2>2 DEF UploadsAreKnown
<1>9. SendsAreKnown(Line)'
  <2>1. ASSUME NEW k \in DOMAIN Line', Line'[k].op = "image"
        PROVE  k \in DOMAIN Line /\ Line'[k] = Line[k] /\ Line[k].txn \in Nat
    BY <1>1, <1>6, <2>1, NotesAreTyped
  <2>2. \A n \in Nat : n < nextTxn => n < nextTxn'
    BY <1>0
  <2> QED
    BY <2>1, <2>2 DEF LineInv, SendsAreKnown
<1>10. RowsAreAwaited(Line)'
  <2> SUFFICES ASSUME NEW j \in DOMAIN items' \ (lost' \cup reused')
               PROVE  /\ items'[j].status = "uploading" =>
                            \E u \in DOMAIN uploads', k \in DOMAIN Line' :
                               uploads'[u] = j /\ Line'[k].op = "upload" /\ Line'[k].txn = u
                      /\ items'[j].status = "sending" =>
                            \E u \in DOMAIN sends', k \in DOMAIN Line' :
                               sends'[u] = j /\ Line'[k].op = "image" /\ Line'[k].txn = u
    BY DEF RowsAreAwaited
  <2>1. CASE j = i /\ items'[j].status = "uploading"
    BY <1>3, <1>5, <1>6, <2>1
  <2>2. CASE j \in DOMAIN items /\ items'[j].status = items[j].status
    <3>1. CASE items[j].status = "uploading"
      <4>1. PICK u \in DOMAIN uploads, k \in DOMAIN Line :
               uploads[u] = j /\ Line[k].op = "upload" /\ Line[k].txn = u
        BY <2>2, <3>1 DEF LineInv, RowsAreAwaited
      <4> QED
        BY <1>2, <1>5, <2>2, <3>1, <4>1
    <3>2. CASE items[j].status = "sending"
      <4>1. PICK u \in DOMAIN sends, k \in DOMAIN Line :
               sends[u] = j /\ Line[k].op = "image" /\ Line[k].txn = u
        BY <2>2, <3>2 DEF LineInv, RowsAreAwaited
      <4> QED
        BY <1>2, <2>2, <3>2, <4>1
    <3> QED
      BY <2>2, <3>1, <3>2
  <2> QED
    BY <2>1, <2>2
<1> QED
  BY <1>7, <1>8, <1>9, <1>10 DEF LineInv

\* A send is queued under the next id of either counter: for a retry, or (d = 1) by
\* the answer to an upload.
LEMMA SendAskedKeepsInv ==
    ASSUME TypesOK, LineInv(Line), NEW d \in {0, 1}, NEW t \in Nat, NEW i \in Items,
           \/ t = nextTxn /\ nextTxn' = t + 1 /\ autoTxn' = autoTxn
           \/ t = autoTxn /\ autoTxn' = t + 1 /\ nextTxn' = nextTxn,
           Moved(Line, Line', d, {Command("image", t, i)}),
           sends' = With(sends, t, i), reused' = Reused(t, i), lost' = lost,
           \/ d = 0 /\ uploads' = uploads
           \/ /\ d = 1 /\ 1 \in DOMAIN Line /\ Line[1].op = "upload" /\ Line[1].item = i
              /\ uploads' = Without(uploads, Line[1].txn)
              /\ i \in DOMAIN items' => items'[i].status # "uploading",
           DOMAIN items' = DOMAIN items,
           \A j \in DOMAIN items :
              \/ items'[j].status = items[j].status
              \/ j = i /\ items'[j].status = "sending"
    PROVE  LineInv(Line)'
<1> DEFINE c == Command("image", t, i)
<1>0. /\ nextTxn \in Nat /\ autoTxn \in Nat /\ nextTxn' \in Nat /\ autoTxn' \in Nat
      /\ nextTxn <= nextTxn' /\ autoTxn <= autoTxn'
      /\ t < nextTxn' \/ t < autoTxn'
      /\ \A j \in DOMAIN items : j \in Nat
      /\ \A u \in DOMAIN uploads : u \in Nat
  BY DEF TypesOK, Items
<1>1. c.op = "image" /\ c.txn = t /\ c.item = i
  BY DEF Command
<1>2. Moved(Line, Line', d, {c})
  OBVIOUS
<1> HIDE DEF c
<1>3. ASSUME NEW k \in DOMAIN Line'
      PROVE  /\ k \in Nat
             /\ \/ k + d \in DOMAIN Line /\ Line'[k] = Line[k + d]
                \/ /\ k + d \notin DOMAIN Line /\ Line'[k] = c
                   /\ \A l \in DOMAIN Line' : l + d \in DOMAIN Line \/ l = k
  BY <1>2 DEF Moved
<1>4. ASSUME NEW k \in DOMAIN Line, ~(d = 1 /\ k = 1)
      PROVE  k - d \in DOMAIN Line' /\ Line'[k - d] = Line[k]
  <2>1. k > d
    BY <1>4, NotesAreTyped
  <2> QED
    BY <1>2, <2>1 DEF Moved
<1>5. PICK last \in DOMAIN Line' : Line'[last] = c
  BY <1>2 DEF Moved
<1>6. /\ DOMAIN sends' = DOMAIN sends \cup {t}
      /\ sends'[t] = i
      /\ \A u \in DOMAIN sends \ {t} : sends'[u] = sends[u]
  BY DEF With
<1>7. reused \subseteq reused' /\ (t \in DOMAIN sends => {i, sends[t]} \subseteq reused')
  BY DEF Reused
<1>8. /\ DOMAIN uploads' \subseteq DOMAIN uploads
      /\ \A u \in DOMAIN uploads' : uploads'[u] = uploads[u]
      /\ \A u \in DOMAIN uploads : u \notin DOMAIN uploads' => d = 1 /\ u = Line[1].txn
  BY WithoutFacts DEF Without, Restrict
\* A send in the line that has the fresh id: the other counter gave it.
<1>9. ASSUME NEW k \in DOMAIN Line, Line[k].op = "image", Line[k].txn = t
      PROVE  t < nextTxn' /\ t < autoTxn'
  <2>1. t < nextTxn \/ t < autoTxn
    BY <1>9 DEF LineInv, IdsAreDrawn
  <2> QED
    BY <1>0, <2>1
<1>10. IdsAreDrawn(Line)'
  <2>1. \A u \in DOMAIN uploads' : u < nextTxn'
    BY <1>0, <1>8 DEF LineInv, IdsAreDrawn
  <2>2. \A j \in DOMAIN items' : j < nextTxn'
    BY <1>0 DEF LineInv, IdsAreDrawn
  <2>3. ASSUME NEW k \in DOMAIN Line'
        PROVE  /\ Line'[k].op = "upload" => Line'[k].txn < nextTxn'
               /\ Line'[k].op = "image" => Line'[k].txn < nextTxn' \/ Line'[k].txn < autoTxn'
    <3>1. CASE k + d \in DOMAIN Line /\ Line'[k] = Line[k + d]
      BY <1>0, <3>1, NotesAreTyped DEF LineInv, IdsAreDrawn
    <3>2. CASE Line'[k] = c
      BY <1>0, <1>1, <3>2
    <3> QED
      BY <1>3, <3>1, <3>2
  <2> QED
    BY <2>1, <2>2, <2>3 DEF IdsAreDrawn
<1>11. UploadsAreKnown(Line)'
  <2>1. ASSUME NEW k \in DOMAIN Line', Line'[k].op = "upload"
        PROVE  /\ k + d \in DOMAIN Line /\ Line'[k] = Line[k + d] /\ k \in Nat
               /\ ~(d = 1 /\ k + d = 1)
    <3>1. k + d \in DOMAIN Line /\ Line'[k] = Line[k + d] /\ k \in Nat
      BY <1>1, <1>3, <2>1
    <3>2. k # 0
      BY <1>2 DEF Moved
    <3> QED
      BY <3>1, <3>2
  <2>2. ASSUME NEW k \in DOMAIN Line', Line'[k].op = "upload"
        PROVE  Line'[k].txn \in DOMAIN uploads' /\ uploads'[Line'[k].txn] = Line'[k].item
    <3>1. k + d \in DOMAIN Line /\ Line'[k] = Line[k + d] /\ ~(d = 1 /\ k + d = 1)
      BY <2>1, <2>2
    <3>2. Line[k + d].txn \in DOMAIN uploads /\ uploads[Line[k + d].txn] = Line[k + d].item
      BY <2>2, <3>1 DEF LineInv, UploadsAreKnown
    <3>3. d = 1 => Line[k + d].txn # Line[1].txn
      BY <2>2, <3>1 DEF LineInv, UploadsAreKnown
    <3> QED
      BY <1>8, <3>1, <3>2, <3>3
  <2>3. ASSUME NEW k \in DOMAIN Line', NEW l \in DOMAIN Line',
               Line'[k].op = "upload", Line'[l].op = "upload", Line'[k].txn = Line'[l].txn
        PROVE  k = l
    <3>1. k + d = l + d
      BY <2>1, <2>3 DEF LineInv, UploadsAreKnown
    <3> QED
      BY <2>1, <2>3, <3>1
  <2> QED
    BY <2>2, <2>3 DEF UploadsAreKnown
<1>12. SendsAreKnown(Line)'
  <2>1. ASSUME NEW k \in DOMAIN Line', Line'[k].op = "image"
        PROVE  \/ /\ Line'[k].txn \in DOMAIN sends'
                  /\ sends'[Line'[k].txn] = Line'[k].item \/ sends'[Line'[k].txn] \in reused'
               \/ /\ Line'[k].txn \notin DOMAIN sends'
                  /\ Line'[k].txn < nextTxn' /\ Line'[k].txn < autoTxn'
    <3>1. CASE Line'[k] = c
      BY <1>1, <1>6, <3>1
    <3>2. CASE k + d \in DOMAIN Line /\ Line'[k] = Line[k + d] /\ Line[k + d].txn = t
      <4>1. \/ /\ t \in DOMAIN sends
               /\ sends[t] = Line[k + d].item \/ sends[t] \in reused
            \/ t \notin DOMAIN sends /\ t < nextTxn /\ t < autoTxn
        BY <2>1, <3>2 DEF LineInv, SendsAreKnown
      <4>2. ~(t < nextTxn /\ t < autoTxn)
        BY <1>0
      <4>3. t \in DOMAIN sends
        BY <4>1, <4>2
      <4> QED
        BY <1>6, <1>7, <3>2, <4>3
    <3>3. CASE k + d \in DOMAIN Line /\ Line'[k] = Line[k + d] /\ Line[k + d].txn # t
      <4>1. Line[k + d].txn \in Nat
        BY <3>3, NotesAreTyped
      <4>2. \/ /\ Line[k + d].txn \in DOMAIN sends
               /\ sends[Line[k + d].txn] = Line[k + d].item \/ sends[Line[k + d].txn] \in reused
            \/ /\ Line[k + d].txn \notin DOMAIN sends
               /\ Line[k + d].txn < nextTxn /\ Line[k + d].txn < autoTxn
        BY <2>1, <3>3 DEF LineInv, SendsAreKnown
      <4> QED
        BY <1>0, <1>6, <1>7, <3>3, <4>1, <4>2
    <3> QED
      BY <1>3, <3>1, <3>2, <3>3
  <2>2. ASSUME NEW k \in DOMAIN Line', NEW l \in DOMAIN Line',
               Line'[k].op = "image", Line'[l].op = "image", Line'[k].txn = Line'[l].txn
        PROVE  k = l \/ (Line'[k].txn < nextTxn' /\ Line'[k].txn < autoTxn')
    <3>1. CASE k + d \in DOMAIN Line /\ l + d \in DOMAIN Line
      <4>1. Line'[k] = Line[k + d] /\ Line'[l] = Line[l + d] /\ k \in Nat /\ l \in Nat
        BY <1>3, <3>1
      <4>2. k + d = l + d \/ (Line[k + d].txn < nextTxn /\ Line[k + d].txn < autoTxn)
        BY <2>2, <3>1, <4>1 DEF LineInv, SendsAreKnown
      <4>3. Line[k + d].txn \in Nat
        BY <3>1, NotesAreTyped
      <4> QED
        BY <1>0, <4>1, <4>2, <4>3
    <3>2. CASE k + d \notin DOMAIN Line
      <4>1. Line'[k] = c /\ (l = k \/ (l + d \in DOMAIN Line /\ Line'[l] = Line[l + d]))
        BY <1>3, <3>2
      <4>2. Line'[k].txn = t
        BY <1>1, <4>1
      <4>3. l # k => Line[l + d].op = "image" /\ Line[l + d].txn = t
        BY <2>2, <4>1, <4>2
      <4> QED
        BY <1>9, <4>1, <4>2, <4>3
    <3>3. CASE l + d \notin DOMAIN Line
      <4>1. Line'[l] = c /\ (l = k \/ (k + d \in DOMAIN Line /\ Line'[k] = Line[k + d]))
        BY <1>3, <3>3
      <4>2. Line'[k].txn = t
        BY <1>1, <2>2, <4>1
      <4>3. l # k => Line[k + d].op = "image" /\ Line[k + d].txn = t
        BY <2>2, <4>1, <4>2
      <4> QED
        BY <1>9, <4>1, <4>2, <4>3
    <3> QED
      BY <3>1, <3>2, <3>3
  <2> QED
    BY <2>1, <2>2 DEF SendsAreKnown
<1>13. RowsAreAwaited(Line)'
  <2> SUFFICES ASSUME NEW j \in DOMAIN items' \ (lost' \cup reused')
               PROVE  /\ items'[j].status = "uploading" =>
                            \E u \in DOMAIN uploads', k \in DOMAIN Line' :
                               uploads'[u] = j /\ Line'[k].op = "upload" /\ Line'[k].txn = u
                      /\ items'[j].status = "sending" =>
                            \E u \in DOMAIN sends', k \in DOMAIN Line' :
                               sends'[u] = j /\ Line'[k].op = "image" /\ Line'[k].txn = u
    BY DEF RowsAreAwaited
  <2>1. j \in DOMAIN items \ (lost \cup reused)
    BY <1>7
  <2>2. CASE j = i /\ items'[j].status = "sending"
    BY <1>1, <1>5, <1>6, <2>2
  <2>3. CASE items'[j].status = items[j].status /\ items[j].status = "uploading"
    <3>1. PICK u \in DOMAIN uploads, k \in DOMAIN Line :
             uploads[u] = j /\ Line[k].op = "upload" /\ Line[k].txn = u
      BY <2>1, <2>3 DEF LineInv, RowsAreAwaited
    <3>2. d = 1 => j # i
      BY <2>3
    <3>3. d = 1 => uploads[Line[1].txn] = i
      BY DEF LineInv, UploadsAreKnown
    <3>4. u \in DOMAIN uploads' /\ ~(d = 1 /\ k = 1)
      BY <1>8, <3>1, <3>2, <3>3
    <3> QED
      BY <1>4, <1>8, <2>3, <3>1, <3>4
  <2>4. CASE items'[j].status = items[j].status /\ items[j].status = "sending"
    <3>1. PICK u \in DOMAIN sends, k \in DOMAIN Line :
             sends[u] = j /\ Line[k].op = "image" /\ Line[k].txn = u
      BY <2>1, <2>4 DEF LineInv, RowsAreAwaited
    <3>2. u # t /\ ~(d = 1 /\ k = 1)
      BY <1>7, <3>1
    <3> QED
      BY <1>4, <1>6, <2>4, <3>1, <3>2
  <2> QED
    BY <2>1, <2>2, <2>3, <2>4
<1> QED
  BY <1>10, <1>11, <1>12, <1>13 DEF LineInv

\* The answer to an upload or a send is handled, and nothing more is queued.  An
\* unknown send's answer settles nothing.
LEMMA SettledKeepsInv ==
    ASSUME TypesOK, LineInv(Line), NEW i \in Nat,
           Moved(Line, Line', 1, {}), 1 \in DOMAIN Line,
           UNCHANGED <<nextTxn, autoTxn, reused, lost>>,
           \/ /\ Line[1].op = "upload" /\ i = uploads[Line[1].txn]
              /\ uploads' = Without(uploads, Line[1].txn) /\ sends' = sends
           \/ /\ Line[1].op = "image"
              /\ Line[1].txn \in DOMAIN sends => i = sends[Line[1].txn]
              /\ sends' = Without(sends, Line[1].txn) /\ uploads' = uploads,
           \A j \in DOMAIN items' :
              /\ j \in DOMAIN items
              /\ \/ j # i /\ items'[j].status = items[j].status
                 \/ j = i /\ items'[j].status \in {"uploadFailed", "sendFailed"}
    PROVE  LineInv(Line)'
<1>0. Line[1].txn \in Nat
  BY NotesAreTyped
<1>1. ASSUME NEW k \in DOMAIN Line'
      PROVE  k \in Nat \ {0} /\ k + 1 \in DOMAIN Line /\ k + 1 # 1 /\ Line'[k] = Line[k + 1]
  BY DEF Moved
<1>2. ASSUME NEW k \in DOMAIN Line, k # 1
      PROVE  k - 1 \in DOMAIN Line' /\ Line'[k - 1] = Line[k]
  <2>1. k > 1
    BY <1>2, NotesAreTyped
  <2> QED
    BY <2>1 DEF Moved
<1>3. /\ DOMAIN uploads' \subseteq DOMAIN uploads /\ DOMAIN sends' \subseteq DOMAIN sends
      /\ \A u \in DOMAIN uploads' : uploads'[u] = uploads[u]
      /\ \A u \in DOMAIN sends' : sends'[u] = sends[u]
      /\ \A u \in DOMAIN uploads :
            u \notin DOMAIN uploads' => Line[1].op = "upload" /\ u = Line[1].txn
      /\ \A u \in DOMAIN sends :
            u \notin DOMAIN sends' => Line[1].op = "image" /\ u = Line[1].txn
  BY DEF Without, Restrict
<1>4. IdsAreDrawn(Line)'
  BY <1>1, <1>3 DEF LineInv, IdsAreDrawn
<1>5. UploadsAreKnown(Line)'
  <2>1. ASSUME NEW k \in DOMAIN Line', Line'[k].op = "upload"
        PROVE  Line'[k].txn \in DOMAIN uploads' /\ uploads'[Line'[k].txn] = Line'[k].item
    <3>1. /\ Line[k + 1].txn \in DOMAIN uploads
          /\ uploads[Line[k + 1].txn] = Line[k + 1].item
          /\ Line[1].op = "upload" => Line[k + 1].txn # Line[1].txn
      BY <1>1, <2>1 DEF LineInv, UploadsAreKnown
    <3> QED
      BY <1>1, <1>3, <2>1, <3>1
  <2>2. ASSUME NEW k \in DOMAIN Line', NEW l \in DOMAIN Line',
               Line'[k].op = "upload", Line'[l].op = "upload", Line'[k].txn = Line'[l].txn
        PROVE  k = l
    <3>1. k + 1 = l + 1
      BY <1>1, <2>2 DEF LineInv, UploadsAreKnown
    <3> QED
      BY <1>1, <3>1
  <2> QED
    BY <2>1, <2>2 DEF UploadsAreKnown
<1>6. SendsAreKnown(Line)'
  <2>1. ASSUME NEW k \in DOMAIN Line', Line'[k].op = "image"
        PROVE  \/ /\ Line'[k].txn \in DOMAIN sends'
                  /\ sends'[Line'[k].txn] = Line'[k].item \/ sends'[Line'[k].txn] \in reused
               \/ /\ Line'[k].txn \notin DOMAIN sends'
                  /\ Line'[k].txn < nextTxn /\ Line'[k].txn < autoTxn
    <3>1. \/ /\ Line[k + 1].txn \in DOMAIN sends
             /\ sends[Line[k + 1].txn] = Line[k + 1].item \/ sends[Line[k + 1].txn] \in reused
          \/ /\ Line[k + 1].txn \notin DOMAIN sends
             /\ Line[k + 1].txn < nextTxn /\ Line[k + 1].txn < autoTxn
      BY <1>1, <2>1 DEF LineInv, SendsAreKnown
    <3>2. Line[1].op = "image" /\ Line[k + 1].txn = Line[1].txn
             => Line[k + 1].txn < nextTxn /\ Line[k + 1].txn < autoTxn
      BY <1>1, <2>1 DEF LineInv, SendsAreKnown
    <3>3. CASE Line[1].op = "image" /\ Line[k + 1].txn = Line[1].txn
      <4>1. Line[k + 1].txn \notin DOMAIN sends'
        BY <3>3 DEF Without, Restrict
      <4> QED
        BY <1>1, <3>2, <3>3, <4>1
    <3>4. CASE ~(Line[1].op = "image" /\ Line[k + 1].txn = Line[1].txn)
      BY <1>1, <1>3, <3>1, <3>4
    <3> QED
      BY <3>3, <3>4
  <2>2. ASSUME NEW k \in DOMAIN Line', NEW l \in DOMAIN Line',
               Line'[k].op = "image", Line'[l].op = "image", Line'[k].txn = Line'[l].txn
        PROVE  k = l \/ (Line'[k].txn < nextTxn /\ Line'[k].txn < autoTxn)
    <3>1. k + 1 = l + 1 \/ (Line[k + 1].txn < nextTxn /\ Line[k + 1].txn < autoTxn)
      BY <1>1, <2>2 DEF LineInv, SendsAreKnown
    <3> QED
      BY <1>1, <3>1
  <2> QED
    BY <2>1, <2>2 DEF SendsAreKnown
<1>7. RowsAreAwaited(Line)'
  <2> SUFFICES ASSUME NEW j \in DOMAIN items' \ (lost' \cup reused'),
                      items'[j].status \in {"uploading", "sending"}
               PROVE  /\ items'[j].status = "uploading" =>
                            \E u \in DOMAIN uploads', k \in DOMAIN Line' :
                               uploads'[u] = j /\ Line'[k].op = "upload" /\ Line'[k].txn = u
                      /\ items'[j].status = "sending" =>
                            \E u \in DOMAIN sends', k \in DOMAIN Line' :
                               sends'[u] = j /\ Line'[k].op = "image" /\ Line'[k].txn = u
    BY DEF RowsAreAwaited
  <2>1. /\ j \in DOMAIN items \ (lost \cup reused) /\ items'[j].status = items[j].status
        /\ j # i
    OBVIOUS
  <2>2. CASE items[j].status = "uploading"
    <3>1. PICK u \in DOMAIN uploads, k \in DOMAIN Line :
             uploads[u] = j /\ Line[k].op = "upload" /\ Line[k].txn = u
      BY <2>1, <2>2 DEF LineInv, RowsAreAwaited
    <3>2. u \in DOMAIN uploads' /\ k # 1
      BY <1>3, <2>1, <3>1
    <3> QED
      BY <1>2, <1>3, <2>1, <2>2, <3>1, <3>2
  <2>3. CASE items[j].status = "sending"
    <3>1. PICK u \in DOMAIN sends, k \in DOMAIN Line :
             sends[u] = j /\ Line[k].op = "image" /\ Line[k].txn = u
      BY <2>1, <2>3 DEF LineInv, RowsAreAwaited
    <3>2. u \in DOMAIN sends' /\ k # 1
      BY <1>3, <2>1, <3>1
    <3> QED
      BY <1>2, <1>3, <2>1, <2>3, <3>1, <3>2
  <2> QED
    BY <2>1, <2>2, <2>3
<1> QED
  BY <1>4, <1>5, <1>6, <1>7 DEF LineInv

-----------------------------------------------------------------------------
(* What the steps do to the line.                                          *)

LEMMA CommandFacts ==
    ASSUME NEW op \in Ops, NEW t \in Nat, NEW i \in Nat
    PROVE  /\ Command(op, t, i) \in CommandType
           /\ Note(Command(op, t, i)) = Command(op, t, i)
           /\ Command(op, t, i).op = op /\ Command(op, t, i).txn = t /\ Command(op, t, i).item = i
BY DEF Command, CommandType, Note

LEMMA AckFacts ==
    ASSUME NEW op \in Ops, NEW t \in Nat, NEW i \in Nat, NEW ok \in BOOLEAN
    PROVE  /\ Ack(op, t, i, ok) \in AckType
           /\ Note(Ack(op, t, i, ok)) = Command(op, t, i)
           /\ Ack(op, t, i, ok).op = op /\ Ack(op, t, i, ok).item = i /\ Ack(op, t, i, ok).ok = ok
BY DEF Command, Note, Ack, AckType

\* Nothing is asked or answered.
LEMMA NothingMoves ==
    ASSUME TypesOK, UNCHANGED <<commands, events>>
    PROVE  Moved(Line, Line', 0, {})
<1>1. Line' = Line
  BY DEF Line
<1>2. Moved(Line, Line, 0, {})
  BY LineRests DEF Line, TypesOK
<1> QED
  BY <1>1, <1>2

\* A command is queued.
LEMMA Asked ==
    ASSUME TypesOK, NEW op \in Ops, NEW t \in Nat, NEW i \in Nat,
           events' = events, commands' = Append(commands, Command(op, t, i))
    PROVE  /\ Moved(Line, Line', 0, {Command(op, t, i)})
           /\ commands' \in Seq(CommandType)
<1> DEFINE c == Command(op, t, i)
<1>1. c \in CommandType /\ Note(c) = c
  BY CommandFacts
<1>2. Line' = LineOf(events, Append(commands, c)) /\ commands' = Append(commands, c)
  BY DEF Line
<1> HIDE DEF c
<1>3. Moved(Line, LineOf(events, Append(commands, c)), 0, {c})
  BY <1>1, LineGrows DEF Line, TypesOK
<1>4. Append(commands, c) \in Seq(CommandType)
  BY <1>1 DEF TypesOK
<1> QED
  BY <1>2, <1>3, <1>4 DEF c

\* An answer is handled.
LEMMA Handled ==
    ASSUME TypesOK, events # <<>>, events' = Tail(events), commands' = commands
    PROVE  /\ Moved(Line, Line', 1, {}) /\ 1 \in DOMAIN Line
           /\ Line[1] \in CommandType /\ Head(events) \in AckType
           /\ Line[1].op = Head(events).op /\ Line[1].txn = Head(events).txn
           /\ Line[1].item = Head(events).item
           /\ events' \in Seq(AckType)
<1>1. Head(events) \in AckType /\ events' \in Seq(AckType)
  BY DEF TypesOK
<1>2. /\ Moved(Line, LineOf(Tail(events), commands), 1, {})
      /\ 1 \in DOMAIN Line /\ Line[1] = Note(Head(events))
  BY LineShrinks DEF Line, TypesOK
<1>3. Line' = LineOf(Tail(events), commands)
  BY DEF Line
<1> QED
  BY <1>1, <1>2, <1>3, NoteFacts

\* An answer is handled, and a command queued.
LEMMA HandledAndAsked ==
    ASSUME TypesOK, NEW op \in Ops, NEW t \in Nat, NEW i \in Nat,
           events # <<>>, events' = Tail(events),
           commands' = Append(commands, Command(op, t, i))
    PROVE  /\ Moved(Line, Line', 1, {Command(op, t, i)}) /\ 1 \in DOMAIN Line
           /\ Line[1] \in CommandType /\ Head(events) \in AckType
           /\ Line[1].op = Head(events).op /\ Line[1].txn = Head(events).txn
           /\ Line[1].item = Head(events).item
           /\ events' \in Seq(AckType) /\ commands' \in Seq(CommandType)
<1> DEFINE c == Command(op, t, i)
           rest == LineOf(Tail(events), commands)
<1>1. Head(events) \in AckType /\ events' \in Seq(AckType)
  BY DEF TypesOK
<1>2. /\ Moved(Line, rest, 1, {})
      /\ 1 \in DOMAIN Line /\ Line[1] = Note(Head(events))
  BY LineShrinks DEF Line, TypesOK
<1>3. c \in CommandType /\ Note(c) = c
  BY CommandFacts
<1> HIDE DEF c
<1>4. Moved(rest, LineOf(Tail(events), Append(commands, c)), 0, {c})
  BY <1>1, <1>3, LineGrows DEF TypesOK
<1>5. Line' = LineOf(Tail(events), Append(commands, c)) /\ commands' = Append(commands, c)
  BY DEF Line, c
<1> HIDE DEF rest
<1>6. Moved(rest, Line', 0, {c})
  BY <1>4, <1>5
<1>7. Moved(Line, Line', 1, {c})
  <2>1. \A k \in DOMAIN rest \cup DOMAIN Line' : k \in Nat \ {0} /\ k + 0 = k /\ k - 0 = k
    BY <1>6 DEF Moved
  <2>2. \A k \in DOMAIN rest : k \in DOMAIN Line' /\ Line'[k] = rest[k]
    BY <1>6, <2>1 DEF Moved
  <2>3. \A k \in DOMAIN rest : k + 1 \in DOMAIN Line /\ rest[k] = Line[k + 1]
    BY <1>2 DEF Moved
  <2>4. \A k \in DOMAIN Line' : k \notin DOMAIN rest =>
           /\ Line'[k] = c
           /\ \A l \in DOMAIN Line' : l \in DOMAIN rest \/ l = k
    BY <1>6, <2>1 DEF Moved
  <2>5. \A k \in DOMAIN Line' : k \notin DOMAIN rest => k + 1 \notin DOMAIN Line
    <3>1. \A k \in Nat \ {0} : k + 1 > 1 /\ (k + 1) - 1 = k
      OBVIOUS
    <3>2. \A k \in DOMAIN Line : k > 1 => k - 1 \in DOMAIN rest
      BY <1>2 DEF Moved
    <3> QED
      BY <2>1, <3>1, <3>2
  <2>6. \E k \in DOMAIN Line' : Line'[k] = c /\ k \notin DOMAIN rest
    BY <1>6, <2>1 DEF Moved
  <2>7. \A k \in DOMAIN Line : k > 1 => k - 1 \in DOMAIN Line' /\ Line'[k - 1] = Line[k]
    <3>1. \A k \in DOMAIN Line : k > 1 => k - 1 \in DOMAIN rest /\ rest[k - 1] = Line[k]
      BY <1>2 DEF Moved
    <3> QED
      BY <2>2, <3>1
  <2>8. DOMAIN Line \subseteq Nat \ {0} /\ DOMAIN Line' \subseteq Nat \ {0}
    BY <1>2, <1>6 DEF Moved
  <2> QED
    BY <2>2, <2>3, <2>4, <2>5, <2>6, <2>7, <2>8 DEF Moved
<1>8. commands' \in Seq(CommandType)
  BY <1>3, <1>5 DEF TypesOK
<1> QED
  BY <1>1, <1>2, <1>7, <1>8, NoteFacts DEF c

\* A command is executed; its answer may push the oldest one out.
LEMMA Answered ==
    ASSUME TypesOK, commands # <<>>, commands' = Tail(commands),
           NEW ok \in BOOLEAN,
           Emit(Ack(Head(commands).op, Head(commands).txn, Head(commands).item, ok))
    PROVE  /\ commands' \in Seq(CommandType) /\ events' \in Seq(AckType)
           /\ lost \subseteq lost'
           /\ \E d \in {0, 1} :
                 /\ Moved(Line, Line', d, {})
                 /\ d = 1 => 1 \in DOMAIN Line /\ Line[1].item \in lost'
           /\ \A k \in DOMAIN events' :
                 \/ events'[k] = Ack(Head(commands).op, Head(commands).txn,
                                     Head(commands).item, ok)
                 \/ \E l \in DOMAIN events : events'[k] = events[l]
<1> DEFINE c == Head(commands)
           e == Ack(c.op, c.txn, c.item, ok)
<1>1. c \in CommandType /\ commands' \in Seq(CommandType)
  BY DEF TypesOK
<1>2. c.op \in Ops /\ c.txn \in Nat /\ c.item \in Nat /\ Note(c) = Command(c.op, c.txn, c.item)
  BY <1>1 DEF CommandType, Note, Command
<1>3. e \in AckType /\ Note(e) = Note(c)
  BY <1>2, AckFacts
<1>4. Emit(e)
  OBVIOUS
<1> HIDE DEF e
<1>5. CASE Len(events) = Capacity
  <2>1. events' = Append(Tail(events), e) /\ lost' = lost \cup {Head(events).item}
    BY <1>4, <1>5 DEF Emit
  <2>2. events # <<>>
    BY <1>5, OutboxAssumption
  <2>3. /\ Tail(events) \in Seq(AckType) /\ Head(events) \in AckType
        /\ Len(Tail(events)) \in Nat
        /\ \A k \in 1..Len(Tail(events)) :
              k + 1 \in DOMAIN events /\ Tail(events)[k] = events[k + 1]
    BY <2>2 DEF TypesOK
  <2>4. Line' = LineOf(Append(Tail(events), e), Tail(commands))
    BY <2>1 DEF Line
  <2>5. LineOf(Append(Tail(events), e), Tail(commands)) = LineOf(Tail(events), commands)
    BY <1>3, <2>3, LineStays DEF TypesOK
  <2>6. /\ Moved(Line, LineOf(Tail(events), commands), 1, {})
        /\ 1 \in DOMAIN Line /\ Line[1] = Note(Head(events))
    BY <2>2, LineShrinks DEF Line, TypesOK
  <2>7. Moved(Line, Line', 1, {}) /\ 1 \in DOMAIN Line /\ Line[1].item \in lost'
    BY <2>1, <2>3, <2>4, <2>5, <2>6, NoteFacts
  <2>8. ASSUME NEW k \in DOMAIN events'
        PROVE  events'[k] = e \/ \E l \in DOMAIN events : events'[k] = events[l]
    <3>1. CASE k \in 1..Len(Tail(events))
      <4>1. events'[k] = Tail(events)[k]
        BY <2>1, <2>3, <3>1
      <4> QED
        BY <2>3, <3>1, <4>1
    <3>2. CASE k \notin 1..Len(Tail(events))
      BY <1>3, <2>1, <2>3, <3>2
    <3> QED
      BY <3>1, <3>2
  <2>9. events' \in Seq(AckType)
    BY <1>3, <2>1, <2>3
  <2> QED
    BY <1>1, <2>1, <2>7, <2>8, <2>9 DEF e
<1>6. CASE Len(events) # Capacity
  <2>1. events' = Append(events, e) /\ lost' = lost
    BY <1>4, <1>6 DEF Emit
  <2>2. Line' = LineOf(Append(events, e), Tail(commands))
    BY <2>1 DEF Line
  <2>3. LineOf(Append(events, e), Tail(commands)) = Line
    BY <1>3, LineStays DEF Line, TypesOK
  <2>4. Moved(Line, Line, 0, {})
    BY LineRests DEF Line, TypesOK
  <2>5. Moved(Line, Line', 0, {})
    BY <2>2, <2>3, <2>4
  <2>6. ASSUME NEW k \in DOMAIN events'
        PROVE  events'[k] = e \/ \E l \in DOMAIN events : events'[k] = events[l]
    BY <1>3, <2>1 DEF TypesOK
  <2>7. events' \in Seq(AckType)
    BY <1>3, <2>1 DEF TypesOK
  <2> QED
    BY <1>1, <2>1, <2>5, <2>6, <2>7 DEF e
<1> QED
  BY <1>5, <1>6

-----------------------------------------------------------------------------
(* The invariant, action by action.                                        *)

LEMMA InitEstablishes == Init => OutboxInv
<1> SUFFICES ASSUME Init PROVE OutboxInv
  OBVIOUS
<1>1. TypesOK
  BY DEF Init, TypesOK, Items
<1>2. DOMAIN Line = {}
  BY DEF Init, Line, LineOf
<1>3. LineInv(Line)
  BY <1>2 DEF Init, LineInv, IdsAreDrawn, UploadsAreKnown, SendsAreKnown, RowsAreAwaited
<1>4. GoodIsPosted
  BY DEF Init, GoodIsPosted
<1> QED
  BY <1>1, <1>3, <1>4 DEF OutboxInv

LEMMA GoodStays ==
    ASSUME TypesOK, GoodIsPosted, posted' = posted,
           events' = events \/ (events # <<>> /\ events' = Tail(events))
    PROVE  GoodIsPosted'
<1>1. CASE events' = events
  BY <1>1 DEF GoodIsPosted
<1>2. CASE events # <<>> /\ events' = Tail(events)
  <2>1. \A k \in DOMAIN events' : k + 1 \in DOMAIN events /\ events'[k] = events[k + 1]
    BY <1>2 DEF TypesOK
  <2> QED
    BY <2>1 DEF GoodIsPosted
<1> QED
  BY <1>1, <1>2

\* Rows change only in their status, or go.
LEMMA RowFacts ==
    ASSUME TypesOK, NEW i
    PROVE  LET after == MarkSending(i) IN
           /\ after \in [DOMAIN after -> Row] /\ DOMAIN after = DOMAIN items
           /\ \A j \in DOMAIN items :
                 IF j = i THEN after[j].status = "sending" ELSE after[j] = items[j]
<1>1. items \in [DOMAIN items -> Row]
  BY DEF TypesOK
<1> QED
  BY <1>1 DEF MarkSending, Row, Statuses

LEMMA MarkFacts ==
    ASSUME TypesOK, NEW i, NEW status \in Statuses
    PROVE  /\ Mark(i, status) \in [DOMAIN items -> Row]
           /\ \A j \in DOMAIN items :
                 IF j = i THEN Mark(i, status)[j].status = status
                          ELSE Mark(i, status)[j] = items[j]
<1>1. items \in [DOMAIN items -> Row]
  BY DEF TypesOK
<1> QED
  BY <1>1 DEF Mark, Row

\* Steps of the user and of the drawing that queue nothing.
LEMMA QuietStepsKeepInv ==
    ASSUME OutboxInv,
           \/ SelectRoom \/ PickAttachment \/ ClearAttachment \/ Draw \/ Login
           \/ Downloads \/ SendAttachment(FALSE) \/ \E i \in Items : Remove(i)
    PROVE  OutboxInv'
<1> USE DEF uiVars, txnVars, runtimeVars
<1>0. TypesOK /\ LineInv(Line) /\ GoodIsPosted /\ nextTxn \in Nat \ {0} /\ autoTxn \in Nat
  BY DEF OutboxInv, TypesOK
<1>1. UNCHANGED <<commands, events, uploads, sends, posted, lost, reused>>
  BY DEF SelectRoom, PickAttachment, ClearAttachment, Draw, Login, Downloads,
         SendAttachment, Remove
<1>2. nextTxn' \in Nat \ {0} /\ nextTxn <= nextTxn' /\ autoTxn' \in Nat /\ autoTxn <= autoTxn'
  <2>1. CASE Downloads
    BY <1>0, <2>1, OutboxAssumption DEF Downloads
  <2>2. CASE ~Downloads
    BY <1>0, <2>2 DEF SelectRoom, PickAttachment, ClearAttachment, Draw, Login,
                      SendAttachment, Remove
  <2> QED
    BY <2>1, <2>2
<1>3. /\ items' \in [DOMAIN items' -> Row] /\ DOMAIN items' \subseteq Items
      /\ \A i \in DOMAIN items' :
            \/ i \in DOMAIN items /\ items'[i].status = items[i].status
            \/ i < nextTxn' /\ items'[i].status \in {"uploadFailed", "sendFailed"}
  <2>1. CASE SendAttachment(FALSE)
    <3>1. /\ items' = With(items, nextTxn, [status |-> "uploadFailed", source |-> FALSE])
          /\ nextTxn' = nextTxn + 1 /\ nextTxn \in Items
      BY <1>0, <2>1, OutboxAssumption DEF SendAttachment, Items
    <3>2. [status |-> "uploadFailed", source |-> FALSE] \in Row
      BY DEF Row, Statuses
    <3>3. items \in [DOMAIN items -> Row] /\ DOMAIN items \subseteq Items
      BY <1>0 DEF TypesOK
    <3> QED
      BY <1>0, <3>1, <3>2, <3>3 DEF With
  <2>2. CASE \E i \in Items : Remove(i)
    <3>1. PICK i \in Items : items' = Without(items, i)
      BY <2>2 DEF Remove
    <3>2. items \in [DOMAIN items -> Row] /\ DOMAIN items \subseteq Items
      BY <1>0 DEF TypesOK
    <3>3. /\ DOMAIN items' = DOMAIN items \ {i}
          /\ items' = [j \in DOMAIN items \ {i} |-> items[j]]
      BY <3>1, <3>2 DEF Without, Restrict
    <3> QED
      BY <3>2, <3>3
  <2>3. CASE items' = items
    BY <1>0, <2>3 DEF TypesOK
  <2> QED
    BY <2>1, <2>2, <2>3 DEF SelectRoom, PickAttachment, ClearAttachment, Draw, Login, Downloads
<1>4. TypesOK'
  BY <1>0, <1>1, <1>2, <1>3 DEF TypesOK
<1>5. Moved(Line, Line', 0, {})
  BY <1>0, <1>1, NothingMoves
<1>6. LineInv(Line)'
  BY <1>0, <1>1, <1>2, <1>3, <1>5, IdleStepKeepsInv
<1>7. GoodIsPosted'
  BY <1>0, <1>1, GoodStays
<1> QED
  BY <1>4, <1>6, <1>7 DEF OutboxInv

\* A text or a logout is queued.
LEMMA OtherCommandsKeepInv ==
    ASSUME OutboxInv, SendText \/ Logout
    PROVE  OutboxInv'
<1> USE DEF uiVars, txnVars, runtimeVars
<1>0. TypesOK /\ LineInv(Line) /\ GoodIsPosted /\ nextTxn \in Nat \ {0} /\ autoTxn \in Nat
  BY DEF OutboxInv, TypesOK
<1>1. UNCHANGED <<events, items, uploads, sends, autoTxn, posted, lost, reused>>
  BY DEF SendText, Logout
<1>2. nextTxn' \in Nat \ {0} /\ nextTxn <= nextTxn'
  BY <1>0 DEF SendText, Logout
<1>3. PICK op \in {"text", "logout"}, t \in Nat :
         commands' = Append(commands, Command(op, t, 0))
  BY <1>0 DEF SendText, Logout
<1>4. /\ Moved(Line, Line', 0, {Command(op, t, 0)})
      /\ commands' \in Seq(CommandType)
  BY <1>0, <1>1, <1>3, Asked DEF Ops
<1>5. TypesOK'
  BY <1>0, <1>1, <1>2, <1>4 DEF TypesOK
<1>6. Command(op, t, 0).op \notin {"upload", "image"}
  BY <1>3 DEF Command
<1>7. LineInv(Line)'
  BY <1>0, <1>1, <1>2, <1>4, <1>6, IdleStepKeepsInv
<1>8. GoodIsPosted'
  BY <1>0, <1>1, GoodStays
<1> QED
  BY <1>5, <1>7, <1>8 DEF OutboxInv

\* An attachment is sent: its upload is queued.
LEMMA SendAttachmentKeepsInv ==
    ASSUME OutboxInv, SendAttachment(TRUE)
    PROVE  OutboxInv'
<1> DEFINE t == nextTxn + 1
           row == [status |-> "uploading", source |-> FALSE]
<1>0. TypesOK /\ LineInv(Line) /\ GoodIsPosted /\ nextTxn \in Nat \ {0} /\ autoTxn \in Nat
  BY DEF OutboxInv, TypesOK
<1>1. /\ UNCHANGED <<events, sends, autoTxn, posted, lost, reused>>
      /\ items' = With(items, nextTxn, row) /\ uploads' = With(uploads, t, nextTxn)
      /\ commands' = Append(commands, Command("upload", t, nextTxn))
      /\ nextTxn' = nextTxn + 2 /\ nextTxn + 1 <= MaxTxn
  BY DEF SendAttachment
<1>2. /\ nextTxn' \in Nat \ {0} /\ t \in Nat /\ nextTxn <= t /\ nextTxn' = t + 1
      /\ nextTxn \in Items /\ nextTxn \in Nat /\ nextTxn < nextTxn'
  BY <1>0, <1>1, OutboxAssumption DEF Items
<1>3. row \in Row /\ row.status = "uploading"
  BY DEF Row, Statuses
<1> HIDE DEF t, row
<1>4. /\ Moved(Line, Line', 0, {Command("upload", t, nextTxn)})
      /\ commands' \in Seq(CommandType)
  BY <1>0, <1>1, <1>2, Asked DEF Ops
<1>5. /\ items \in [DOMAIN items -> Row] /\ DOMAIN items \subseteq Items
      /\ uploads \in [DOMAIN uploads -> Items] /\ DOMAIN uploads \subseteq Nat
  BY <1>0 DEF TypesOK
<1>6. /\ items' \in [DOMAIN items' -> Row] /\ DOMAIN items' \subseteq Items
      /\ uploads' \in [DOMAIN uploads' -> Items] /\ DOMAIN uploads' \subseteq Nat
      /\ \A j \in DOMAIN items' :
            \/ j \in DOMAIN items /\ items'[j].status = items[j].status
            \/ j = nextTxn /\ items'[j].status = "uploading"
  BY <1>1, <1>2, <1>3, <1>5 DEF With
<1>7. TypesOK'
  BY <1>0, <1>1, <1>2, <1>4, <1>6 DEF TypesOK
<1>8. LineInv(Line)'
  BY <1>0, <1>1, <1>2, <1>4, <1>6, UploadAskedKeepsInv
<1>9. GoodIsPosted'
  BY <1>0, <1>1, GoodStays
<1> QED
  BY <1>7, <1>8, <1>9 DEF OutboxInv

\* A failed row is tried again: its send, or its upload.
LEMMA RetryKeepsInv ==
    ASSUME OutboxInv, NEW i \in Items, Retry(i)
    PROVE  OutboxInv'
<1>0. /\ TypesOK /\ LineInv(Line) /\ GoodIsPosted /\ nextTxn \in Nat \ {0} /\ autoTxn \in Nat
      /\ i \in Nat
  BY DEF OutboxInv, TypesOK, Items
<1>1. /\ UNCHANGED <<events, autoTxn, posted, lost>>
      /\ i \in DOMAIN items /\ nextTxn' = nextTxn + 1
  BY DEF Retry
<1>2. i < nextTxn' /\ nextTxn' \in Nat \ {0} /\ nextTxn <= nextTxn
  <2>1. i < nextTxn
    BY <1>0, <1>1 DEF LineInv, IdsAreDrawn
  <2> QED
    BY <1>0, <1>1, <2>1
<1>3. GoodIsPosted'
  BY <1>0, <1>1, GoodStays
<1>4. CASE items[i].source
  <2>1. /\ sends' = With(sends, nextTxn, i) /\ reused' = Reused(nextTxn, i)
        /\ items' = MarkSending(i) /\ uploads' = uploads
        /\ commands' = Append(commands, Command("image", nextTxn, i))
    BY <1>4 DEF Retry, Book
  <2>2. /\ Moved(Line, Line', 0, {Command("image", nextTxn, i)})
        /\ commands' \in Seq(CommandType)
    BY <1>0, <1>1, <2>1, Asked DEF Ops
  <2>3. /\ items' \in [DOMAIN items' -> Row] /\ DOMAIN items' = DOMAIN items
        /\ \A j \in DOMAIN items :
              \/ items'[j].status = items[j].status
              \/ j = i /\ items'[j].status = "sending"
    BY <1>0, <2>1, RowFacts
  <2>4. sends' \in [DOMAIN sends' -> Items]
    BY <1>0, <2>1 DEF With, TypesOK
  <2>5. TypesOK'
    BY <1>0, <1>1, <1>2, <2>1, <2>2, <2>3, <2>4 DEF TypesOK
  <2>6. LineInv(Line)'
    BY <1>0, <1>1, <2>1, <2>2, <2>3, SendAskedKeepsInv
  <2> QED
    BY <1>3, <2>5, <2>6 DEF OutboxInv
<1>5. CASE ~items[i].source
  <2>1. /\ uploads' = With(uploads, nextTxn, i)
        /\ commands' = Append(commands, Command("upload", nextTxn, i))
        /\ UNCHANGED <<items, sends, reused>>
    BY <1>5 DEF Retry
  <2>2. /\ Moved(Line, Line', 0, {Command("upload", nextTxn, i)})
        /\ commands' \in Seq(CommandType)
    BY <1>0, <1>1, <2>1, Asked DEF Ops
  <2>3. uploads' \in [DOMAIN uploads' -> Items] /\ DOMAIN uploads' \subseteq Nat
    BY <1>0, <2>1 DEF With, TypesOK
  <2>4. TypesOK'
    BY <1>0, <1>1, <1>2, <2>1, <2>2, <2>3 DEF TypesOK
  <2>5. LineInv(Line)'
    BY <1>0, <1>1, <1>2, <2>1, <2>2, UploadAskedKeepsInv
  <2> QED
    BY <1>3, <2>4, <2>5 DEF OutboxInv
<1> QED
  BY <1>4, <1>5

\* The runtime executes a command.
LEMMA RuntimeKeepsInv ==
    ASSUME OutboxInv, Execute \/ ExecuteLogout
    PROVE  OutboxInv'
<1> DEFINE c == Head(commands)
<1>0. /\ TypesOK /\ LineInv(Line) /\ GoodIsPosted /\ nextTxn \in Nat \ {0} /\ autoTxn \in Nat
      /\ posted \in [Items -> Nat]
  BY DEF OutboxInv, TypesOK
<1>1. /\ UNCHANGED <<items, nextTxn, autoTxn, uploads, sends, reused>>
      /\ commands # <<>> /\ commands' = Tail(commands)
  BY DEF Execute, ExecuteLogout, uiVars, txnVars
<1>2. PICK ok \in BOOLEAN :
         /\ Emit(Ack(c.op, c.txn, c.item, ok))
         /\ posted' = posted \/ posted' = [posted EXCEPT ![c.item] = @ + 1]
         /\ c.op = "image" /\ ok => posted' = [posted EXCEPT ![c.item] = @ + 1]
  <2>1. CASE Execute
    BY <2>1 DEF Execute
  <2>2. CASE ExecuteLogout
    BY <2>2 DEF ExecuteLogout, runtimeVars
  <2> QED
    BY <2>1, <2>2
<1>3. c \in CommandType
  BY <1>0, <1>1 DEF TypesOK
<1>4. c.op \in Ops /\ c.txn \in Nat /\ c.item \in Nat
  BY <1>3 DEF CommandType
<1> DEFINE e == Ack(c.op, c.txn, c.item, ok)
<1>5. e.op = c.op /\ e.item = c.item /\ e.ok = ok
  BY <1>4, AckFacts
<1>6. /\ commands' \in Seq(CommandType) /\ events' \in Seq(AckType)
      /\ lost \subseteq lost'
      /\ \E d \in {0, 1} :
            /\ Moved(Line, Line', d, {})
            /\ d = 1 => 1 \in DOMAIN Line /\ Line[1].item \in lost'
      /\ \A k \in DOMAIN events' :
            events'[k] = e \/ \E l \in DOMAIN events : events'[k] = events[l]
  BY <1>0, <1>1, <1>2, Answered
<1> HIDE DEF e, c
<1>7. /\ posted' \in [Items -> Nat]
      /\ \A i \in Items : posted'[i] >= posted[i]
      /\ c.op = "image" /\ ok /\ c.item \in Items => posted'[c.item] > 0
  BY <1>0, <1>2
<1>8. TypesOK'
  BY <1>0, <1>1, <1>6, <1>7 DEF TypesOK
<1>9. LineInv(Line)'
  <2>1. PICK d \in {0, 1} :
           /\ Moved(Line, Line', d, {})
           /\ d = 1 => 1 \in DOMAIN Line /\ Line[1].item \in lost'
    BY <1>6
  <2> QED
    BY <1>0, <1>1, <1>6, <2>1, IdleStepKeepsInv
<1>10. GoodIsPosted'
  <2> SUFFICES ASSUME NEW k \in DOMAIN events',
                      events'[k].op = "image", events'[k].ok, events'[k].item \in Items
               PROVE  posted'[events'[k].item] > 0
    BY DEF GoodIsPosted
  <2>1. CASE events'[k] = e
    BY <1>5, <1>7, <2>1
  <2>2. CASE \E l \in DOMAIN events : events'[k] = events[l]
    <3>1. posted[events'[k].item] > 0
      BY <1>0, <2>2 DEF GoodIsPosted
    <3>2. posted[events'[k].item] \in Nat /\ posted'[events'[k].item] \in Nat
      BY <1>0, <1>7
    <3> QED
      BY <1>7, <3>1, <3>2
  <2> QED
    BY <1>6, <2>1, <2>2
<1> QED
  BY <1>8, <1>9, <1>10 DEF OutboxInv

\* The event worker takes the answer to an upload.
LEMMA UploadAckedKeepsInv ==
    ASSUME OutboxInv, UploadAcked
    PROVE  OutboxInv'
<1> DEFINE u == Head(events).txn
           i == uploads[u]
<1>0. /\ TypesOK /\ LineInv(Line) /\ GoodIsPosted /\ nextTxn \in Nat \ {0} /\ autoTxn \in Nat
      /\ uploads \in [DOMAIN uploads -> Items] /\ DOMAIN uploads \subseteq Nat
  BY DEF OutboxInv, TypesOK
<1>1. /\ UNCHANGED <<nextTxn, posted, lost>>
      /\ events # <<>> /\ events' = Tail(events) /\ Head(events).op = "upload"
      /\ u \in DOMAIN uploads /\ uploads' = Without(uploads, u)
      /\ UploadSucceeds(i) \/ UploadFails(i)
  BY DEF UploadAcked
<1>2. i \in Items /\ i \in Nat
  BY <1>0, <1>1 DEF Items
<1>3. uploads' \in [DOMAIN uploads' -> Items] /\ DOMAIN uploads' \subseteq Nat
  BY <1>0, <1>1 DEF Without, Restrict
<1>4. GoodIsPosted'
  BY <1>0, <1>1, GoodStays
<1>5. CASE UploadSucceeds(i)
  <2> HIDE DEF i
  <2>1. /\ items' = MarkSending(i) /\ autoTxn' = autoTxn + 1
        /\ sends' = With(sends, autoTxn, i) /\ reused' = Reused(autoTxn, i)
        /\ commands' = Append(commands, Command("image", autoTxn, i))
    BY <1>5 DEF UploadSucceeds, Book
  <2>2. /\ Moved(Line, Line', 1, {Command("image", autoTxn, i)}) /\ 1 \in DOMAIN Line
        /\ Line[1].op = Head(events).op /\ Line[1].txn = Head(events).txn
        /\ events' \in Seq(AckType) /\ commands' \in Seq(CommandType)
    BY <1>0, <1>1, <1>2, <2>1, HandledAndAsked DEF Ops
  <2>3. Line[1].op = "upload" /\ Line[1].txn = u /\ Line[1].item = i
    BY <1>0, <1>1, <2>2 DEF LineInv, UploadsAreKnown, i
  <2>4. /\ items' \in [DOMAIN items' -> Row] /\ DOMAIN items' = DOMAIN items
        /\ \A j \in DOMAIN items :
              IF j = i THEN items'[j].status = "sending" ELSE items'[j] = items[j]
    BY <1>0, <2>1, RowFacts
  <2>5. sends' \in [DOMAIN sends' -> Items]
    BY <1>0, <1>2, <2>1 DEF With, TypesOK
  <2>6. autoTxn' \in Nat
    BY <1>0, <2>1
  <2>7. TypesOK'
    BY <1>0, <1>1, <1>3, <2>2, <2>4, <2>5, <2>6 DEF TypesOK
  <2>8. LineInv(Line)'
    BY <1>0, <1>1, <1>2, <2>1, <2>2, <2>3, <2>4, SendAskedKeepsInv
  <2> QED
    BY <1>4, <2>7, <2>8 DEF OutboxInv
<1>6. CASE UploadFails(i)
  <2>0. i = uploads[u]
    OBVIOUS
  <2> HIDE DEF i
  <2>1. items' = Mark(i, "uploadFailed") /\ UNCHANGED <<commands, autoTxn, sends, reused>>
    BY <1>6 DEF UploadFails
  <2>2. /\ Moved(Line, Line', 1, {}) /\ 1 \in DOMAIN Line
        /\ Line[1].op = Head(events).op /\ Line[1].txn = Head(events).txn
        /\ events' \in Seq(AckType)
    BY <1>0, <1>1, <2>1, Handled
  <2>3. /\ items' \in [DOMAIN items' -> Row] /\ DOMAIN items' = DOMAIN items
        /\ \A j \in DOMAIN items :
              IF j = i THEN items'[j].status = "uploadFailed" ELSE items'[j] = items[j]
    <3>1. "uploadFailed" \in Statuses
      BY DEF Statuses
    <3> QED
      BY <1>0, <2>1, <3>1, MarkFacts
  <2>4. TypesOK'
    BY <1>0, <1>1, <1>3, <2>1, <2>2, <2>3 DEF TypesOK
  <2>5. LineInv(Line)'
    <3>1. \A j \in DOMAIN items' :
             /\ j \in DOMAIN items
             /\ \/ j # i /\ items'[j].status = items[j].status
                \/ j = i /\ items'[j].status \in {"uploadFailed", "sendFailed"}
      BY <2>3
    <3>2. /\ Line[1].op = "upload" /\ i = uploads[Line[1].txn]
          /\ uploads' = Without(uploads, Line[1].txn)
      BY <1>1, <2>0, <2>2
    <3> HIDE DEF u
    <3> QED
      BY <1>0, <1>1, <1>2, <2>1, <2>2, <3>1, <3>2, SettledKeepsInv
  <2> QED
    BY <1>4, <2>4, <2>5 DEF OutboxInv
<1> QED
  BY <1>1, <1>5, <1>6

\* The event worker takes the answer to a send.
LEMMA ImageAckedKeepsInv ==
    ASSUME OutboxInv, ImageAcked
    PROVE  OutboxInv'
<1> DEFINE t == Head(events).txn
           i == sends[t]
<1>0. /\ TypesOK /\ LineInv(Line) /\ GoodIsPosted /\ nextTxn \in Nat \ {0} /\ autoTxn \in Nat
      /\ DOMAIN items \subseteq Items
  BY DEF OutboxInv, TypesOK
<1>1. /\ UNCHANGED <<nextTxn, autoTxn, uploads, commands, posted, lost, reused>>
      /\ events # <<>> /\ events' = Tail(events) /\ Head(events).op = "image"
  BY DEF ImageAcked, runtimeVars
<1>2. GoodIsPosted'
  BY <1>0, <1>1, GoodStays
<1>3. /\ Moved(Line, Line', 1, {}) /\ 1 \in DOMAIN Line
      /\ Line[1].op = Head(events).op /\ Line[1].txn = t
      /\ events' \in Seq(AckType)
  BY <1>0, <1>1, Handled
<1>4. CASE t \in DOMAIN sends
  <2>0. i \in Nat
    BY <1>0, <1>4 DEF TypesOK, Items
  <2>1. sends' = Without(sends, t) /\ (items' = Without(items, i) \/ items' = Mark(i, "sendFailed"))
    BY <1>4 DEF ImageAcked, SendAcked
  <2>2. /\ items' \in [DOMAIN items' -> Row] /\ DOMAIN items' \subseteq DOMAIN items
        /\ \A j \in DOMAIN items' :
              \/ j # i /\ items'[j].status = items[j].status
              \/ j = i /\ items'[j].status \in {"uploadFailed", "sendFailed"}
    <3>1. CASE items' = Without(items, i)
      <4>1. items \in [DOMAIN items -> Row]
        BY <1>0 DEF TypesOK
      <4>2. items' = [j \in DOMAIN items \ {i} |-> items[j]]
        BY <3>1, <4>1 DEF Without, Restrict
      <4> QED
        BY <4>1, <4>2
    <3>2. CASE items' = Mark(i, "sendFailed")
      <4>1. /\ items' \in [DOMAIN items' -> Row] /\ DOMAIN items' = DOMAIN items
            /\ \A j \in DOMAIN items :
                  IF j = i THEN items'[j].status = "sendFailed" ELSE items'[j] = items[j]
        <5>1. "sendFailed" \in Statuses
          BY DEF Statuses
        <5> QED
          BY <1>0, <3>2, <5>1, MarkFacts
      <4> QED
        BY <4>1
    <3> QED
      BY <2>1, <3>1, <3>2
  <2>3. sends' \in [DOMAIN sends' -> Items]
    BY <1>0, <2>1 DEF Without, Restrict, TypesOK
  <2>4. TypesOK'
    BY <1>0, <1>1, <1>3, <2>2, <2>3 DEF TypesOK
  <2>5. LineInv(Line)'
    <3>1. \A j \in DOMAIN items' :
             /\ j \in DOMAIN items
             /\ \/ j # i /\ items'[j].status = items[j].status
                \/ j = i /\ items'[j].status \in {"uploadFailed", "sendFailed"}
      BY <2>2
    <3>2. Line[1].op = "image" /\ i = sends[Line[1].txn] /\ sends' = Without(sends, Line[1].txn)
      BY <1>1, <1>3, <2>1
    <3> HIDE DEF i, t
    <3> QED
      BY <1>0, <1>1, <1>3, <2>0, <3>1, <3>2, SettledKeepsInv
  <2> QED
    BY <1>2, <2>4, <2>5 DEF OutboxInv
<1>5. CASE t \notin DOMAIN sends
  <2>1. UNCHANGED <<items, sends>>
    BY <1>5 DEF ImageAcked
  <2>2. TypesOK'
    BY <1>0, <1>1, <1>3, <2>1 DEF TypesOK
  <2>3. sends' = Without(sends, t)
    BY <1>0, <1>5, <2>1 DEF Without, Restrict, TypesOK
  <2>4. \A j \in DOMAIN items' : j \in DOMAIN items /\ j # 0 /\ items'[j].status = items[j].status
    BY <1>0, <2>1 DEF Items
  <2>5. /\ Line[1].op = "image" /\ Line[1].txn \notin DOMAIN sends
        /\ sends' = Without(sends, Line[1].txn)
    BY <1>1, <1>3, <1>5, <2>3
  <2>6. LineInv(Line)'
    <3> HIDE DEF t, i
    <3> QED
      BY <1>0, <1>1, <1>3, <2>4, <2>5, SettledKeepsInv
  <2> QED
    BY <1>2, <2>2, <2>6 DEF OutboxInv
<1> QED
  BY <1>4, <1>5

\* The event worker takes another answer.
LEMMA OtherAnswersKeepInv ==
    ASSUME OutboxInv, TextAcked \/ LoggedOut
    PROVE  OutboxInv'
<1>0. TypesOK /\ LineInv(Line) /\ GoodIsPosted /\ nextTxn \in Nat \ {0} /\ autoTxn \in Nat
  BY DEF OutboxInv, TypesOK
<1>1. /\ UNCHANGED <<items, nextTxn, autoTxn, uploads, sends, commands, posted, lost, reused>>
      /\ events # <<>> /\ events' = Tail(events)
      /\ Head(events).op \notin {"upload", "image"}
  BY DEF TextAcked, LoggedOut, txnVars, runtimeVars
<1>2. /\ Moved(Line, Line', 1, {}) /\ 1 \in DOMAIN Line
      /\ Line[1].op = Head(events).op
      /\ events' \in Seq(AckType)
  BY <1>0, <1>1, Handled
<1>3. TypesOK'
  BY <1>0, <1>1, <1>2 DEF TypesOK
<1>4. LineInv(Line)'
  BY <1>0, <1>1, <1>2, IdleStepKeepsInv
<1>5. GoodIsPosted'
  BY <1>0, <1>1, GoodStays
<1> QED
  BY <1>3, <1>4, <1>5 DEF OutboxInv

LEMMA NextKeeps == OutboxInv /\ [Next]_vars => OutboxInv'
<1> SUFFICES ASSUME OutboxInv, [Next]_vars PROVE OutboxInv'
  OBVIOUS
<1>1. CASE UNCHANGED vars
  <2>1. /\ UNCHANGED <<items, nextTxn, autoTxn, uploads, sends, commands, events, posted,
                       lost, reused>>
    BY <1>1 DEF vars, uiVars, txnVars, runtimeVars
  <2> QED
    BY <2>1 DEF OutboxInv, TypesOK, LineInv, IdsAreDrawn, UploadsAreKnown, SendsAreKnown,
                RowsAreAwaited, GoodIsPosted, Line
<1>2. CASE \E readable \in BOOLEAN : SendAttachment(readable)
  <2>1. SendAttachment(TRUE) \/ SendAttachment(FALSE)
    BY <1>2
  <2> QED
    BY <2>1, SendAttachmentKeepsInv, QuietStepsKeepInv
<1>3. CASE \E i \in Items : Retry(i) \/ Remove(i)
  BY <1>3, RetryKeepsInv, QuietStepsKeepInv
<1>4. CASE SelectRoom \/ PickAttachment \/ ClearAttachment \/ Draw \/ Login \/ Downloads
  BY <1>4, QuietStepsKeepInv
<1>5. CASE SendText \/ Logout
  BY <1>5, OtherCommandsKeepInv
<1>6. CASE Execute \/ ExecuteLogout
  BY <1>6, RuntimeKeepsInv
<1>7. CASE UploadAcked \/ ImageAcked \/ TextAcked \/ LoggedOut
  BY <1>7, UploadAckedKeepsInv, ImageAckedKeepsInv, OtherAnswersKeepInv
<1> QED
  BY <1>1, <1>2, <1>3, <1>4, <1>5, <1>6, <1>7 DEF Next

-----------------------------------------------------------------------------
(* How often an item is posted.                                            *)

\* The places of a queue that are about item i and of one of these kinds.
Places(s, ops, i) == {k \in 1..Len(s) : s[k].op \in ops /\ s[k].item = i}
HowMany(s, ops, i) == Cardinality(Places(s, ops, i))

LEMMA PlacesAreFinite ==
    ASSUME NEW T, NEW s \in Seq(T), NEW ops, NEW i
    PROVE  /\ IsFiniteSet(Places(s, ops, i)) /\ HowMany(s, ops, i) \in Nat
           /\ HowMany(<<>>, ops, i) = 0
<1>1. IsFiniteSet(1..Len(s))
  BY FS_Interval
<1>2. Places(s, ops, i) \in SUBSET (1..Len(s))
  BY DEF Places
<1>3. Places(<<>>, ops, i) = {}
  BY DEF Places
<1> QED
  BY <1>1, <1>2, <1>3, FS_Subset, FS_CardinalityType, FS_EmptySet DEF HowMany

LEMMA HowManyGrows ==
    ASSUME NEW T, NEW s \in Seq(T), NEW c \in T, NEW ops, NEW i
    PROVE  HowMany(Append(s, c), ops, i)
              = HowMany(s, ops, i) + (IF c.op \in ops /\ c.item = i THEN 1 ELSE 0)
<1> DEFINE more == Append(s, c)
           n == Len(s) + 1
<1>1. /\ Len(s) \in Nat /\ Len(more) = n /\ more[n] = c
      /\ \A k \in 1..Len(s) : more[k] = s[k]
      /\ 1..n = 1..Len(s) \cup {n} /\ n \notin 1..Len(s)
  OBVIOUS
<1> HIDE DEF more, n
<1>2. IsFiniteSet(Places(s, ops, i)) /\ HowMany(s, ops, i) \in Nat
  BY PlacesAreFinite
<1>3. n \notin Places(s, ops, i)
  BY <1>1 DEF Places
<1>4. CASE c.op \in ops /\ c.item = i
  <2>1. Places(more, ops, i) = Places(s, ops, i) \cup {n}
    BY <1>1, <1>4 DEF Places
  <2> QED
    BY <1>2, <1>3, <1>4, <2>1, FS_AddElement DEF HowMany, more
<1>5. CASE ~(c.op \in ops /\ c.item = i)
  <2>1. Places(more, ops, i) = Places(s, ops, i)
    BY <1>1, <1>5 DEF Places
  <2> QED
    BY <1>2, <1>5, <2>1 DEF HowMany, more
<1> QED
  BY <1>4, <1>5

LEMMA HowManyShrinks ==
    ASSUME NEW T, NEW s \in Seq(T), s # <<>>, NEW ops, NEW i
    PROVE  HowMany(s, ops, i) = HowMany(Tail(s), ops, i)
              + (IF Head(s).op \in ops /\ Head(s).item = i THEN 1 ELSE 0)
<1> DEFINE rest == Tail(s)
           shift == [k \in Places(rest, ops, i) |-> k + 1]
<1>1. /\ rest \in Seq(T) /\ Len(s) \in Nat /\ Len(rest) = Len(s) - 1 /\ Len(s) >= 1
      /\ \A k \in 1..Len(rest) : rest[k] = s[k + 1]
      /\ Head(s) = s[1]
  OBVIOUS
<1>2. IsFiniteSet(Places(rest, ops, i)) /\ HowMany(rest, ops, i) \in Nat
  BY <1>1, PlacesAreFinite
<1>3. IsFiniteSet(Places(s, ops, i))
  BY PlacesAreFinite
<1> HIDE DEF rest
<1>4. shift \in Bijection(Places(rest, ops, i), Places(s, ops, i) \ {1})
  <2>1. shift \in [Places(rest, ops, i) -> Places(s, ops, i) \ {1}]
    BY <1>1 DEF Places
  <2>2. ASSUME NEW k \in Places(rest, ops, i), NEW l \in Places(rest, ops, i),
               shift[k] = shift[l]
        PROVE  k = l
    BY <2>2 DEF Places
  <2>3. ASSUME NEW k \in Places(s, ops, i) \ {1}
        PROVE  \E l \in Places(rest, ops, i) : shift[l] = k
    <3>1. k - 1 \in Places(rest, ops, i) /\ (k - 1) + 1 = k
      BY <1>1 DEF Places
    <3> QED
      BY <3>1
  <2> QED
    BY <2>1, <2>2, <2>3, Fun_IsBij
<1>5. Cardinality(Places(s, ops, i) \ {1}) = HowMany(rest, ops, i)
  BY <1>2, <1>4, FS_Bijection DEF HowMany, ExistsBijection
<1>6. 1 \in Places(s, ops, i) <=> Head(s).op \in ops /\ Head(s).item = i
  BY <1>1 DEF Places
<1>7. HowMany(s, ops, i) \in Nat
  BY PlacesAreFinite
<1>8. Cardinality(Places(s, ops, i) \ {1}) = IF 1 \in Places(s, ops, i)
                                              THEN HowMany(s, ops, i) - 1
                                              ELSE HowMany(s, ops, i)
  BY <1>3, FS_RemoveElement DEF HowMany
<1> HIDE DEF shift
<1>9. HowMany(s, ops, i) = HowMany(rest, ops, i)
         + (IF Head(s).op \in ops /\ Head(s).item = i THEN 1 ELSE 0)
  BY <1>2, <1>5, <1>6, <1>7, <1>8
<1> QED
  BY <1>9 DEF rest

\* A post that is still to come needs a command, or an upload answered and not
\* handled.  Each is one that the send button or a retry allows.
UploadsDue(i) == HowMany(events, {"upload"}, i)
CommandsDue(i) == HowMany(commands, {"upload", "image"}, i)
Allowed(i) == IF i < nextTxn THEN 1 + retries[i] ELSE 0

CountInv ==
    /\ retries \in [Items -> Nat]
    /\ \A i \in Items : posted[i] + UploadsDue(i) + CommandsDue(i) <= Allowed(i)

LEMMA DueIsNat ==
    ASSUME TypesOK, CountInv, NEW i \in Items
    PROVE  /\ UploadsDue(i) \in Nat /\ CommandsDue(i) \in Nat
           /\ posted[i] \in Nat /\ retries[i] \in Nat /\ i \in Nat /\ nextTxn \in Nat
           /\ posted[i] + UploadsDue(i) + CommandsDue(i) <= Allowed(i)
<1>1. UploadsDue(i) \in Nat /\ CommandsDue(i) \in Nat
  BY PlacesAreFinite DEF UploadsDue, CommandsDue, TypesOK
<1> QED
  BY <1>1 DEF TypesOK, CountInv, Items

\* Steps that ask for nothing.
LEMMA QuietStepsKeepCount ==
    ASSUME TypesOK, CountInv, UNCHANGED <<events, commands, posted, retries>>,
           nextTxn' \in Nat, nextTxn <= nextTxn'
    PROVE  CountInv'
<1>1. ASSUME NEW i \in Items
      PROVE  posted'[i] + UploadsDue(i)' + CommandsDue(i)' <= Allowed(i)'
  <2>1. UploadsDue(i)' = UploadsDue(i) /\ CommandsDue(i)' = CommandsDue(i)
    BY DEF UploadsDue, CommandsDue
  <2>2. Allowed(i) <= Allowed(i)'
    BY DueIsNat DEF Allowed
  <2>3. Allowed(i) \in Nat /\ Allowed(i)' \in Nat
    BY DueIsNat DEF Allowed
  <2> QED
    BY <2>1, <2>2, <2>3, DueIsNat
<1> QED
  BY <1>1 DEF CountInv

\* A text or a logout is asked for; or an upload or a send of an item that has
\* one more to its credit.
LEMMA AskingKeepsCount ==
    ASSUME TypesOK, CountInv, UNCHANGED <<events, posted>>,
           NEW op \in Ops, NEW t \in Nat, NEW j \in Nat,
           commands' = Append(commands, Command(op, t, j)),
           retries' \in [Items -> Nat], nextTxn' \in Nat, nextTxn <= nextTxn',
           \A i \in Items : retries[i] <= retries'[i],
           op \in {"upload", "image"} /\ j \in Items => Allowed(j) + 1 <= Allowed(j)'
    PROVE  CountInv'
<1>1. ASSUME NEW i \in Items
      PROVE  posted'[i] + UploadsDue(i)' + CommandsDue(i)' <= Allowed(i)'
  <2>1. UploadsDue(i)' = UploadsDue(i)
    BY DEF UploadsDue
  <2>2. CommandsDue(i)' = CommandsDue(i)
           + (IF op \in {"upload", "image"} /\ j = i THEN 1 ELSE 0)
    <3>1. /\ Command(op, t, j) \in CommandType /\ Command(op, t, j).op = op
          /\ Command(op, t, j).item = j
      BY CommandFacts
    <3> QED
      BY <3>1, HowManyGrows DEF CommandsDue, TypesOK
  <2>3. retries[i] \in Nat /\ retries'[i] \in Nat /\ retries[i] <= retries'[i]
    BY DueIsNat
  <2>4. Allowed(i) <= Allowed(i)' /\ Allowed(i) \in Nat /\ Allowed(i)' \in Nat
    BY <2>3, DueIsNat DEF Allowed
  <2>5. op \in {"upload", "image"} /\ j = i => Allowed(i) + 1 <= Allowed(i)'
    OBVIOUS
  <2>6. /\ UploadsDue(i) \in Nat /\ CommandsDue(i) \in Nat /\ posted[i] \in Nat
        /\ posted[i] + UploadsDue(i) + CommandsDue(i) <= Allowed(i) /\ posted'[i] = posted[i]
    BY DueIsNat
  <2>7. CASE op \in {"upload", "image"} /\ j = i
    <3>1. CommandsDue(i)' = CommandsDue(i) + 1
      BY <2>2, <2>7
    <3> QED
      BY <2>1, <2>4, <2>5, <2>6, <2>7, <3>1
  <2>8. CASE ~(op \in {"upload", "image"} /\ j = i)
    <3>1. CommandsDue(i)' = CommandsDue(i)
      BY <2>2, <2>6, <2>8
    <3> QED
      BY <2>1, <2>4, <2>6, <3>1
  <2> QED
    BY <2>7, <2>8
<1> QED
  BY <1>1 DEF CountInv

\* The runtime executes a command: what was due is posted, or due as an answer.
LEMMA RuntimeKeepsCount ==
    ASSUME TypesOK, CountInv, Execute \/ ExecuteLogout
    PROVE  CountInv'
<1> DEFINE c == Head(commands)
<1>0. /\ commands \in Seq(CommandType) /\ events \in Seq(AckType)
      /\ commands # <<>> /\ commands' = Tail(commands)
      /\ retries' = retries /\ nextTxn' = nextTxn /\ posted \in [Items -> Nat]
  BY DEF TypesOK, Execute, ExecuteLogout, uiVars, txnVars
<1>1. PICK ok \in BOOLEAN :
         /\ Emit(Ack(c.op, c.txn, c.item, ok))
         /\ \/ posted' = posted
            \/ c.op = "image" /\ posted' = [posted EXCEPT ![c.item] = @ + 1]
  <2>1. CASE Execute
    BY <2>1 DEF Execute
  <2>2. CASE ExecuteLogout
    BY <2>2 DEF ExecuteLogout
  <2> QED
    BY <2>1, <2>2
<1>2. c \in CommandType /\ c.op \in Ops /\ c.txn \in Nat /\ c.item \in Nat
  <2>1. c \in CommandType
    BY <1>0
  <2> QED
    BY <2>1 DEF CommandType
<1> DEFINE e == Ack(c.op, c.txn, c.item, ok)
<1>3. e \in AckType /\ e.op = c.op /\ e.item = c.item
  BY <1>2, AckFacts
<1> HIDE DEF e
<1>4. events' = Append(events, e) \/ (events # <<>> /\ events' = Append(Tail(events), e))
  <2>1. CASE Len(events) = Capacity
    BY <1>0, <1>1, <2>1, OutboxAssumption DEF Emit, e
  <2>2. CASE Len(events) # Capacity
    BY <1>1, <2>2 DEF Emit, e
  <2> QED
    BY <2>1, <2>2
<1> HIDE DEF c
<1>5. ASSUME NEW i \in Items
      PROVE  posted'[i] + UploadsDue(i)' + CommandsDue(i)' <= Allowed(i)'
  <2>1. CommandsDue(i) = CommandsDue(i)'
           + (IF c.op \in {"upload", "image"} /\ c.item = i THEN 1 ELSE 0)
    BY <1>0, HowManyShrinks DEF CommandsDue, c
  <2>2. CommandsDue(i)' \in Nat
    <3>1. Tail(commands) \in Seq(CommandType)
      BY <1>0
    <3> QED
      BY <1>0, <3>1, PlacesAreFinite DEF CommandsDue
  <2>3. /\ UploadsDue(i)' \in Nat
        /\ UploadsDue(i)' <= UploadsDue(i) + (IF c.op = "upload" /\ c.item = i THEN 1 ELSE 0)
    <3>1. CASE events' = Append(events, e)
      <4>1. UploadsDue(i)' = UploadsDue(i) + (IF e.op \in {"upload"} /\ e.item = i THEN 1 ELSE 0)
        BY <1>0, <1>3, <3>1, HowManyGrows DEF UploadsDue
      <4> QED
        BY <1>3, <4>1, DueIsNat
    <3>2. CASE events # <<>> /\ events' = Append(Tail(events), e)
      <4>1. Tail(events) \in Seq(AckType)
        BY <1>0, <3>2
      <4>2. UploadsDue(i)' = HowMany(Tail(events), {"upload"}, i)
               + (IF e.op \in {"upload"} /\ e.item = i THEN 1 ELSE 0)
        <5>1. UploadsDue(i)' = HowMany(Append(Tail(events), e), {"upload"}, i)
          BY <3>2 DEF UploadsDue
        <5>2. PICK rest \in Seq(AckType) : rest = Tail(events)
          BY <4>1
        <5>3. HowMany(Append(rest, e), {"upload"}, i) = HowMany(rest, {"upload"}, i)
                 + (IF e.op \in {"upload"} /\ e.item = i THEN 1 ELSE 0)
          BY <1>3, HowManyGrows
        <5> QED
          BY <5>1, <5>2, <5>3
      <4>3. UploadsDue(i) = HowMany(Tail(events), {"upload"}, i)
               + (IF Head(events).op \in {"upload"} /\ Head(events).item = i THEN 1 ELSE 0)
        BY <1>0, <3>2, HowManyShrinks DEF UploadsDue
      <4>4. HowMany(Tail(events), {"upload"}, i) \in Nat
        BY <4>1, PlacesAreFinite
      <4> QED
        BY <1>3, <4>2, <4>3, <4>4
    <3> QED
      BY <1>4, <3>1, <3>2
  <2>4. /\ posted'[i] \in Nat
        /\ posted'[i] <= posted[i] + (IF c.op = "image" /\ c.item = i THEN 1 ELSE 0)
    <3>1. posted[i] \in Nat
      BY <1>0
    <3> QED
      BY <1>0, <1>1, <3>1
  <2>5. Allowed(i)' = Allowed(i) /\ Allowed(i) \in Nat
    BY <1>0, DueIsNat DEF Allowed
  <2>6. CASE c.item # i
    BY <2>1, <2>2, <2>3, <2>4, <2>5, <2>6, DueIsNat
  <2>7. CASE c.item = i /\ c.op = "upload"
    BY <2>1, <2>2, <2>3, <2>4, <2>5, <2>7, DueIsNat
  <2>8. CASE c.item = i /\ c.op # "upload"
    BY <2>1, <2>2, <2>3, <2>4, <2>5, <2>8, DueIsNat
  <2> QED
    BY <2>6, <2>7, <2>8
<1>6. retries' \in [Items -> Nat]
  BY <1>0 DEF CountInv
<1> QED
  BY <1>5, <1>6 DEF CountInv

\* The event worker takes an answer: a good upload's makes way for a send.
LEMMA HandlingKeepsCount ==
    ASSUME OutboxInv, CountInv, HandleEvent
    PROVE  CountInv'
<1> DEFINE a == Head(events)
<1>0. /\ TypesOK /\ LineInv(Line)
      /\ commands \in Seq(CommandType) /\ events \in Seq(AckType) /\ autoTxn \in Nat
      /\ events # <<>> /\ events' = Tail(events)
      /\ retries' = retries /\ nextTxn' = nextTxn /\ posted' = posted
  BY DEF OutboxInv, TypesOK, HandleEvent, UploadAcked, ImageAcked, TextAcked, LoggedOut,
         txnVars, runtimeVars
<1>1. \/ commands' = commands
      \/ /\ a.op = "upload" /\ a.txn \in DOMAIN uploads
         /\ commands' = Append(commands, Command("image", autoTxn, uploads[a.txn]))
  BY DEF HandleEvent, UploadAcked, UploadSucceeds, UploadFails, ImageAcked, TextAcked,
         LoggedOut, runtimeVars
<1>2. a.op = "upload" /\ a.txn \in DOMAIN uploads => uploads[a.txn] = a.item
  <2>1. /\ 1 \in DOMAIN Line /\ Line[1].op = a.op /\ Line[1].txn = a.txn
        /\ Line[1].item = a.item
    <3>1. 1 \in DOMAIN Line /\ Line[1] = Note(a)
      BY <1>0, LineShrinks DEF Line
    <3> QED
      BY <1>0, <3>1, NoteFacts
  <2> QED
    BY <1>0, <2>1 DEF LineInv, UploadsAreKnown
<1>3. a.op \in Ops /\ a.item \in Nat
  <2>1. a \in AckType
    BY <1>0
  <2> QED
    BY <2>1 DEF AckType
<1> HIDE DEF a
<1>4. ASSUME NEW i \in Items
      PROVE  posted'[i] + UploadsDue(i)' + CommandsDue(i)' <= Allowed(i)'
  <2>1. /\ UploadsDue(i) = UploadsDue(i)' + (IF a.op \in {"upload"} /\ a.item = i THEN 1 ELSE 0)
        /\ UploadsDue(i)' \in Nat
    <3>1. Tail(events) \in Seq(AckType)
      BY <1>0
    <3>2. UploadsDue(i)' = HowMany(Tail(events), {"upload"}, i)
      BY <1>0 DEF UploadsDue
    <3>3. UploadsDue(i) = HowMany(Tail(events), {"upload"}, i)
             + (IF Head(events).op \in {"upload"} /\ Head(events).item = i THEN 1 ELSE 0)
      BY <1>0, HowManyShrinks DEF UploadsDue
    <3>4. HowMany(Tail(events), {"upload"}, i) \in Nat
      BY <3>1, PlacesAreFinite
    <3> QED
      BY <3>2, <3>3, <3>4 DEF a
  <2>2. Allowed(i)' = Allowed(i) /\ Allowed(i) \in Nat
    BY <1>0, DueIsNat DEF Allowed
  <2>3. CASE commands' = commands
    <3>1. CommandsDue(i)' = CommandsDue(i)
      BY <2>3 DEF CommandsDue
    <3> QED
      BY <1>0, <2>1, <2>2, <3>1, DueIsNat
  <2>4. CASE /\ a.op = "upload" /\ a.txn \in DOMAIN uploads
             /\ commands' = Append(commands, Command("image", autoTxn, uploads[a.txn]))
    <3>1. /\ Command("image", autoTxn, a.item) \in CommandType
          /\ Command("image", autoTxn, a.item).op = "image"
          /\ Command("image", autoTxn, a.item).item = a.item
      BY <1>0, <1>3, CommandFacts DEF Ops
    <3>2. commands' = Append(commands, Command("image", autoTxn, a.item))
      BY <1>2, <2>4
    <3>3. CommandsDue(i)' = CommandsDue(i) + (IF a.item = i THEN 1 ELSE 0)
      BY <1>0, <3>1, <3>2, HowManyGrows DEF CommandsDue
    <3>4. CommandsDue(i)' + UploadsDue(i)' = CommandsDue(i) + UploadsDue(i)
      BY <2>1, <2>4, <3>3, DueIsNat, <1>0
    <3>5. CommandsDue(i)' \in Nat
      BY <1>0, <3>3, DueIsNat
    <3>6. /\ UploadsDue(i) \in Nat /\ CommandsDue(i) \in Nat /\ posted[i] \in Nat
          /\ posted[i] + UploadsDue(i) + CommandsDue(i) <= Allowed(i)
          /\ posted'[i] = posted[i] /\ UploadsDue(i)' \in Nat
      BY <1>0, <2>1, DueIsNat
    <3> QED
      BY <2>2, <3>4, <3>5, <3>6
  <2> QED
    BY <1>1, <2>3, <2>4
<1>5. retries' \in [Items -> Nat]
  BY <1>0 DEF CountInv
<1> QED
  BY <1>4, <1>5 DEF CountInv

LEMMA CountIsKept == OutboxInv /\ CountInv /\ [Next]_vars => CountInv'
<1> SUFFICES ASSUME OutboxInv, CountInv, [Next]_vars PROVE CountInv'
  OBVIOUS
<1>0. /\ TypesOK /\ LineInv(Line) /\ nextTxn \in Nat \ {0} /\ retries \in [Items -> Nat]
      /\ \A i \in DOMAIN items : i < nextTxn
  BY DEF OutboxInv, TypesOK, CountInv, LineInv, IdsAreDrawn
<1>1. CASE \/ SelectRoom \/ PickAttachment \/ ClearAttachment \/ Draw \/ Login \/ Downloads
           \/ SendAttachment(FALSE) \/ (\E i \in Items : Remove(i)) \/ UNCHANGED vars
  <2>1. UNCHANGED <<events, commands, posted, retries>> /\ nextTxn' \in {nextTxn, nextTxn + 1}
    BY <1>1 DEF SelectRoom, PickAttachment, ClearAttachment, Draw, Login, Downloads,
                SendAttachment, Remove, vars, uiVars, txnVars, runtimeVars
  <2> QED
    BY <1>0, <2>1, QuietStepsKeepCount
<1>2. CASE SendText \/ Logout
  <2>1. PICK op \in {"text", "logout"}, t \in Nat :
           commands' = Append(commands, Command(op, t, 0))
    BY <1>0, <1>2 DEF SendText, Logout
  <2>2. UNCHANGED <<events, posted, retries>> /\ nextTxn' \in {nextTxn, nextTxn + 1}
    BY <1>2 DEF SendText, Logout, txnVars
  <2>3. nextTxn' \in Nat /\ nextTxn <= nextTxn'
    BY <1>0, <2>2
  <2>4. \A i \in Items : retries[i] <= retries'[i]
    BY <1>0, <2>2
  <2>5. op \in Ops /\ 0 \in Nat /\ op \notin {"upload", "image"}
    BY <2>1 DEF Ops
  <2> QED
    BY <1>0, <2>1, <2>2, <2>3, <2>4, <2>5, AskingKeepsCount
<1>3. CASE SendAttachment(TRUE)
  <2>1. /\ UNCHANGED <<events, posted, retries>>
        /\ commands' = Append(commands, Command("upload", nextTxn + 1, nextTxn))
        /\ nextTxn' = nextTxn + 2
    BY <1>3 DEF SendAttachment
  <2>0. PICK i : i = nextTxn
    OBVIOUS
  <2>2. /\ nextTxn' \in Nat /\ nextTxn <= nextTxn' /\ nextTxn + 1 \in Nat /\ i \in Nat
        /\ commands' = Append(commands, Command("upload", nextTxn + 1, i))
    BY <1>0, <2>0, <2>1
  <2>3. i \in Items => Allowed(i) + 1 <= Allowed(i)'
    BY <1>0, <2>0, <2>1 DEF Allowed
  <2>4. \A j \in Items : retries[j] <= retries'[j]
    BY <1>0, <2>1
  <2>5. "upload" \in Ops
    BY DEF Ops
  <2>6. retries' \in [Items -> Nat]
    BY <1>0, <2>1
  <2> QED
    BY <1>0, <2>1, <2>2, <2>3, <2>4, <2>5, <2>6, AskingKeepsCount
<1>4. CASE \E i \in Items : Retry(i)
  <2>1. PICK i \in Items : Retry(i)
    BY <1>4
  <2>2. PICK op \in {"upload", "image"} :
           commands' = Append(commands, Command(op, nextTxn, i))
    BY <2>1 DEF Retry
  <2>3. /\ UNCHANGED <<events, posted>> /\ nextTxn' = nextTxn + 1
        /\ retries' = [retries EXCEPT ![i] = @ + 1] /\ i \in DOMAIN items
    BY <2>1 DEF Retry
  <2>4. /\ nextTxn' \in Nat /\ nextTxn <= nextTxn' /\ nextTxn \in Nat /\ i \in Nat
        /\ retries[i] \in Nat /\ retries' \in [Items -> Nat]
        /\ retries'[i] = retries[i] + 1
    BY <1>0, <2>3 DEF Items
  <2>5. Allowed(i) + 1 <= Allowed(i)'
    BY <1>0, <2>3, <2>4 DEF Allowed
  <2>6. \A j \in Items : retries[j] <= retries'[j]
    BY <1>0, <2>3
  <2>7. op \in Ops
    BY <2>2 DEF Ops
  <2> QED
    BY <1>0, <2>2, <2>3, <2>4, <2>5, <2>6, <2>7, AskingKeepsCount
<1>5. CASE Execute \/ ExecuteLogout
  BY <1>0, <1>5, RuntimeKeepsCount
<1>6. CASE UploadAcked \/ ImageAcked \/ TextAcked \/ LoggedOut
  BY <1>6, HandlingKeepsCount DEF HandleEvent
<1>7. CASE \E readable \in BOOLEAN : SendAttachment(readable)
  <2>1. SendAttachment(TRUE) \/ SendAttachment(FALSE)
    BY <1>7
  <2> QED
    BY <1>1, <1>3, <2>1
<1> QED
  BY <1>1, <1>2, <1>4, <1>5, <1>6, <1>7 DEF Next

-----------------------------------------------------------------------------
(* Theorems.                                                               *)

\* The inductive invariant holds for every value of the constants.
THEOREM OutboxInvariant == Spec => []OutboxInv
  BY InitEstablishes, NextKeeps, PTL DEF Spec

\* A row that is uploading or sending, and so offers no retry, has an answer on
\* its way that will find it, unless the event stream dropped it or the two
\* counters of the bridge gave one id to two sends.
THEOREM InFlightAlwaysAwaited == Spec => []InFlightIsAwaited
<1>1. OutboxInv => InFlightIsAwaited
  <2> SUFFICES ASSUME OutboxInv PROVE InFlightIsAwaited
    OBVIOUS
  <2>1. events \in Seq(AckType) /\ commands \in Seq(CommandType)
    BY DEF OutboxInv, TypesOK
  <2>2. ASSUME NEW k \in DOMAIN Line PROVE Pending(Line[k].op, Line[k].txn)
    <3>1. /\ Len(events) \in Nat /\ Len(commands) \in Nat
          /\ DOMAIN Line = 1..(Len(events) + Len(commands))
          /\ k <= Len(events) => Line[k] = Note(events[k])
          /\ k > Len(events) => Line[k] = Note(commands[k - Len(events)])
      BY <2>1, LineFacts DEF Line
    <3>2. CASE k <= Len(events)
      <4>1. k \in DOMAIN events
        BY <2>1, <3>1, <3>2
      <4>2. events[k] \in AckType /\ events[k] \in Range(events)
        BY <2>1, <4>1 DEF Range
      <4> QED
        BY <3>1, <3>2, <4>2, NoteFacts DEF Pending
    <3>3. CASE k > Len(events)
      <4>1. k - Len(events) \in DOMAIN commands
        BY <2>1, <3>1, <3>3
      <4>2. /\ commands[k - Len(events)] \in CommandType
            /\ commands[k - Len(events)] \in Range(commands)
        BY <2>1, <4>1 DEF Range
      <4> QED
        BY <3>1, <3>3, <4>2, NoteFacts DEF Pending
    <3> QED
      BY <3>1, <3>2, <3>3
  <2> SUFFICES ASSUME NEW i \in DOMAIN items \ (lost \cup reused)
               PROVE  /\ items[i].status = "uploading" =>
                            \E t \in DOMAIN uploads : uploads[t] = i /\ Pending("upload", t)
                      /\ items[i].status = "sending" =>
                            \E t \in DOMAIN sends : sends[t] = i /\ Pending("image", t)
    BY DEF InFlightIsAwaited
  <2>3. CASE items[i].status = "uploading"
    <3>1. PICK t \in DOMAIN uploads, k \in DOMAIN Line :
             uploads[t] = i /\ Line[k].op = "upload" /\ Line[k].txn = t
      BY <2>3 DEF OutboxInv, LineInv, RowsAreAwaited
    <3> QED
      BY <2>2, <2>3, <3>1
  <2>4. CASE items[i].status = "sending"
    <3>1. PICK t \in DOMAIN sends, k \in DOMAIN Line :
             sends[t] = i /\ Line[k].op = "image" /\ Line[k].txn = t
      BY <2>4 DEF OutboxInv, LineInv, RowsAreAwaited
    <3> QED
      BY <2>2, <2>4, <3>1
  <2> QED
    BY <2>3, <2>4
<1> QED
  BY <1>1, OutboxInvariant, PTL

\* Only the user, and a good answer to a send that was posted, take an item off
\* the list; an item that shared its transaction id excepted.
THEOREM AlwaysListedUntilPosted == Spec => ListedUntilPosted
<1>1. OutboxInv /\ [Next]_vars =>
         [\A i \in DOMAIN items \ DOMAIN items' :
             \/ Remove(i)
             \/ posted[i] > 0
             \/ i \in reused]_vars
  <2> SUFFICES ASSUME OutboxInv, Next, NEW i \in DOMAIN items \ DOMAIN items'
               PROVE  Remove(i) \/ posted[i] > 0 \/ i \in reused
    OBVIOUS
  <2>0. TypesOK /\ LineInv(Line) /\ GoodIsPosted /\ DOMAIN items \subseteq Items
    BY DEF OutboxInv, TypesOK
  <2>1. CASE ImageAcked
    <3> DEFINE t == Head(events).txn
    <3>1. /\ events # <<>> /\ events' = Tail(events) /\ commands' = commands
          /\ Head(events).op = "image" /\ t \in DOMAIN sends
          /\ items' = SendAcked(sends[t], Head(events).ok)
      BY <2>1 DEF ImageAcked, runtimeVars
    <3>2. items' = Without(items, sends[t]) /\ Head(events).ok
      <4>1. "sendFailed" \in Statuses
        BY DEF Statuses
      <4>2. DOMAIN Mark(sends[t], "sendFailed") = DOMAIN items
        BY <2>0, <4>1, MarkFacts
      <4> QED
        BY <3>1, <4>2 DEF SendAcked
    <3>3. i = sends[t]
      BY <3>2 DEF Without, Restrict
    <3>4. /\ 1 \in DOMAIN Line /\ Line[1].op = "image" /\ Line[1].txn = t
          /\ Line[1].item = Head(events).item
      BY <2>0, <3>1, Handled
    <3>5. sends[t] = Head(events).item \/ sends[t] \in reused
      BY <2>0, <3>1, <3>4 DEF LineInv, SendsAreKnown
    <3>6. 1 \in DOMAIN events /\ events[1] = Head(events)
      BY <2>0, <3>1 DEF TypesOK
    <3> QED
      BY <2>0, <3>1, <3>2, <3>3, <3>5, <3>6 DEF GoodIsPosted
  <2>2. CASE \E j \in Items : Remove(j)
    BY <2>2 DEF Remove, Without, Restrict
  <2>3. CASE \E readable \in BOOLEAN : SendAttachment(readable)
    BY <2>3 DEF SendAttachment, With
  <2>4. CASE \E j \in Items : Retry(j)
    <3>1. DOMAIN items' = DOMAIN items
      BY <2>0, <2>4, RowFacts DEF Retry
    <3> QED
      BY <3>1
  <2>5. CASE UploadAcked
    <3>1. DOMAIN items' = DOMAIN items
      <4>1. "uploadFailed" \in Statuses
        BY DEF Statuses
      <4>2. \A j : DOMAIN Mark(j, "uploadFailed") = DOMAIN items
        BY <2>0, <4>1, MarkFacts
      <4>3. \A j : DOMAIN MarkSending(j) = DOMAIN items
        BY <2>0, RowFacts
      <4> QED
        BY <2>5, <4>2, <4>3 DEF UploadAcked, UploadSucceeds, UploadFails
    <3> QED
      BY <3>1
  <2>6. CASE \/ SelectRoom \/ PickAttachment \/ ClearAttachment \/ SendText \/ Draw \/ Logout
             \/ Execute \/ ExecuteLogout \/ Login \/ TextAcked \/ LoggedOut \/ Downloads
    BY <2>6 DEF SelectRoom, PickAttachment, ClearAttachment, SendText, Draw, Logout, Execute,
                ExecuteLogout, Login, TextAcked, LoggedOut, Downloads, uiVars
  <2> QED
    BY <2>1, <2>2, <2>3, <2>4, <2>5, <2>6 DEF Next
<1> QED
  BY <1>1, OutboxInvariant, PTL DEF Spec, ListedUntilPosted

\* An item is posted once for the send button and once for each retry at most,
\* whatever is lost, and in whatever order the answers come.
THEOREM PostsAlwaysAskedFor == Spec => []PostsWereAskedFor
<1>1. Init => CountInv
  <2> SUFFICES ASSUME Init PROVE CountInv
    OBVIOUS
  <2>1. commands = <<>> /\ events = <<>> /\ commands \in Seq(CommandType)
        /\ posted = [i \in Items |-> 0] /\ retries = [i \in Items |-> 0]
    BY DEF Init
  <2>2. ASSUME NEW i \in Items
        PROVE  posted[i] + UploadsDue(i) + CommandsDue(i) <= Allowed(i)
    <3>1. UploadsDue(i) = 0 /\ CommandsDue(i) = 0
      BY <2>1, PlacesAreFinite DEF UploadsDue, CommandsDue
    <3> QED
      BY <2>1, <3>1 DEF Allowed
  <2> QED
    BY <2>1, <2>2 DEF CountInv
<1>2. OutboxInv /\ CountInv => PostsWereAskedFor
  <2> SUFFICES ASSUME TypesOK, CountInv, NEW i \in Items
               PROVE  posted[i] <= 1 + retries[i]
    BY DEF OutboxInv, PostsWereAskedFor
  <2> QED
    BY DueIsNat DEF Allowed
<1> QED
  BY <1>1, <1>2, CountIsKept, OutboxInvariant, PTL DEF Spec
=============================================================================
