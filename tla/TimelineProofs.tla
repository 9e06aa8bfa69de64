--------------------------- MODULE TimelineProofs ---------------------------
(***************************************************************************)
(* One room's timeline, proved for every size of the room, the pages, the  *)
(* buffer and the event stream.                                            *)
(*                                                                         *)
(* The buffer is compared with the log at the length the sync task has     *)
(* seen.  It is in order when every item is followed by all newer messages *)
(* (Following) and every message above the token is there (Present); an    *)
(* item is right when it shows what the log said (Right).  While a delta   *)
(* is applied, one operation at a time, all three hold up to what its      *)
(* remaining operations still bring: a message an operation that comes     *)
(* will append, an edit it will apply, a redaction it will carry out.      *)
(* Each loop is unrolled to the list of its intermediate results and gone  *)
(* along by induction.                                                     *)
(*                                                                         *)
(* The adapter sends a snapshot after every delta, so the last event in    *)
(* the stream is a snapshot of the buffer as it is, or a logout since; a   *)
(* lagging receiver never loses the last one.                              *)
(***************************************************************************)
EXTENDS Timeline, FiniteSetTheorems, FunctionTheorems, SequenceTheorems,
        WellFoundedInduction, TLAPS

-----------------------------------------------------------------------------
(* Induction, and the numbers of a set in order.                           *)

\* The order of the naturals, as the library's relation.
LEMMA LessThan ==
    \A n, m \in Nat : <<n, m>> \notin OpToRel(<, Nat) => m <= n
BY DEF OpToRel

\* Induction over the numbers of a set.
LEMMA Induction ==
    ASSUME NEW P, 0 \in P, \A n \in Nat : n \in P => n + 1 \in P
    PROVE  \A n \in Nat : n \in P
<1> DEFINE S == Nat \ P
<1>1. SUFFICES ASSUME S # {} PROVE FALSE
  OBVIOUS
<1>2. S \in SUBSET Nat
  OBVIOUS
<1> HIDE DEF S
<1>3. PICK m \in S : \A n \in S : <<n, m>> \notin OpToRel(<, Nat)
  BY <1>1, <1>2, NatLessThanWellFounded, WFMin
<1>4. m \in Nat /\ m \notin P /\ m # 0
  BY <1>2, <1>3 DEF S
<1>5. m - 1 \in Nat /\ (m - 1) + 1 = m
  BY <1>4
<1>6. m - 1 \in S
  BY <1>4, <1>5 DEF S
<1>7. <<m - 1, m>> \notin OpToRel(<, Nat)
  BY <1>3, <1>6
<1>8. m <= m - 1
  BY <1>4, <1>5, <1>7, LessThan
<1> QED
  BY <1>4, <1>8

\* The same up to a bound.
LEMMA InductionUpTo ==
    ASSUME NEW N \in Nat, NEW P, 0 \in P, \A n \in 1..N : n - 1 \in P => n \in P
    PROVE  \A n \in 0..N : n \in P
<1> DEFINE Q == {n \in Nat : n <= N => n \in P}
<1>1. 0 \in Q
  OBVIOUS
<1>2. ASSUME NEW n \in Nat, n \in Q PROVE n + 1 \in Q
  <2>1. CASE n + 1 <= N
    <3>1. n <= N /\ n + 1 \in 1..N /\ (n + 1) - 1 = n
      BY <2>1
    <3>2. n \in P
      BY <1>2, <3>1
    <3> QED
      BY <3>1, <3>2
  <2>2. CASE ~(n + 1 <= N)
    BY <2>2
  <2> QED
    BY <2>1, <2>2
<1>3. \A n \in Nat : n \in Q
  <2> HIDE DEF Q
  <2> QED
    BY <1>1, <1>2, Induction
<1> QED
  BY <1>3

\* Nth lists a finite set of numbers from the smallest to the largest.
LEMMA NthLists ==
    ASSUME NEW set \in SUBSET Nat, IsFiniteSet(set)
    PROVE  /\ Cardinality(set) \in Nat
           /\ \A k \in 1..Cardinality(set) : Nth(set, k) \in set
           /\ \A k, l \in 1..Cardinality(set) : k < l => Nth(set, k) < Nth(set, l)
           /\ \A n \in set : \E k \in 1..Cardinality(set) : Nth(set, k) = n
<1> DEFINE size == Cardinality(set)
           upto == [n \in set |-> {m \in set : m <= n}]
           rank == [n \in set |-> Cardinality(upto[n])]
<1>1. size \in Nat
  BY FS_CardinalityType
<1>2. ASSUME NEW n \in set
      PROVE  /\ upto[n] \in SUBSET set /\ n \in upto[n]
             /\ IsFiniteSet(upto[n])
             /\ rank[n] \in 1..size
  <2>1. upto[n] \in SUBSET set /\ n \in upto[n]
    OBVIOUS
  <2>2. IsFiniteSet(upto[n]) /\ Cardinality(upto[n]) <= size
    BY <2>1, FS_Subset
  <2>3. Cardinality(upto[n]) \in Nat /\ Cardinality(upto[n]) # 0
    BY <2>1, <2>2, FS_CardinalityType, FS_EmptySet
  <2> QED
    BY <1>1, <2>1, <2>2, <2>3
<1>3. ASSUME NEW m \in set, NEW n \in set, m < n PROVE rank[m] < rank[n]
  <2>1. upto[m] \in SUBSET upto[n]
    <3>1. \A x \in set : x <= m => x <= n
      BY <1>3
    <3> QED
      BY <3>1
  <2>2. n \notin upto[m]
    BY <1>3
  <2>3. Cardinality(upto[m]) <= Cardinality(upto[n])
        /\ (Cardinality(upto[n]) = Cardinality(upto[m]) => upto[n] = upto[m])
    BY <1>2, <2>1, FS_Subset
  <2>4. rank[m] # rank[n]
    BY <1>2, <2>2, <2>3
  <2>5. rank[m] <= rank[n] /\ rank[m] \in 1..size /\ rank[n] \in 1..size
    BY <1>2, <2>3
  <2> QED
    BY <1>1, <2>4, <2>5
<1>4. rank \in Injection(set, 1..size)
  <2>1. rank \in [set -> 1..size]
    BY <1>2
  <2>2. ASSUME NEW m \in set, NEW n \in set, rank[m] = rank[n] PROVE m = n
    <3>1. rank[m] \in 1..size /\ rank[n] \in 1..size
      BY <1>2
    <3> HIDE DEF rank
    <3> QED
      BY <1>1, <1>3, <2>2, <3>1
  <2> HIDE DEF rank
  <2> QED
    BY <2>1, <2>2 DEF Injection, IsInjective
<1>5. rank \in Surjection(set, 1..size)
  <2>1. IsFiniteSet(1..size) /\ Cardinality(1..size) = size
    BY <1>1, FS_Interval
  <2> HIDE DEF rank
  <2> QED
    BY <1>4, <2>1, FS_Injection
<1>6. ASSUME NEW k \in 1..size
      PROVE  Nth(set, k) \in set /\ rank[Nth(set, k)] = k
  <2>1. \E n \in set : rank[n] = k
    BY <1>5 DEF Surjection
  <2>2. \E n \in set : Cardinality({m \in set : m <= n}) = k
    BY <2>1
  <2>3. Nth(set, k) \in set /\ Cardinality({m \in set : m <= Nth(set, k)}) = k
    BY <2>2 DEF Nth
  <2> QED
    BY <2>3
<1> HIDE DEF rank
<1>7. ASSUME NEW k \in 1..size, NEW l \in 1..size, k < l
      PROVE  Nth(set, k) < Nth(set, l)
  <2>1. ~(Nth(set, l) < Nth(set, k)) /\ Nth(set, l) # Nth(set, k)
    <3>1. rank[Nth(set, k)] = k /\ rank[Nth(set, l)] = l
      BY <1>6
    <3>2. Nth(set, k) \in set /\ Nth(set, l) \in set
      BY <1>6
    <3>3. ~(l < k) /\ l # k
      BY <1>7, <1>1
    <3> QED
      BY <1>3, <3>1, <3>2, <3>3
  <2>2. Nth(set, k) \in Nat /\ Nth(set, l) \in Nat
    BY <1>6
  <2> QED
    BY <2>1, <2>2
<1>8. ASSUME NEW n \in set PROVE \E k \in 1..size : Nth(set, k) = n
  <2>1. rank[n] \in 1..size
    BY <1>2 DEF rank
  <2>2. Nth(set, rank[n]) \in set /\ rank[Nth(set, rank[n])] = rank[n]
    BY <1>6, <2>1
  <2>3. Nth(set, rank[n]) = n
    BY <1>4, <2>2 DEF Injection, IsInjective
  <2> QED
    BY <2>1, <2>3
<1> QED
  BY <1>1, <1>6, <1>7, <1>8

-----------------------------------------------------------------------------
(* Items, trimmed and shown.                                               *)

\* The operations on items.
Kinds == {"append", "prepend", "update", "replace", "remove"}

\* What a delta may hold.
Ops == [op : Kinds, item : Item] \cup {Clear}

\* Trimming takes from the front.
LEMMA TrimCuts ==
    ASSUME NEW S, NEW s \in Seq(S)
    PROVE  \E cut \in 0..Len(s) :
              /\ Trim(s) \in Seq(S)
              /\ Len(Trim(s)) = Len(s) - cut
              /\ \A k \in 1..(Len(s) - cut) : Trim(s)[k] = s[k + cut]
              /\ Len(Trim(s)) <= MaxItems
              /\ Len(s) <= MaxItems => cut = 0
<1> DEFINE cut == Newest(Len(s), MaxItems)
<1>1. cut \in 0..Len(s) /\ Len(s) - cut <= MaxItems /\ (Len(s) <= MaxItems => cut = 0)
  BY TimelineAssumption DEF Newest
<1>2. Trim(s) = SubSeq(s, cut + 1, Len(s))
  BY DEF Trim
<1> HIDE DEF cut
<1>3. cut \in Int /\ cut + 1 \in Int /\ Len(s) \in Int
      /\ \A i \in (cut + 1)..Len(s) : s[i] \in S
  BY <1>1
<1>4. /\ Trim(s) \in Seq(S)
      /\ Len(Trim(s)) = IF cut + 1 <= Len(s) THEN Len(s) - (cut + 1) + 1 ELSE 0
      /\ \A i \in 1..(Len(s) - (cut + 1) + 1) : Trim(s)[i] = s[(cut + 1) + i - 1]
  BY ONLY <1>2, <1>3, SubSeqProperties
<1>5. Len(Trim(s)) = Len(s) - cut
  BY <1>1, <1>4
<1>6. ASSUME NEW k \in 1..(Len(s) - cut) PROVE Trim(s)[k] = s[k + cut]
  <2>1. k \in 1..(Len(s) - (cut + 1) + 1) /\ (cut + 1) + k - 1 = k + cut
    BY <1>1
  <2> QED
    BY <1>4, <2>1
<1> QED
  BY <1>1, <1>4, <1>5, <1>6

\* A set of numbers has a least one.
LEMMA LeastOf ==
    ASSUME NEW S \in SUBSET Nat, S # {}
    PROVE  \E m \in S : \A n \in S : m <= n
<1>1. PICK m \in S : \A n \in S : <<n, m>> \notin OpToRel(<, Nat)
  BY NatLessThanWellFounded, WFMin
<1> QED
  BY <1>1, LessThan

\* An item that is there has a first copy.
LEMMA FirstIsThere ==
    ASSUME NEW items \in Seq(Item), NEW id, Has(items, id)
    PROVE  /\ First(items, id) \in 1..Len(items)
           /\ items[First(items, id)].id = id
<1> DEFINE S == {k \in DOMAIN items : items[k].id = id}
<1>1. S \in SUBSET Nat /\ S # {} /\ DOMAIN items = 1..Len(items)
  BY DEF Has
<1>2. PICK m \in S : \A n \in S : m <= n
  BY <1>1, LeastOf
<1>3. m \in DOMAIN items /\ items[m].id = id
  BY <1>2
<1>4. \A l \in 1..(m - 1) : items[l].id # id
  BY <1>1, <1>2
<1>5. \E k \in DOMAIN items :
          items[k].id = id /\ \A l \in 1..(k - 1) : items[l].id # id
  BY <1>3, <1>4
<1> QED
  BY <1>1, <1>5 DEF First

\* Taking one element leaves the others in their order.
LEMMA RemoveAtShifts ==
    ASSUME NEW S, NEW s \in Seq(S), NEW i \in 1..Len(s)
    PROVE  /\ RemoveAt(s, i) \in Seq(S)
           /\ Len(RemoveAt(s, i)) = Len(s) - 1
           /\ \A k \in 1..(Len(s) - 1) :
                 RemoveAt(s, i)[k] = IF k < i THEN s[k] ELSE s[k + 1]
<1> DEFINE a == SubSeq(s, 1, i - 1)
           b == SubSeq(s, i + 1, Len(s))
<1>1. Len(s) \in Nat /\ i \in Nat /\ 1 <= i /\ i <= Len(s)
  OBVIOUS
<1>2. a \in Seq(S) /\ Len(a) = i - 1 /\ \A k \in 1..(i - 1) : a[k] = s[k]
  <2>1. \A k \in 1..(i - 1) : s[k] \in S
    BY <1>1
  <2>2. /\ a \in Seq(S)
        /\ Len(a) = IF 1 <= i - 1 THEN i - 1 - 1 + 1 ELSE 0
        /\ \A k \in 1..(i - 1 - 1 + 1) : a[k] = s[1 + k - 1]
    BY ONLY <1>1, <2>1, SubSeqProperties, 1 \in Int, i - 1 \in Int
  <2> QED
    BY <1>1, <2>2
<1>3. b \in Seq(S) /\ Len(b) = Len(s) - i /\ \A k \in 1..(Len(s) - i) : b[k] = s[i + k]
  <2>1. \A k \in (i + 1)..Len(s) : s[k] \in S
    BY <1>1
  <2>2. /\ b \in Seq(S)
        /\ Len(b) = IF i + 1 <= Len(s) THEN Len(s) - (i + 1) + 1 ELSE 0
        /\ \A k \in 1..(Len(s) - (i + 1) + 1) : b[k] = s[(i + 1) + k - 1]
    BY ONLY <1>1, <2>1, SubSeqProperties, i + 1 \in Int, Len(s) \in Int
  <2> QED
    BY <1>1, <2>2
<1>4. RemoveAt(s, i) = a \o b
  BY DEF RemoveAt
<1> HIDE DEF a, b
<1>5. /\ a \o b \in Seq(S)
      /\ Len(a \o b) = Len(s) - 1
      /\ \A k \in 1..(Len(s) - 1) :
            (a \o b)[k] = IF k <= i - 1 THEN a[k] ELSE b[k - (i - 1)]
  <2>1. /\ a \o b \in Seq(S)
        /\ Len(a \o b) = Len(a) + Len(b)
        /\ \A k \in 1..(Len(a) + Len(b)) :
              (a \o b)[k] = IF k <= Len(a) THEN a[k] ELSE b[k - Len(a)]
    BY <1>2, <1>3, ConcatProperties
  <2>2. Len(a) + Len(b) = Len(s) - 1
    BY <1>1, <1>2, <1>3
  <2> QED
    BY <1>2, <2>1, <2>2
<1>6. ASSUME NEW k \in 1..(Len(s) - 1)
      PROVE  (a \o b)[k] = IF k < i THEN s[k] ELSE s[k + 1]
  <2>1. CASE k < i
    BY <1>1, <1>2, <1>5, <2>1
  <2>2. CASE ~(k < i)
    <3>1. k - (i - 1) \in 1..(Len(s) - i) /\ i + (k - (i - 1)) = k + 1
      BY <1>1, <2>2
    <3>2. b[k - (i - 1)] = s[k + 1]
      BY <1>3, <3>1
    <3> QED
      BY <1>1, <1>5, <2>2, <3>2
  <2> QED
    BY <2>1, <2>2
<1> QED
  BY <1>4, <1>5, <1>6

\* What stays of old in new, in its order: item k of new is item from[k] of old.
Kept(new, old, from) ==
    /\ from \in [1..Len(new) -> 1..Len(old)]
    /\ \A k \in 1..Len(new) : new[k] = old[from[k]]
    /\ \A k, l \in 1..Len(new) : k < l => from[k] < from[l]

\* No later copy of the item follows.
IsLast(items, k) == \A l \in DOMAIN items : items[l].id = items[k].id => l <= k

\* What the desktop shows of items: last copies, and all of them after the first.
LEMMA DedupeShows ==
    ASSUME NEW items \in Seq(Item)
    PROVE  /\ DedupeAndTrim(items) \in Seq(Item)
           /\ Len(DedupeAndTrim(items)) <= MaxItems
           /\ \E from :
                /\ Kept(DedupeAndTrim(items), items, from)
                /\ \A k \in 1..Len(DedupeAndTrim(items)) : IsLast(items, from[k])
                /\ \A k \in 1..Len(DedupeAndTrim(items)), p \in DOMAIN items :
                      IsLast(items, p) /\ from[k] < p =>
                          \E l \in 1..Len(DedupeAndTrim(items)) : from[l] = p
<1> DEFINE last == {k \in DOMAIN items : IsLast(items, k)}
           size == Cardinality(last)
           all == [k \in 1..size |-> items[Nth(last, k)]]
<1>1. DOMAIN items = 1..Len(items) /\ Len(items) \in Nat
  OBVIOUS
<1>2. last \in SUBSET Nat /\ last \in SUBSET (1..Len(items)) /\ IsFiniteSet(last)
  <2>1. IsFiniteSet(1..Len(items))
    BY <1>1, FS_Interval
  <2>2. last \in SUBSET (1..Len(items))
    BY <1>1
  <2> QED
    BY <2>1, <2>2, FS_Subset
<1>3. DedupeAndTrim(items) = Trim(all)
  BY DEF DedupeAndTrim, IsLast
<1> HIDE DEF last
<1>4. /\ size \in Nat
      /\ \A k \in 1..size : Nth(last, k) \in last
      /\ \A k, l \in 1..size : k < l => Nth(last, k) < Nth(last, l)
      /\ \A n \in last : \E k \in 1..size : Nth(last, k) = n
  BY <1>2, NthLists
<1> HIDE DEF size
<1>5. all \in Seq(Item) /\ Len(all) = size /\ \A k \in 1..size : all[k] = items[Nth(last, k)]
  <2>1. \A p \in last : items[p] \in Item
    BY <1>1, <1>2
  <2>2. \A k \in 1..size : items[Nth(last, k)] \in Item
    BY <1>4, <2>1
  <2> QED
    BY <1>4, <2>2
<1> HIDE DEF all
<1>6. PICK cut \in 0..Len(all) :
          /\ Trim(all) \in Seq(Item)
          /\ Len(Trim(all)) = Len(all) - cut
          /\ \A k \in 1..(Len(all) - cut) : Trim(all)[k] = all[k + cut]
          /\ Len(Trim(all)) <= MaxItems
  BY <1>5, TrimCuts
<1> DEFINE n == size - cut
           from == [k \in 1..n |-> Nth(last, k + cut)]
<1>7. n \in Nat /\ \A k \in 1..n : k + cut \in 1..size
  BY <1>4, <1>5, <1>6
<1>8. /\ from \in [1..n -> 1..Len(items)]
      /\ \A k \in 1..n : Trim(all)[k] = items[from[k]]
      /\ \A k, l \in 1..n : k < l => from[k] < from[l]
  <2>1. \A k \in 1..n : from[k] \in 1..Len(items)
    BY <1>2, <1>4, <1>7
  <2>2. \A k \in 1..n : Trim(all)[k] = items[from[k]]
    BY <1>5, <1>6, <1>7
  <2>3. ASSUME NEW k \in 1..n, NEW l \in 1..n, k < l PROVE from[k] < from[l]
    <3>1. k + cut < l + cut
      BY <1>6, <1>7, <2>3
    <3> QED
      BY <1>4, <1>7, <3>1
  <2> QED
    BY <2>1, <2>2, <2>3
<1>9. \A k \in 1..n : IsLast(items, from[k])
  BY <1>4, <1>7 DEF last
<1>10. ASSUME NEW k \in 1..n, NEW p \in DOMAIN items, IsLast(items, p), from[k] < p
       PROVE  \E l \in 1..n : from[l] = p
  <2>1. p \in last
    BY <1>10 DEF last
  <2>2. PICK m \in 1..size : Nth(last, m) = p
    BY <1>4, <2>1
  <2>3. k + cut \in 1..size /\ Nth(last, k + cut) < Nth(last, m)
    BY <1>7, <1>10, <2>2
  <2>4. k + cut < m
    <3>1. Nth(last, k + cut) \in Nat /\ Nth(last, m) \in Nat
      BY <1>2, <1>4, <2>3
    <3>2. ~(m < k + cut) /\ m # k + cut
      BY <1>4, <2>3, <3>1
    <3> QED
      BY <1>4, <1>6, <1>7, <2>3, <3>2
  <2>5. m - cut \in 1..n /\ (m - cut) + cut = m
    BY <1>4, <1>5, <1>6, <2>4
  <2> QED
    BY <2>2, <2>5
<1> HIDE DEF from
<1>11. Len(DedupeAndTrim(items)) = n
  BY <1>3, <1>5, <1>6
<1>12. Kept(DedupeAndTrim(items), items, from)
  BY <1>3, <1>8, <1>11 DEF Kept
<1> HIDE DEF n
<1> QED
  BY <1>3, <1>6, <1>9, <1>10, <1>11, <1>12

-----------------------------------------------------------------------------
(* What one operation makes of the items, and what order is.               *)

\* An operation clears, or names an event.
LEMMA OpKinds ==
    ASSUME NEW op \in Ops
    PROVE  /\ op.op \in Kinds \cup {"clear"}
           /\ op.op = "clear" <=> op = Clear
           /\ op # Clear => op.item \in Item
           /\ op = Clear => op.item.id = 0
BY DEF Ops, Clear, Op, Kinds

\* What one operation makes of the items.
LEMMA AppendAdds ==
    ASSUME NEW items \in Seq(Item), NEW op \in Ops, op.op = "append",
           NEW new, new = Apply(items, op)
    PROVE  /\ new \in Seq(Item)
           /\ Len(new) = Len(items) + 1
           /\ new[Len(items) + 1] = op.item
           /\ \A k \in 1..Len(items) : new[k] = items[k]
<1>1. op.item \in Item
  BY OpKinds DEF Clear, Op
<1>2. new = Append(items, op.item)
  BY DEF Apply
<1> QED
  BY <1>1, <1>2

\* A prepended item comes first.
LEMMA PrependAdds ==
    ASSUME NEW items \in Seq(Item), NEW op \in Ops, op.op = "prepend",
           NEW new, new = Apply(items, op)
    PROVE  /\ new \in Seq(Item)
           /\ Len(new) = Len(items) + 1
           /\ new[1] = op.item
           /\ \A k \in 1..Len(items) : new[k + 1] = items[k]
<1>1. op.item \in Item
  BY OpKinds DEF Clear, Op
<1>2. new = <<op.item>> \o items
  BY DEF Apply
<1>3. <<op.item>> \in Seq(Item) /\ Len(<<op.item>>) = 1 /\ <<op.item>>[1] = op.item
  BY <1>1
<1>4. PICK one \in Seq(Item) : one = <<op.item>> /\ Len(one) = 1 /\ one[1] = op.item
  BY <1>3
<1>5. /\ one \o items \in Seq(Item)
      /\ Len(one \o items) = Len(one) + Len(items)
      /\ \A i \in 1..(Len(one) + Len(items)) :
            (one \o items)[i] = IF i <= Len(one) THEN one[i] ELSE items[i - Len(one)]
  BY <1>4, ConcatProperties
<1>6. new = one \o items
  BY <1>2, <1>4
<1>7. Len(items) \in Nat
  OBVIOUS
<1>8. ASSUME NEW k \in 1..Len(items) PROVE new[k + 1] = items[k]
  <2>1. k + 1 \in 1..(Len(one) + Len(items)) /\ ~(k + 1 <= Len(one)) /\ (k + 1) - Len(one) = k
    BY <1>4, <1>7
  <2> QED
    BY <1>5, <1>6, <2>1
<1> QED
  BY <1>4, <1>5, <1>6, <1>7, <1>8

\* Clearing leaves nothing.
LEMMA ClearEmpties ==
    ASSUME NEW items, NEW op \in Ops, op.op = "clear"
    PROVE  Apply(items, op) = <<>>
BY DEF Apply

\* What is not there is not changed, replaced or removed.
LEMMA AbsentIsNoChange ==
    ASSUME NEW items, NEW op \in Ops, op.op \in {"update", "replace", "remove"},
           ~Has(items, op.item.id)
    PROVE  Apply(items, op) = items
BY DEF Apply

\* A change touches the first copy of its event, in its place.
LEMMA ChangeKeepsPlaces ==
    ASSUME NEW items \in Seq(Item), NEW op \in Ops, op.op \in {"update", "replace"},
           Has(items, op.item.id), NEW new, new = Apply(items, op),
           NEW first, first = First(items, op.item.id)
    PROVE  /\ new \in Seq(Item)
           /\ Len(new) = Len(items)
           /\ first \in 1..Len(items)
           /\ items[first].id = op.item.id
           /\ \A k \in 1..Len(items) : new[k].id = items[k].id
           /\ \A k \in 1..Len(items) : k # first => new[k] = items[k]
           /\ new[first].body = op.item.body
           /\ new[first].sealed =
                 IF op.op = "replace" THEN op.item.sealed ELSE items[first].sealed
<1>1. op.item \in Item
  BY OpKinds DEF Clear, Op
<1>2. first \in 1..Len(items) /\ items[first].id = op.item.id
  BY FirstIsThere
<1>3. items[first] \in Item
  BY <1>2
<1>4. CASE op.op = "update"
  <2>1. new = [items EXCEPT ![first].body = op.item.body]
    BY <1>4 DEF Apply
  <2>2. PICK item : item = [items[first] EXCEPT !.body = op.item.body]
    OBVIOUS
  <2>3. /\ item \in Item /\ item.id = items[first].id
        /\ item.body = op.item.body /\ item.sealed = items[first].sealed
    BY <1>1, <1>3, <2>2 DEF Item
  <2>4. new = [items EXCEPT ![first] = item]
    BY <2>1, <2>2
  <2> QED
    BY <1>2, <1>4, <2>3, <2>4
<1>5. CASE op.op = "replace"
  <2>1. new = [items EXCEPT ![first] = op.item]
    BY <1>5 DEF Apply
  <2> QED
    BY <1>1, <1>2, <1>5, <2>1
<1> QED
  BY <1>4, <1>5

\* A removal takes the first copy of its event.
LEMMA RemoveTakesOne ==
    ASSUME NEW items \in Seq(Item), NEW op \in Ops, op.op = "remove",
           Has(items, op.item.id), NEW new, new = Apply(items, op),
           NEW first, first = First(items, op.item.id)
    PROVE  /\ new \in Seq(Item)
           /\ Len(new) = Len(items) - 1
           /\ first \in 1..Len(items)
           /\ items[first].id = op.item.id
           /\ \A k \in 1..(Len(items) - 1) :
                 new[k] = IF k < first THEN items[k] ELSE items[k + 1]
<1>1. first \in 1..Len(items) /\ items[first].id = op.item.id
  BY FirstIsThere
<1>2. new = RemoveAt(items, first)
  BY DEF Apply
<1> QED
  BY <1>1, <1>2, RemoveAtShifts

\* Items stay items.
LEMMA ApplyKeepsType ==
    ASSUME NEW items \in Seq(Item), NEW op \in Ops
    PROVE  Apply(items, op) \in Seq(Item)
<1>1. op.op \in Kinds \cup {"clear"}
  BY OpKinds
<1>2. CASE op.op = "append"
  BY <1>2, AppendAdds
<1>3. CASE op.op = "prepend"
  BY <1>3, PrependAdds
<1>4. CASE op.op = "clear"
  <2>1. Apply(items, op) = <<>>
    BY <1>4, ClearEmpties
  <2> QED
    BY <2>1, EmptySeq
<1>5. CASE op.op \in {"update", "replace", "remove"} /\ ~Has(items, op.item.id)
  BY <1>5, AbsentIsNoChange
<1>6. CASE op.op \in {"update", "replace"} /\ Has(items, op.item.id)
  BY <1>6, ChangeKeepsPlaces
<1>7. CASE op.op = "remove" /\ Has(items, op.item.id)
  BY <1>7, RemoveTakesOne
<1> QED
  BY <1>1, <1>2, <1>3, <1>4, <1>5, <1>6, <1>7 DEF Kinds

-----------------------------------------------------------------------------
\* An operation of one of the kinds on event i comes after the n-th.
Comes(ops, n, kinds, i) ==
    \E d \in (n + 1)..Len(ops) : ops[d].op \in kinds /\ ops[d].item.id = i

\* No item is followed by none of a newer message: what is not there is due.
Following(items, ops, n, upto) ==
    \A k \in DOMAIN items, i \in Messages :
        items[k].id < i /\ i <= upto =>
            \/ \E l \in DOMAIN items : l > k /\ items[l].id = i
            \/ Comes(ops, n, {"append"}, i)

\* Every message above passed is there or due.
Present(items, ops, n, passed, upto) ==
    \A i \in Messages :
        passed < i /\ i <= upto =>
            Has(items, i) \/ Comes(ops, n, {"append", "prepend"}, i)

\* Operations that keep the order: what clears is owed nothing, what is appended
\* is followed by all that is newer, what is prepended comes newest first and
\* above passed, and no message goes.
Orderly(ops, passed, upto) ==
    \A d \in 1..Len(ops) :
        /\ ops[d].op = "clear" => upto <= passed
        /\ ops[d].op = "append" =>
              \A i \in Messages : ops[d].item.id < i /\ i <= upto => Comes(ops, d, {"append"}, i)
        /\ ops[d].op = "prepend" =>
              /\ passed < ops[d].item.id
              /\ \A i \in Messages :
                    ops[d].item.id < i => ~Comes(ops, d, {"append", "prepend"}, i)
        /\ ops[d].op = "remove" => ops[d].item.id \notin Messages

\* What comes after the operation before comes with this one or after it.
LEMMA ComesOn ==
    ASSUME NEW ops, Len(ops) \in Nat, NEW n \in 1..Len(ops), NEW kinds, NEW i,
           Comes(ops, n - 1, kinds, i)
    PROVE  \/ Comes(ops, n, kinds, i)
           \/ ops[n].op \in kinds /\ ops[n].item.id = i
<1>1. PICK d \in ((n - 1) + 1)..Len(ops) : ops[d].op \in kinds /\ ops[d].item.id = i
  BY DEF Comes
<1>2. d = n \/ d \in (n + 1)..Len(ops)
  OBVIOUS
<1> QED
  BY <1>1, <1>2 DEF Comes

\* Trimming keeps both, as long as it takes nothing above passed.
LEMMA TrimKeepsOrder ==
    ASSUME NEW all \in Seq(Item), NEW ops, NEW n, NEW passed \in Nat, NEW upto \in Nat,
           Messages \subseteq Nat,
           Following(all, ops, n, upto), Present(all, ops, n, passed, upto),
           \A i \in Shows(all) \ Shows(Trim(all)) : i <= passed
    PROVE  Following(Trim(all), ops, n, upto) /\ Present(Trim(all), ops, n, passed, upto)
<1>1. PICK cut \in 0..Len(all) :
          /\ Trim(all) \in Seq(Item)
          /\ Len(Trim(all)) = Len(all) - cut
          /\ \A k \in 1..(Len(all) - cut) : Trim(all)[k] = all[k + cut]
  BY TrimCuts
<1>2. DOMAIN Trim(all) = 1..(Len(all) - cut) /\ DOMAIN all = 1..Len(all) /\ Len(all) \in Nat
  BY <1>1
<1>3. Following(Trim(all), ops, n, upto)
  <2> SUFFICES ASSUME NEW k \in DOMAIN Trim(all), NEW i \in Messages,
                      Trim(all)[k].id < i, i <= upto,
                      ~Comes(ops, n, {"append"}, i)
               PROVE  \E l \in DOMAIN Trim(all) : l > k /\ Trim(all)[l].id = i
    BY DEF Following
  <2>1. k + cut \in DOMAIN all /\ all[k + cut].id < i
    BY <1>1, <1>2
  <2>2. PICK l \in DOMAIN all : l > k + cut /\ all[l].id = i
    BY <2>1 DEF Following
  <2>3. l - cut \in DOMAIN Trim(all) /\ l - cut > k /\ (l - cut) + cut = l
    BY <1>2, <2>2
  <2>4. Trim(all)[l - cut].id = i
    BY <1>1, <1>2, <2>2, <2>3
  <2> QED
    BY <2>3, <2>4
<1>4. Present(Trim(all), ops, n, passed, upto)
  <2> SUFFICES ASSUME NEW i \in Messages, passed < i, i <= upto, Has(all, i)
               PROVE  Has(Trim(all), i)
    BY DEF Present
  <2>1. i \in Shows(all)
    BY DEF Shows, Has
  <2>2. i \in Shows(Trim(all))
    BY <2>1
  <2> QED
    BY <2>2 DEF Shows, Has
<1> QED
  BY <1>3, <1>4

\* One operation before the trimming.
LEMMA ApplyKeepsOrder ==
    ASSUME NEW items \in Seq(Item), NEW ops \in Seq(Ops), NEW n \in 1..Len(ops),
           NEW passed \in Nat, NEW upto \in Nat,
           Messages \subseteq Nat, Orderly(ops, passed, upto),
           Following(items, ops, n - 1, upto), Present(items, ops, n - 1, passed, upto)
    PROVE  /\ Following(Apply(items, ops[n]), ops, n, upto)
           /\ Present(Apply(items, ops[n]), ops, n, passed, upto)
<1>0. PICK op \in Ops : op = ops[n]
  OBVIOUS
<1>1. op.op \in Kinds \cup {"clear"} /\ Len(ops) \in Nat
  BY OpKinds
<1>2. PICK new : new = Apply(items, op)
  OBVIOUS
<1>3. DOMAIN items = 1..Len(items) /\ Len(items) \in Nat
      /\ \A k \in DOMAIN items : items[k].id \in Nat
  <2>1. \A item \in Item : item.id \in Nat
    BY DEF Item, Ids
  <2>2. \A k \in 1..Len(items) : items[k] \in Item
    OBVIOUS
  <2> QED
    BY <2>1, <2>2
<1> SUFFICES Following(new, ops, n, upto) /\ Present(new, ops, n, passed, upto)
  BY <1>0, <1>2
<1>4. CASE op.op = "append"
  <2>1. /\ new \in Seq(Item)
        /\ Len(new) = Len(items) + 1
        /\ new[Len(items) + 1] = op.item
        /\ \A k \in 1..Len(items) : new[k] = items[k]
    BY <1>1, <1>2, <1>4, AppendAdds
  <2>2. DOMAIN new = 1..(Len(items) + 1) /\ Len(items) + 1 \in DOMAIN new
    BY <1>3, <2>1
  <2>3. Following(new, ops, n, upto)
    <3> SUFFICES ASSUME NEW k \in DOMAIN new, NEW i \in Messages,
                        new[k].id < i, i <= upto,
                        ~Comes(ops, n, {"append"}, i)
                 PROVE  \E l \in DOMAIN new : l > k /\ new[l].id = i
      BY DEF Following
    <3>1. k # Len(items) + 1
      BY <1>4, <2>1, <1>0 DEF Orderly
    <3>2. k \in DOMAIN items /\ items[k].id < i
      BY <1>3, <2>1, <2>2, <3>1
    <3>3. CASE \E l \in DOMAIN items : l > k /\ items[l].id = i
      <4>1. PICK l \in DOMAIN items : l > k /\ items[l].id = i
        BY <3>3
      <4> QED
        BY <1>3, <2>1, <2>2, <4>1
    <3>4. CASE Comes(ops, n - 1, {"append"}, i)
      <4>1. op.item.id = i
        BY <1>1, <3>4, <1>0, ComesOn
      <4>2. Len(items) + 1 > k /\ new[Len(items) + 1].id = i
        BY <1>3, <2>1, <3>2, <4>1
      <4> QED
        BY <2>2, <4>2
    <3> QED
      BY <3>2, <3>3, <3>4 DEF Following
  <2>4. Present(new, ops, n, passed, upto)
    <3> SUFFICES ASSUME NEW i \in Messages, passed < i, i <= upto,
                        ~Comes(ops, n, {"append", "prepend"}, i)
                 PROVE  Has(new, i)
      BY DEF Present
    <3>1. CASE Has(items, i)
      BY <1>3, <2>1, <2>2, <3>1 DEF Has
    <3>2. CASE Comes(ops, n - 1, {"append", "prepend"}, i)
      <4>1. op.item.id = i
        BY <1>1, <3>2, <1>0, ComesOn
      <4> QED
        BY <2>1, <2>2, <4>1 DEF Has
    <3> QED
      BY <3>1, <3>2 DEF Present
  <2> QED
    BY <2>3, <2>4
<1>5. CASE op.op = "prepend"
  <2>1. /\ new \in Seq(Item)
        /\ Len(new) = Len(items) + 1
        /\ new[1] = op.item
        /\ \A k \in 1..Len(items) : new[k + 1] = items[k]
    BY <1>1, <1>2, <1>5, PrependAdds
  <2>2. DOMAIN new = 1..(Len(items) + 1) /\ 1 \in DOMAIN new
    BY <1>3, <2>1
  <2>3. \A i : Has(items, i) => \E l \in DOMAIN new : l > 1 /\ new[l].id = i
    <3> SUFFICES ASSUME NEW i, NEW k \in DOMAIN items, items[k].id = i
                 PROVE  \E l \in DOMAIN new : l > 1 /\ new[l].id = i
      BY DEF Has
    <3>1. k + 1 \in DOMAIN new /\ k + 1 > 1 /\ new[k + 1].id = i
      BY <1>3, <2>1, <2>2
    <3> QED
      BY <3>1
  <2>4. /\ passed < op.item.id /\ op.item.id \in Nat
        /\ \A i \in Messages :
              op.item.id < i => ~Comes(ops, n, {"append", "prepend"}, i)
    BY <1>1, <1>5, OpKinds, <1>0 DEF Orderly, Clear, Op, Item, Ids
  <2>5. Following(new, ops, n, upto)
    <3> SUFFICES ASSUME NEW k \in DOMAIN new, NEW i \in Messages,
                        new[k].id < i, i <= upto,
                        ~Comes(ops, n, {"append"}, i)
                 PROVE  \E l \in DOMAIN new : l > k /\ new[l].id = i
      BY DEF Following
    <3>1. CASE k = 1
      <4>1. op.item.id < i /\ passed < i
        BY <2>1, <2>4, <3>1
      <4>2. ~Comes(ops, n, {"append", "prepend"}, i)
        BY <2>4, <4>1
      <4>3. ~Comes(ops, n - 1, {"append", "prepend"}, i)
        <5>1. op.item.id # i
          BY <2>4, <4>1
        <5> QED
          BY <1>1, <4>2, <5>1, <1>0, ComesOn
      <4>4. Has(items, i)
        BY <4>1, <4>3 DEF Present
      <4> QED
        BY <2>3, <3>1, <4>4
    <3>2. CASE k # 1
      <4>1. k - 1 \in DOMAIN items /\ (k - 1) + 1 = k
        BY <1>3, <2>2, <3>2
      <4>2. items[k - 1].id < i
        BY <1>3, <2>1, <4>1
      <4>3. ~Comes(ops, n - 1, {"append"}, i)
        BY <1>1, <1>5, <1>0, ComesOn
      <4>4. PICK l \in DOMAIN items : l > k - 1 /\ items[l].id = i
        BY <4>1, <4>2, <4>3 DEF Following
      <4>5. l \in 1..Len(items) /\ k \in Nat
        BY <1>3, <2>2, <4>4
      <4>6. l + 1 \in DOMAIN new /\ l + 1 > k
        BY <1>3, <2>2, <4>4, <4>5
      <4>7. new[l + 1].id = i
        BY <2>1, <4>4, <4>5
      <4> QED
        BY <4>6, <4>7
    <3> QED
      BY <3>1, <3>2
  <2>6. Present(new, ops, n, passed, upto)
    <3> SUFFICES ASSUME NEW i \in Messages, passed < i, i <= upto,
                        ~Comes(ops, n, {"append", "prepend"}, i)
                 PROVE  Has(new, i)
      BY DEF Present
    <3>1. CASE Has(items, i)
      BY <2>3, <3>1 DEF Has
    <3>2. CASE Comes(ops, n - 1, {"append", "prepend"}, i)
      <4>1. op.item.id = i
        BY <1>1, <3>2, <1>0, ComesOn
      <4> QED
        BY <2>1, <2>2, <4>1 DEF Has
    <3> QED
      BY <3>1, <3>2 DEF Present
  <2> QED
    BY <2>5, <2>6
<1>6. CASE op.op = "clear"
  <2>1. new = <<>> /\ upto <= passed
    BY <1>1, <1>2, <1>6, ClearEmpties, <1>0 DEF Orderly
  <2>2. ~\E i \in Messages : passed < i /\ i <= upto
    BY <2>1
  <2> QED
    BY <2>1, <2>2 DEF Following, Present
<1>7. ASSUME op.op \in {"update", "replace", "remove"}
      PROVE  \A i : /\ ~Comes(ops, n, {"append"}, i) => ~Comes(ops, n - 1, {"append"}, i)
                    /\ ~Comes(ops, n, {"append", "prepend"}, i)
                       => ~Comes(ops, n - 1, {"append", "prepend"}, i)
  BY <1>1, <1>7, <1>0, ComesOn
<1>8. CASE op.op \in {"update", "replace", "remove"} /\ ~Has(items, op.item.id)
  <2>1. new = items
    BY <1>1, <1>2, <1>8, AbsentIsNoChange
  <2> QED
    BY <1>7, <1>8, <2>1 DEF Following, Present
<1>9. CASE op.op \in {"update", "replace"} /\ Has(items, op.item.id)
  <2>1. /\ new \in Seq(Item)
        /\ Len(new) = Len(items)
        /\ \A k \in 1..Len(items) : new[k].id = items[k].id
    BY <1>1, <1>2, <1>9, ChangeKeepsPlaces
  <2>2. DOMAIN new = DOMAIN items /\ \A k \in DOMAIN items : new[k].id = items[k].id
    BY <1>3, <2>1
  <2>3. Following(new, ops, n, upto)
    <3> SUFFICES ASSUME NEW k \in DOMAIN new, NEW i \in Messages,
                        new[k].id < i, i <= upto,
                        ~Comes(ops, n, {"append"}, i)
                 PROVE  \E l \in DOMAIN new : l > k /\ new[l].id = i
      BY DEF Following
    <3>1. items[k].id < i /\ ~Comes(ops, n - 1, {"append"}, i)
      BY <1>7, <1>9, <2>2
    <3>2. PICK l \in DOMAIN items : l > k /\ items[l].id = i
      BY <2>2, <3>1 DEF Following
    <3> QED
      BY <2>2, <3>2
  <2>4. \A i : Has(items, i) => Has(new, i)
    BY <2>2 DEF Has
  <2>5. Present(new, ops, n, passed, upto)
    BY <1>7, <1>9, <2>4 DEF Present
  <2> QED
    BY <2>3, <2>5
<1>10. CASE op.op = "remove" /\ Has(items, op.item.id)
  <2>1. PICK first : first = First(items, op.item.id)
    OBVIOUS
  <2>2. /\ new \in Seq(Item)
        /\ Len(new) = Len(items) - 1
        /\ first \in 1..Len(items)
        /\ items[first].id = op.item.id
        /\ \A k \in 1..(Len(items) - 1) :
              new[k] = IF k < first THEN items[k] ELSE items[k + 1]
    BY <1>1, <1>2, <1>10, <2>1, RemoveTakesOne
  <2>3. items[first].id \notin Messages
    BY <1>10, <2>2, <1>0 DEF Orderly
  <2>4. DOMAIN new = 1..(Len(items) - 1)
    BY <2>2
  \* A message that stays is where it was or one place further to the front.
  <2>5. ASSUME NEW l \in DOMAIN items, items[l].id \in Messages
        PROVE  \E m \in DOMAIN new :
                  /\ new[m].id = items[l].id
                  /\ m = IF l < first THEN l ELSE l - 1
    <3>1. l # first
      BY <2>3, <2>5
    <3>2. CASE l < first
      <4>1. l \in 1..(Len(items) - 1) /\ new[l] = items[l]
        BY <1>3, <2>2, <3>2
      <4> QED
        BY <2>4, <3>2, <4>1
    <3>3. CASE l > first
      <4>1. l - 1 \in 1..(Len(items) - 1) /\ ~(l - 1 < first) /\ (l - 1) + 1 = l /\ ~(l < first)
        BY <1>3, <2>2, <3>3
      <4>2. new[l - 1] = items[l]
        BY <2>2, <4>1
      <4> QED
        BY <2>4, <4>1, <4>2
    <3> QED
      BY <1>3, <2>2, <3>1, <3>2, <3>3
  <2>6. Following(new, ops, n, upto)
    <3> SUFFICES ASSUME NEW k \in DOMAIN new, NEW i \in Messages,
                        new[k].id < i, i <= upto,
                        ~Comes(ops, n, {"append"}, i)
                 PROVE  \E m \in DOMAIN new : m > k /\ new[m].id = i
      BY DEF Following
    <3>1. ~Comes(ops, n - 1, {"append"}, i)
      BY <1>7, <1>10
    <3>2. PICK p \in DOMAIN items :
              new[k] = items[p] /\ p = IF k < first THEN k ELSE k + 1
      <4>1. k \in 1..(Len(items) - 1)
        BY <2>4
      <4>2. k \in DOMAIN items /\ k + 1 \in DOMAIN items
        BY <1>3, <4>1
      <4> QED
        BY <2>2, <4>1, <4>2
    <3>3. PICK l \in DOMAIN items : l > p /\ items[l].id = i
      BY <3>1, <3>2 DEF Following
    <3>4. PICK m \in DOMAIN new : new[m].id = i /\ m = IF l < first THEN l ELSE l - 1
      BY <2>5, <3>3
    <3>5. l # first
      BY <2>3, <3>3
    <3>6. m > k
      <4>1. k \in Nat /\ l \in Nat /\ first \in Nat
        BY <1>3, <2>2, <2>4
      <4> QED
        BY <3>2, <3>3, <3>4, <3>5, <4>1
    <3> QED
      BY <3>4, <3>6
  <2>7. Present(new, ops, n, passed, upto)
    <3> SUFFICES ASSUME NEW i \in Messages, passed < i, i <= upto,
                        ~Comes(ops, n, {"append", "prepend"}, i)
                 PROVE  Has(new, i)
      BY DEF Present
    <3>1. Has(items, i)
      BY <1>7, <1>10 DEF Present
    <3>2. PICK l \in DOMAIN items : items[l].id = i
      BY <3>1 DEF Has
    <3> QED
      BY <2>5, <3>2 DEF Has
  <2> QED
    BY <2>6, <2>7
<1> QED
  BY <1>1, <1>4, <1>5, <1>6, <1>8, <1>9, <1>10 DEF Kinds

-----------------------------------------------------------------------------
(* What it is for items to be right.                                       *)

\* None of the event's edits arrived sealed.
Plain(i) == \A j \in Edits(i) : ~log[j].sealed

\* The operation of edit j of event i comes after the n-th.
Edited(ops, n, i, j) ==
    \E d \in (n + 1)..Len(ops) :
        ops[d].op = "update" /\ ops[d].item.id = i /\ ops[d].item.body = j

\* An item shows what the log said at length upto, or what it lacks is due.
Current(item, ops, n, upto) ==
    /\ item.body \in Edits(item.id) \cup {0}
    /\ \A j \in Edits(item.id) :
          j <= upto => j <= item.body \/ Edited(ops, n, item.id, j)
    /\ ~item.sealed =>
          /\ item.id \in DOMAIN log
          /\ log[item.id].type = "message"
          /\ Redacted(item.id, upto) => Comes(ops, n, {"remove"}, item.id)

\* Items untouched by a weakness, without sealed edits, are there once and
\* current.
Right(items, touched, ops, n, upto) ==
    \A k \in DOMAIN items :
        items[k].id \notin touched /\ Plain(items[k].id) =>
            /\ \A l \in DOMAIN items : items[l].id = items[k].id => l = k
            /\ Current(items[k], ops, n, upto)

\* What the operations bring of untouched events is what the log said.
Faithful(ops, touched, upto) ==
    \A d \in 1..Len(ops) :
        LET op == ops[d]  i == ops[d].item.id IN
        i \notin touched /\ Plain(i) =>
            /\ op.op \in {"append", "prepend"} => op.item.body = 0
            /\ op.op \in {"update", "replace"} => op.item.body \in Edits(i) \cup {0}
            /\ op.op = "append" => \A j \in Edits(i) : j <= upto => Edited(ops, d, i, j)
            /\ op.op = "prepend" => upto <= synced
            /\ op.op \in {"append", "prepend", "replace"} /\ ~op.item.sealed =>
                  i \in DOMAIN log /\ log[i].type = "message" /\ ~Redacted(i, upto)

\* An edit that comes after the operation before comes with this one or after it.
LEMMA EditedOn ==
    ASSUME NEW ops, Len(ops) \in Nat, NEW n \in 1..Len(ops), NEW i, NEW j,
           Edited(ops, n - 1, i, j)
    PROVE  \/ Edited(ops, n, i, j)
           \/ ops[n].op = "update" /\ ops[n].item.id = i /\ ops[n].item.body = j
<1>1. PICK d \in ((n - 1) + 1)..Len(ops) :
          ops[d].op = "update" /\ ops[d].item.id = i /\ ops[d].item.body = j
  BY DEF Edited
<1>2. d = n \/ d \in (n + 1)..Len(ops)
  OBVIOUS
<1> QED
  BY <1>1, <1>2 DEF Edited

\* An operation on another event, or one that adds, changes nothing about an item.
LEMMA CurrentOn ==
    ASSUME NEW ops, Len(ops) \in Nat, NEW n \in 1..Len(ops), NEW upto, NEW item,
           Current(item, ops, n - 1, upto),
           ops[n].item.id # item.id \/ ops[n].op \notin {"update", "remove"}
    PROVE  Current(item, ops, n, upto)
BY EditedOn, ComesOn DEF Current

\* Fewer items are as right as before.
LEMMA KeptIsRight ==
    ASSUME NEW new \in Seq(Item), NEW old \in Seq(Item), NEW from, Kept(new, old, from),
           NEW touched, NEW ops, NEW n, NEW upto, Right(old, touched, ops, n, upto)
    PROVE  Right(new, touched, ops, n, upto)
<1>1. DOMAIN new = 1..Len(new) /\ DOMAIN old = 1..Len(old)
      /\ Len(new) \in Nat /\ Len(old) \in Nat
  OBVIOUS
<1> SUFFICES ASSUME NEW k \in DOMAIN new, new[k].id \notin touched, Plain(new[k].id)
             PROVE  /\ \A l \in DOMAIN new : new[l].id = new[k].id => l = k
                    /\ Current(new[k], ops, n, upto)
  BY DEF Right
<1>2. from[k] \in DOMAIN old /\ new[k] = old[from[k]]
  BY <1>1 DEF Kept
<1>3. Current(new[k], ops, n, upto)
      /\ \A p \in DOMAIN old : old[p].id = new[k].id => p = from[k]
  BY <1>2 DEF Right
<1>4. ASSUME NEW l \in DOMAIN new, new[l].id = new[k].id PROVE l = k
  <2>1. from[l] = from[k]
    BY <1>1, <1>3, <1>4 DEF Kept
  <2>2. ~(l < k) /\ ~(k < l)
    <3>1. from[k] \in Nat /\ from[l] \in Nat
      BY <1>1 DEF Kept
    <3> QED
      BY <1>1, <2>1, <3>1 DEF Kept
  <2> QED
    BY <1>1, <2>2
<1> QED
  BY <1>3, <1>4

\* Trimming keeps the order of what stays.
LEMMA TrimIsKept ==
    ASSUME NEW S, NEW s \in Seq(S)
    PROVE  \E from : Kept(Trim(s), s, from)
<1>1. PICK cut \in 0..Len(s) :
          /\ Len(Trim(s)) = Len(s) - cut
          /\ \A k \in 1..(Len(s) - cut) : Trim(s)[k] = s[k + cut]
  BY TrimCuts
<1> DEFINE from == [k \in 1..Len(Trim(s)) |-> k + cut]
<1>2. Len(s) \in Nat /\ \A k \in 1..(Len(s) - cut) : k + cut \in 1..Len(s)
  OBVIOUS
<1>3. from \in [1..Len(Trim(s)) -> 1..Len(s)]
  BY <1>1, <1>2
<1>4. \A k \in 1..Len(Trim(s)) : Trim(s)[k] = s[from[k]]
  BY <1>1
<1>5. \A k, l \in 1..Len(Trim(s)) : k < l => from[k] < from[l]
  BY <1>1, <1>2
<1>6. Kept(Trim(s), s, from)
  BY <1>3, <1>4, <1>5 DEF Kept
<1> QED
  BY <1>6

\* What Mismatch tells of an event it does not name.
LEMMA Matches ==
    ASSUME NEW items, NEW op, op.item.id \notin Mismatch(items, op), op.op # "clear"
    PROVE  /\ op.op \in {"append", "prepend"} <=> ~Has(items, op.item.id)
           /\ op.op \in {"update", "replace"} /\ Has(items, op.item.id) =>
                 ~(op.item.body < items[First(items, op.item.id)].body)
           /\ op.op = "prepend" => \A j \in Edits(op.item.id) : ~(j <= synced)
BY DEF Mismatch

\* One operation before the trimming.
LEMMA ApplyKeepsRight ==
    ASSUME NEW items \in Seq(Item), NEW ops \in Seq(Ops), NEW n \in 1..Len(ops),
           NEW first, NEW touched, first \subseteq touched, NEW upto \in Nat,
           DOMAIN log \subseteq Nat, synced \in Nat, Faithful(ops, first, upto),
           Right(items, touched, ops, n - 1, upto)
    PROVE  Right(Apply(items, ops[n]), touched \cup Mismatch(items, ops[n]), ops, n, upto)
<1>0. PICK op \in Ops : op = ops[n]
  OBVIOUS
<1>1. op.op \in Kinds \cup {"clear"} /\ Len(ops) \in Nat
  BY OpKinds
<1>2. PICK new : new = Apply(items, op)
  OBVIOUS
<1>3. PICK id : id = op.item.id
  OBVIOUS
<1>4. PICK more : more = touched \cup Mismatch(items, op)
  OBVIOUS
<1>5. DOMAIN items = 1..Len(items) /\ Len(items) \in Nat
  OBVIOUS
<1> SUFFICES Right(new, more, ops, n, upto)
  BY <1>0, <1>2, <1>4
<1>6. ASSUME NEW i, i \notin more
      PROVE  i \notin touched /\ i \notin first /\ i \notin Mismatch(items, op)
  BY <1>4, <1>6
<1>7. \A i : Edits(i) \subseteq Nat
  BY DEF Edits
\* Items of other events stay as right as they were.
<1>8. ASSUME NEW k \in DOMAIN items, items[k].id \notin more, Plain(items[k].id),
             items[k].id # id \/ op.op \notin {"update", "remove"}
      PROVE  /\ \A l \in DOMAIN items : items[l].id = items[k].id => l = k
             /\ Current(items[k], ops, n, upto)
  <2>1. /\ \A l \in DOMAIN items : items[l].id = items[k].id => l = k
        /\ Current(items[k], ops, n - 1, upto)
    BY <1>6, <1>8 DEF Right
  <2>2. ops[n].item.id # items[k].id \/ ops[n].op \notin {"update", "remove"}
    BY <1>0, <1>3, <1>8
  <2> QED
    BY <1>1, <2>1, <2>2, CurrentOn
\* An event that is brought anew is right.
<1>9. ASSUME op.op \in {"append", "prepend"}, id \notin more, Plain(id)
      PROVE  ~Has(items, id) /\ Current(op.item, ops, n, upto)
  <2>1. id \notin first /\ id \notin Mismatch(items, op)
    BY <1>6, <1>9
  <2>2. /\ op.item.body = 0
        /\ op.op = "append" => \A j \in Edits(id) : j <= upto => Edited(ops, n, id, j)
        /\ op.op = "prepend" => upto <= synced
        /\ ~op.item.sealed =>
              id \in DOMAIN log /\ log[id].type = "message" /\ ~Redacted(id, upto)
    BY <1>0, <1>3, <1>9, <2>1 DEF Faithful
  <2>3. ~Has(items, id) /\ (op.op = "prepend" => \A j \in Edits(id) : ~(j <= synced))
    BY <1>3, <1>9, <2>1, Matches
  <2>4. ASSUME NEW j \in Edits(id), j <= upto PROVE Edited(ops, n, id, j)
    <3>1. CASE op.op = "append"
      BY <2>2, <2>4, <3>1
    <3>2. CASE op.op = "prepend"
      <4>1. j \in Nat /\ upto <= synced /\ ~(j <= synced)
        BY <1>7, <2>2, <2>3, <3>2
      <4> QED
        BY <2>4, <4>1
    <3> QED
      BY <1>9, <3>1, <3>2
  <2> QED
    BY <1>3, <2>2, <2>3, <2>4 DEF Current
<1>10. CASE op.op = "append"
  <2>1. /\ new \in Seq(Item)
        /\ Len(new) = Len(items) + 1
        /\ new[Len(items) + 1] = op.item
        /\ \A k \in 1..Len(items) : new[k] = items[k]
    BY <1>2, <1>10, AppendAdds
  <2>2. DOMAIN new = 1..(Len(items) + 1)
    BY <2>1
  <2> SUFFICES ASSUME NEW k \in DOMAIN new, new[k].id \notin more, Plain(new[k].id)
               PROVE  /\ \A l \in DOMAIN new : new[l].id = new[k].id => l = k
                      /\ Current(new[k], ops, n, upto)
    BY DEF Right
  <2>3. CASE k = Len(items) + 1
    <3>1. new[k] = op.item /\ new[k].id = id
      BY <1>3, <2>1, <2>3
    <3>2. ~Has(items, id) /\ Current(op.item, ops, n, upto)
      BY <1>9, <1>10, <3>1
    <3>3. ASSUME NEW l \in DOMAIN new, l # k PROVE new[l].id # id
      <4>1. l \in 1..Len(items)
        BY <1>5, <2>2, <2>3, <3>3
      <4> QED
        BY <1>5, <2>1, <3>2, <4>1 DEF Has
    <3> QED
      BY <3>1, <3>2, <3>3
  <2>4. CASE k # Len(items) + 1
    <3>1. k \in DOMAIN items /\ new[k] = items[k]
      BY <1>5, <2>1, <2>2, <2>4
    <3>2. items[k].id # id
      <4>1. SUFFICES ASSUME items[k].id = id PROVE FALSE
        OBVIOUS
      <4>2. ~Has(items, id)
        BY <1>9, <1>10, <3>1, <4>1
      <4> QED
        BY <3>1, <4>1, <4>2 DEF Has
    <3>3. /\ \A l \in DOMAIN items : items[l].id = items[k].id => l = k
          /\ Current(items[k], ops, n, upto)
      BY <1>8, <3>1, <3>2
    <3>4. ASSUME NEW l \in DOMAIN new, new[l].id = new[k].id PROVE l = k
      <4>1. l # Len(items) + 1
        BY <1>3, <2>1, <3>1, <3>2, <3>4
      <4>2. l \in DOMAIN items /\ new[l] = items[l]
        BY <1>5, <2>1, <2>2, <4>1
      <4> QED
        BY <3>1, <3>3, <3>4, <4>2
    <3> QED
      BY <3>1, <3>3, <3>4
  <2> QED
    BY <2>3, <2>4
<1>11. CASE op.op = "prepend"
  <2>1. /\ new \in Seq(Item)
        /\ Len(new) = Len(items) + 1
        /\ new[1] = op.item
        /\ \A k \in 1..Len(items) : new[k + 1] = items[k]
    BY <1>2, <1>11, PrependAdds
  <2>2. DOMAIN new = 1..(Len(items) + 1)
    BY <2>1
  <2>3. ASSUME NEW l \in DOMAIN new, l # 1
        PROVE  l - 1 \in DOMAIN items /\ new[l] = items[l - 1]
    <3>1. l - 1 \in 1..Len(items) /\ (l - 1) + 1 = l
      BY <1>5, <2>2, <2>3
    <3>2. new[(l - 1) + 1] = items[l - 1]
      BY <2>1, <3>1
    <3> QED
      BY <1>5, <3>1, <3>2
  <2> SUFFICES ASSUME NEW k \in DOMAIN new, new[k].id \notin more, Plain(new[k].id)
               PROVE  /\ \A l \in DOMAIN new : new[l].id = new[k].id => l = k
                      /\ Current(new[k], ops, n, upto)
    BY DEF Right
  <2>4. CASE k = 1
    <3>1. new[k] = op.item /\ new[k].id = id
      BY <1>3, <2>1, <2>4
    <3>2. ~Has(items, id) /\ Current(op.item, ops, n, upto)
      BY <1>9, <1>11, <3>1
    <3>3. \A l \in DOMAIN new : l # k => new[l].id # id
      BY <2>3, <2>4, <3>2 DEF Has
    <3> QED
      BY <3>1, <3>2, <3>3
  <2>5. CASE k # 1
    <3>1. k - 1 \in DOMAIN items /\ new[k] = items[k - 1]
      BY <2>3, <2>5
    <3>2. items[k - 1].id # id
      <4>1. SUFFICES ASSUME items[k - 1].id = id PROVE FALSE
        OBVIOUS
      <4>2. ~Has(items, id)
        BY <1>9, <1>11, <3>1, <4>1
      <4> QED
        BY <3>1, <4>1, <4>2 DEF Has
    <3>3. /\ \A l \in DOMAIN items : items[l].id = items[k - 1].id => l = k - 1
          /\ Current(items[k - 1], ops, n, upto)
      BY <1>8, <3>1, <3>2
    <3>4. ASSUME NEW l \in DOMAIN new, new[l].id = new[k].id PROVE l = k
      <4>1. l # 1
        BY <1>3, <2>1, <3>1, <3>2, <3>4
      <4>2. l - 1 \in DOMAIN items /\ new[l] = items[l - 1]
        BY <2>3, <4>1
      <4>3. l - 1 = k - 1
        BY <3>1, <3>3, <3>4, <4>2
      <4> QED
        BY <2>2, <4>3
    <3> QED
      BY <3>1, <3>3, <3>4
  <2> QED
    BY <2>4, <2>5
<1>12. CASE op.op = "clear"
  <2>1. new = <<>>
    BY <1>2, <1>12, ClearEmpties
  <2> QED
    BY <2>1 DEF Right
<1>13. CASE op.op \in {"update", "replace", "remove"} /\ ~Has(items, id)
  <2>1. new = items
    BY <1>2, <1>3, <1>13, AbsentIsNoChange
  <2>2. ASSUME NEW k \in DOMAIN items PROVE items[k].id # id
    BY <1>13, <2>2 DEF Has
  <2> QED
    BY <1>8, <2>1, <2>2 DEF Right
<1>14. CASE op.op \in {"update", "replace"} /\ Has(items, id)
  <2>1. PICK place : place = First(items, id)
    OBVIOUS
  <2>2. /\ new \in Seq(Item)
        /\ Len(new) = Len(items)
        /\ place \in 1..Len(items)
        /\ items[place].id = id
        /\ \A k \in 1..Len(items) : new[k].id = items[k].id
        /\ \A k \in 1..Len(items) : k # place => new[k] = items[k]
        /\ new[place].body = op.item.body
        /\ new[place].sealed =
              IF op.op = "replace" THEN op.item.sealed ELSE items[place].sealed
    BY <1>2, <1>3, <1>14, <2>1, ChangeKeepsPlaces
  <2>3. DOMAIN new = DOMAIN items
    BY <1>5, <2>2
  <2> SUFFICES ASSUME NEW k \in DOMAIN new, new[k].id \notin more, Plain(new[k].id)
               PROVE  /\ \A l \in DOMAIN new : new[l].id = new[k].id => l = k
                      /\ Current(new[k], ops, n, upto)
    BY DEF Right
  <2>4. k \in 1..Len(items) /\ items[k].id \notin more /\ Plain(items[k].id)
    BY <1>5, <2>2, <2>3
  <2>5. /\ \A l \in DOMAIN items : items[l].id = items[k].id => l = k
        /\ Current(items[k], ops, n - 1, upto)
    BY <1>5, <1>6, <2>4 DEF Right
  <2>6. \A l \in DOMAIN new : new[l].id = new[k].id => l = k
    BY <1>5, <2>2, <2>3, <2>4, <2>5
  <2>7. CASE k # place
    <3>1. items[k].id # id
      BY <1>5, <2>2, <2>5, <2>7
    <3>2. Current(items[k], ops, n, upto)
      BY <1>5, <1>8, <2>4, <3>1
    <3> QED
      BY <2>2, <2>4, <2>6, <2>7, <3>2
  <2>8. CASE k = place
    <3>1. id \notin first /\ id \notin Mismatch(items, op) /\ Plain(id) /\ new[k].id = id
      BY <1>6, <2>2, <2>4, <2>8
    <3>2. ~(op.item.body < items[k].body)
      BY <1>3, <1>14, <2>1, <2>8, <3>1, Matches
    <3>3. /\ op.item.body \in Edits(id) \cup {0}
          /\ op.op = "replace" /\ ~op.item.sealed =>
                id \in DOMAIN log /\ log[id].type = "message" /\ ~Redacted(id, upto)
      BY <1>0, <1>3, <1>14, <3>1 DEF Faithful
    <3>4. new[k].body = op.item.body /\ new[k].body \in Nat /\ items[k].body \in Nat
          /\ items[k].body <= new[k].body
      <4>1. new[k].body = op.item.body
        BY <2>2, <2>8
      <4>2. items[k].body \in Edits(id) \cup {0}
        BY <2>2, <2>5, <2>8 DEF Current
      <4> QED
        BY <1>7, <3>2, <3>3, <4>1, <4>2
    <3>5. ASSUME NEW j \in Edits(id), j <= upto
          PROVE  j <= new[k].body \/ Edited(ops, n, id, j)
      <4>1. j <= items[k].body \/ Edited(ops, n - 1, id, j)
        BY <2>2, <2>5, <2>8, <3>5 DEF Current
      <4>2. j \in Nat
        BY <1>7
      <4>3. CASE j <= items[k].body
        BY <3>4, <4>2, <4>3
      <4>4. CASE Edited(ops, n - 1, id, j)
        <5>1. Edited(ops, n, id, j) \/ op.item.body = j
          BY <1>0, <1>1, <4>4, EditedOn
        <5> QED
          BY <3>4, <4>2, <5>1
      <4> QED
        BY <4>1, <4>3, <4>4
    <3>6. ASSUME ~new[k].sealed
          PROVE  /\ id \in DOMAIN log /\ log[id].type = "message"
                 /\ Redacted(id, upto) => Comes(ops, n, {"remove"}, id)
      <4>1. CASE op.op = "replace"
        BY <2>2, <2>8, <3>3, <3>6, <4>1
      <4>2. CASE op.op = "update"
        <5>1. ~items[k].sealed
          BY <2>2, <2>8, <3>6, <4>2
        <5>2. /\ id \in DOMAIN log /\ log[id].type = "message"
              /\ Redacted(id, upto) => Comes(ops, n - 1, {"remove"}, id)
          BY <2>2, <2>5, <2>8, <5>1 DEF Current
        <5>3. Comes(ops, n - 1, {"remove"}, id) => Comes(ops, n, {"remove"}, id)
          BY <1>0, <1>1, <4>2, ComesOn
        <5> QED
          BY <5>2, <5>3
      <4> QED
        BY <1>14, <4>1, <4>2
    <3>7. Current(new[k], ops, n, upto)
      BY <3>1, <3>3, <3>4, <3>5, <3>6 DEF Current
    <3> QED
      BY <2>6, <3>7
  <2> QED
    BY <2>7, <2>8
<1>15. CASE op.op = "remove" /\ Has(items, id)
  <2>1. PICK place : place = First(items, id)
    OBVIOUS
  <2>2. /\ new \in Seq(Item)
        /\ Len(new) = Len(items) - 1
        /\ place \in 1..Len(items)
        /\ items[place].id = id
        /\ \A k \in 1..(Len(items) - 1) :
              new[k] = IF k < place THEN items[k] ELSE items[k + 1]
    BY <1>2, <1>3, <1>15, <2>1, RemoveTakesOne
  <2> DEFINE from == [k \in 1..Len(new) |-> IF k < place THEN k ELSE k + 1]
  <2>3. \A k \in 1..Len(new) : from[k] \in 1..Len(items) /\ from[k] # place
                               /\ new[k] = items[from[k]]
    BY <1>5, <2>2
  <2>4. Kept(new, items, from)
    <3>1. \A k, l \in 1..Len(new) : k < l => from[k] < from[l]
      BY <1>5, <2>2
    <3> QED
      BY <2>3, <3>1 DEF Kept
  <2>5. DOMAIN new = 1..Len(new)
    BY <2>2
  <2> HIDE DEF from
  <2>6. Right(new, touched, ops, n - 1, upto)
    BY <2>2, <2>4, KeptIsRight
  <2> SUFFICES ASSUME NEW k \in DOMAIN new, new[k].id \notin more, Plain(new[k].id)
               PROVE  /\ \A l \in DOMAIN new : new[l].id = new[k].id => l = k
                      /\ Current(new[k], ops, n, upto)
    BY DEF Right
  <2>7. /\ \A l \in DOMAIN new : new[l].id = new[k].id => l = k
        /\ Current(new[k], ops, n - 1, upto)
    BY <1>6, <2>6 DEF Right
  <2>8. new[k].id # id
    <3>1. SUFFICES ASSUME new[k].id = id PROVE FALSE
      OBVIOUS
    <3>2. from[k] \in DOMAIN items /\ from[k] # place /\ items[from[k]].id = id
          /\ items[from[k]].id \notin touched /\ Plain(items[from[k]].id)
      BY <1>5, <1>6, <2>3, <2>5, <3>1
    <3>3. place = from[k]
      BY <1>5, <2>2, <3>2 DEF Right
    <3> QED
      BY <3>2, <3>3
  <2>9. Current(new[k], ops, n, upto)
    BY <1>0, <1>1, <1>3, <2>7, <2>8, CurrentOn
  <2> QED
    BY <2>7, <2>9
<1> QED
  BY <1>1, <1>10, <1>11, <1>12, <1>13, <1>14, <1>15 DEF Kinds

-----------------------------------------------------------------------------
(* The relay of a delta, operation by operation.                           *)

\* Every loop runs: it has a value after each element.
LEMMA RelayRuns ==
    ASSUME NEW base, NEW s, Len(s) \in Nat
    PROVE  \E run :
              /\ run[0] = base
              /\ \A k \in 1..Len(s) : run[k] = RelayOp(run[k - 1], s[k])
              /\ RelayOps(base, s) = run[Len(s)]
<1> DEFINE Runs(f, n) == f = [k \in 0..n |-> IF k = 0 THEN base ELSE RelayOp(f[k - 1], s[k])]
           P == {n \in Nat : \E f : Runs(f, n)}
<1>1. 0 \in P
  <2>1. Runs([k \in 0..0 |-> base], 0)
    OBVIOUS
  <2> HIDE DEF Runs
  <2> QED
    BY <2>1
<1>2. ASSUME NEW n \in Nat, n \in P PROVE n + 1 \in P
  <2>1. PICK f : Runs(f, n)
    BY <1>2
  <2> DEFINE g == [k \in 0..(n + 1) |-> IF k = 0 THEN base ELSE RelayOp(f[k - 1], s[k])]
  <2>2. ASSUME NEW k \in 0..n PROVE g[k] = f[k]
    BY <2>1
  <2>3. \A k \in 0..(n + 1) : k # 0 => k - 1 \in 0..n
    OBVIOUS
  <2>4. \A k \in 0..(n + 1) : g[k] = IF k = 0 THEN base ELSE RelayOp(g[k - 1], s[k])
    BY <2>2, <2>3
  <2>5. \E h : Runs(h, n + 1)
    <3>1. Runs(g, n + 1)
      BY <2>4
    <3> HIDE DEF Runs, g
    <3> QED
      BY <3>1
  <2> HIDE DEF Runs
  <2> QED
    BY <2>5
<1>3. \E f : Runs(f, Len(s))
  <2> HIDE DEF Runs
  <2>1. \A n \in Nat : n \in P
    <3> HIDE DEF P
    <3> QED
      BY <1>1, <1>2, Induction
  <2> QED
    BY <2>1
<1> DEFINE run == CHOOSE f : Runs(f, Len(s))
<1>4. RelayOps(base, s) = run[Len(s)]
  BY DEF RelayOps, Loop
<1>5. Runs(run, Len(s))
  <2> HIDE DEF Runs
  <2> QED
    BY <1>3
<1> HIDE DEF run
<1>6. run[0] = base /\ \A k \in 1..Len(s) : run[k] = RelayOp(run[k - 1], s[k])
  BY <1>5
<1> QED
  BY <1>4, <1>6

\* The three results of one operation of the relay.
LEMMA RelayOpParts ==
    ASSUME NEW acc, NEW op, NEW next, next = RelayOp(acc, op)
    PROVE  /\ next.items = Trim(Apply(acc.items, op))
           /\ next.spoilt = acc.spoilt \cup Mismatch(acc.items, op)
           /\ next.dropped = acc.dropped \cup
                 (Shows(Apply(acc.items, op)) \ Shows(Trim(Apply(acc.items, op))))
BY DEF RelayOp

\* What the relay of operations leaves: items of the right type, no more than the
\* buffer takes, and only events of the log spoilt.
LEMMA RelayKeepsType ==
    ASSUME NEW start, start.items \in Seq(Item), Len(start.items) <= MaxItems,
           start.spoilt \subseteq Ids, NEW ops \in Seq(Ops),
           \A d \in 1..Len(ops), i \in Ids :
              ops[d].item.id = i /\ log[i].type = "edit" => log[i].of \in Ids,
           NEW done, done = RelayOps(start, ops)
    PROVE  /\ done.items \in Seq(Item)
           /\ Len(done.items) <= MaxItems
           /\ start.spoilt \subseteq done.spoilt
           /\ done.spoilt \subseteq Ids
<1>1. Len(ops) \in Nat
  OBVIOUS
<1>2. PICK run :
          /\ run[0] = start
          /\ \A k \in 1..Len(ops) : run[k] = RelayOp(run[k - 1], ops[k])
          /\ done = run[Len(ops)]
  <2>1. \E run :
          /\ run[0] = start
          /\ \A k \in 1..Len(ops) : run[k] = RelayOp(run[k - 1], ops[k])
          /\ RelayOps(start, ops) = run[Len(ops)]
    BY ONLY <1>1, RelayRuns
  <2> QED
    BY <2>1
<1> DEFINE Good(acc) == /\ acc.items \in Seq(Item)
                        /\ Len(acc.items) <= MaxItems
                        /\ start.spoilt \subseteq acc.spoilt
                        /\ acc.spoilt \subseteq Ids
           P == {k \in Nat : Good(run[k])}
<1>3. 0 \in P
  BY <1>2
<1>4. ASSUME NEW n \in 1..Len(ops), n - 1 \in P PROVE n \in P
  <2>1. PICK acc : acc = run[n - 1]
    OBVIOUS
  <2>2. PICK op \in Ops : op = ops[n]
    OBVIOUS
  <2>3. Good(acc) /\ run[n] = RelayOp(acc, op)
    BY <1>2, <1>4, <2>1, <2>2
  <2>4. PICK next : next = RelayOp(acc, op)
    OBVIOUS
  <2>5. next.items = Trim(Apply(acc.items, op))
        /\ next.spoilt = acc.spoilt \cup Mismatch(acc.items, op)
    BY <2>4, RelayOpParts
  <2>6. next.items \in Seq(Item) /\ Len(next.items) <= MaxItems
    BY <2>3, <2>5, ApplyKeepsType, TrimCuts
  <2>7. Mismatch(acc.items, op) \subseteq Ids
    <3>1. op.op # "clear" => op.item.id \in Ids
      BY OpKinds DEF Item
    <3>2. op.op \in {"append", "prepend"} /\ log[op.item.id].type = "edit"
          => log[op.item.id].of \in Ids
      BY <2>2, <3>1
    <3> QED
      BY <3>1, <3>2 DEF Mismatch
  <2>8. Good(next)
    BY <2>3, <2>5, <2>6, <2>7
  <2> QED
    BY <2>3, <2>4, <2>8
<1> HIDE DEF P
<1>5. Len(ops) \in P
  <2>1. \A n \in 1..Len(ops) : n - 1 \in P => n \in P
    BY <1>4
  <2>2. \A n \in 0..Len(ops) : n \in P
    BY ONLY <1>1, <1>3, <2>1, InductionUpTo
  <2> QED
    BY <1>1, <2>2
<1> QED
  BY <1>2, <1>5 DEF P

\* The items go, when the operations after the n-th are done.
Clears(ops, n) == \E d \in (n + 1)..Len(ops) : ops[d].op = "clear"

\* Orderly operations keep the items in order, unless the buffer drops what no page
\* of history brings again.
LEMMA RelayKeepsOrder ==
    ASSUME NEW start, start.items \in Seq(Item), NEW ops \in Seq(Ops),
           NEW passed \in Nat, NEW upto \in Nat, Messages \subseteq Nat,
           Orderly(ops, passed, upto),
           Clears(ops, 0) \/ Following(start.items, ops, 0, upto),
           Present(start.items, ops, 0, passed, upto),
           NEW done, done = RelayOps(start, ops), \A i \in done.dropped : i <= passed
    PROVE  /\ Following(done.items, ops, Len(ops), upto)
           /\ Present(done.items, ops, Len(ops), passed, upto)
<1>1. Len(ops) \in Nat
  OBVIOUS
<1>2. PICK run :
          /\ run[0] = start
          /\ \A k \in 1..Len(ops) : run[k] = RelayOp(run[k - 1], ops[k])
          /\ done = run[Len(ops)]
  <2>1. \E run :
          /\ run[0] = start
          /\ \A k \in 1..Len(ops) : run[k] = RelayOp(run[k - 1], ops[k])
          /\ RelayOps(start, ops) = run[Len(ops)]
    BY ONLY <1>1, RelayRuns
  <2> QED
    BY <2>1
<1> DEFINE Good(acc, k) ==
              /\ acc.items \in Seq(Item)
              /\ (\A i \in acc.dropped : i <= passed) =>
                    /\ Clears(ops, k) \/ Following(acc.items, ops, k, upto)
                    /\ Present(acc.items, ops, k, passed, upto)
           P == {k \in Nat : Good(run[k], k)}
<1>3. 0 \in P
  BY <1>2
<1>4. ASSUME NEW n \in 1..Len(ops), n - 1 \in P PROVE n \in P
  <2>1. PICK acc : acc = run[n - 1]
    OBVIOUS
  <2>2. PICK op \in Ops : op = ops[n]
    OBVIOUS
  <2>3. Good(acc, n - 1) /\ run[n] = RelayOp(acc, op)
    BY <1>2, <1>4, <2>1, <2>2
  <2>4. PICK next : next = RelayOp(acc, op)
    OBVIOUS
  <2>5. PICK all \in Seq(Item) : all = Apply(acc.items, op)
    BY <2>3, ApplyKeepsType
  <2>6. next.items = Trim(all)
        /\ next.dropped = acc.dropped \cup (Shows(all) \ Shows(Trim(all)))
    BY <2>4, <2>5, RelayOpParts
  <2>7. next.items \in Seq(Item)
    BY <2>6, TrimCuts
  <2>8. ASSUME \A i \in next.dropped : i <= passed
        PROVE  /\ Clears(ops, n) \/ Following(next.items, ops, n, upto)
               /\ Present(next.items, ops, n, passed, upto)
    <3>1. /\ \A i \in acc.dropped : i <= passed
          /\ \A i \in Shows(all) \ Shows(Trim(all)) : i <= passed
      BY <2>6, <2>8
    <3>2. CASE Clears(ops, n - 1)
      <4>1. PICK d \in ((n - 1) + 1)..Len(ops) : ops[d].op = "clear"
        BY <3>2 DEF Clears
      <4>2. upto <= passed /\ d \in 1..Len(ops)
        BY <4>1 DEF Orderly
      <4>3. Present(next.items, ops, n, passed, upto)
        <5>1. ASSUME NEW i \in Messages PROVE ~(passed < i /\ i <= upto)
          BY <4>2, i \in Nat
        <5> HIDE DEF Good, P
        <5> QED
          BY <5>1 DEF Present
      <4>4. CASE d = n
        <5>1. all = <<>>
          BY <2>2, <2>5, <4>1, <4>4, ClearEmpties
        <5>2. Following(all, ops, n, upto) /\ Present(all, ops, n, passed, upto)
          BY <4>2, <5>1 DEF Following, Present
        <5> QED
          BY <2>6, <3>1, <5>2, TrimKeepsOrder
      <4>5. CASE d # n
        BY <4>1, <4>3, <4>5 DEF Clears
      <4> QED
        BY <4>4, <4>5
    <3>3. CASE ~Clears(ops, n - 1)
      <4>1. /\ Following(acc.items, ops, n - 1, upto)
            /\ Present(acc.items, ops, n - 1, passed, upto)
        BY <2>3, <3>1, <3>3
      <4>2. Following(all, ops, n, upto) /\ Present(all, ops, n, passed, upto)
        BY <2>2, <2>3, <2>5, <4>1, ApplyKeepsOrder
      <4> QED
        BY <2>6, <3>1, <4>2, TrimKeepsOrder
    <3> QED
      BY <3>2, <3>3
  <2>9. Good(next, n)
    BY <2>7, <2>8
  <2> HIDE DEF Good
  <2> QED
    BY <2>3, <2>4, <2>9
<1> HIDE DEF P
<1>5. Len(ops) \in P
  <2>1. \A n \in 1..Len(ops) : n - 1 \in P => n \in P
    BY <1>4
  <2>2. \A n \in 0..Len(ops) : n \in P
    BY ONLY <1>1, <1>3, <2>1, InductionUpTo
  <2> QED
    BY <1>1, <2>2
<1>6. ~Clears(ops, Len(ops))
  BY <1>1 DEF Clears
<1> QED
  BY <1>2, <1>5, <1>6 DEF P

\* Faithful operations keep right what they do not spoil.
LEMMA RelayKeepsRight ==
    ASSUME NEW start, start.items \in Seq(Item), NEW ops \in Seq(Ops), NEW upto \in Nat,
           DOMAIN log \subseteq Nat, synced \in Nat, Faithful(ops, start.spoilt, upto),
           Right(start.items, start.spoilt, ops, 0, upto),
           NEW done, done = RelayOps(start, ops)
    PROVE  Right(done.items, done.spoilt, ops, Len(ops), upto)
<1>1. Len(ops) \in Nat
  OBVIOUS
<1>2. PICK run :
          /\ run[0] = start
          /\ \A k \in 1..Len(ops) : run[k] = RelayOp(run[k - 1], ops[k])
          /\ done = run[Len(ops)]
  <2>1. \E run :
          /\ run[0] = start
          /\ \A k \in 1..Len(ops) : run[k] = RelayOp(run[k - 1], ops[k])
          /\ RelayOps(start, ops) = run[Len(ops)]
    BY ONLY <1>1, RelayRuns
  <2> QED
    BY <2>1
<1> DEFINE Good(acc, k) == /\ acc.items \in Seq(Item)
                           /\ start.spoilt \subseteq acc.spoilt
                           /\ Right(acc.items, acc.spoilt, ops, k, upto)
           P == {k \in Nat : Good(run[k], k)}
<1>3. 0 \in P
  BY <1>2
<1>4. ASSUME NEW n \in 1..Len(ops), n - 1 \in P PROVE n \in P
  <2>1. PICK acc : acc = run[n - 1]
    OBVIOUS
  <2>2. PICK op \in Ops : op = ops[n]
    OBVIOUS
  <2>3. Good(acc, n - 1) /\ run[n] = RelayOp(acc, op)
    BY <1>2, <1>4, <2>1, <2>2
  <2>4. PICK next : next = RelayOp(acc, op)
    OBVIOUS
  <2>5. PICK all \in Seq(Item) : all = Apply(acc.items, op)
    BY <2>3, ApplyKeepsType
  <2>6. PICK more : more = acc.spoilt \cup Mismatch(acc.items, op)
    OBVIOUS
  <2>7. next.items = Trim(all) /\ next.spoilt = more
    BY <2>4, <2>5, <2>6, RelayOpParts
  <2>8. Right(all, more, ops, n, upto)
    BY <2>2, <2>3, <2>5, <2>6, ApplyKeepsRight
  <2>9. PICK from : Kept(Trim(all), all, from)
    BY TrimIsKept
  <2>10. Trim(all) \in Seq(Item)
    BY TrimCuts
  <2>11. Right(Trim(all), more, ops, n, upto)
    BY <2>8, <2>9, <2>10, KeptIsRight
  <2>12. Good(next, n)
    BY <2>3, <2>6, <2>7, <2>10, <2>11
  <2> HIDE DEF Good
  <2> QED
    BY <2>3, <2>4, <2>12
<1> HIDE DEF P
<1>5. Len(ops) \in P
  <2>1. \A n \in 1..Len(ops) : n - 1 \in P => n \in P
    BY <1>4
  <2>2. \A n \in 0..Len(ops) : n \in P
    BY ONLY <1>1, <1>3, <2>1, InductionUpTo
  <2> QED
    BY <1>1, <2>2
<1> QED
  BY <1>2, <1>5 DEF P

-----------------------------------------------------------------------------
(* The log, and the operations of its events.                              *)

\* The room's log: edits and redactions name an earlier message.
LogInv ==
    /\ log \in Seq(Event) /\ Len(log) <= MaxEvents
    /\ \A i \in DOMAIN log :
          log[i].type # "message" =>
              log[i].of \in 1..(i - 1) /\ log[log[i].of].type = "message"

\* Where the log's events and messages are.
LEMMA LogFacts ==
    ASSUME LogInv
    PROVE  /\ DOMAIN log = 1..Len(log) /\ Len(log) \in Nat
           /\ DOMAIN log \subseteq Ids /\ DOMAIN log \subseteq Nat
           /\ Messages \subseteq DOMAIN log
           /\ \A i \in DOMAIN log : log[i] \in Event
           /\ \A i : Edits(i) \subseteq DOMAIN log
<1>1. log \in Seq(Event) /\ Len(log) <= MaxEvents /\ MaxEvents \in Nat
  BY TimelineAssumption DEF LogInv
<1>2. DOMAIN log = 1..Len(log) /\ Len(log) \in Nat /\ \A i \in DOMAIN log : log[i] \in Event
  BY <1>1
<1>3. \A i \in DOMAIN log : i \in Nat /\ i \in Ids
  BY <1>1, <1>2 DEF Ids
<1> QED
  BY <1>2, <1>3 DEF Messages, Edits

\* A redaction is not taken back.
LEMMA RedactedStays ==
    ASSUME LogInv, NEW i, NEW m \in Nat, NEW n \in Nat, m <= n, Redacted(i, m)
    PROVE  Redacted(i, n)
<1>1. PICK j \in 1..m : log[j].type = "redaction" /\ log[j].of = i
  BY DEF Redacted
<1>2. j \in 1..n
  OBVIOUS
<1> QED
  BY <1>1, <1>2 DEF Redacted

\* What the operation of an event is.
LEMMA OpOfIs ==
    ASSUME LogInv, NEW i \in DOMAIN log, NEW n \in 0..Len(log), NEW readable,
           NEW insert \in {"append", "prepend"}, NEW o, o = OpOf(i, n, readable, insert)
    PROVE  /\ o.op # "none" => o \in Ops /\ o # Clear
           /\ o.op \in {"none", insert, "update", "remove"}
           /\ o.op = insert =>
                 /\ o.item.id = i /\ o.item.body = 0
                 /\ ~o.item.sealed => log[i].type = "message" /\ ~Redacted(i, n)
           /\ o.op = "update" => i \in Edits(o.item.id) /\ o.item.body = i
           /\ o.op \in {"update", "remove"} => o.item.id \in 1..(i - 1)
           /\ o.op = "remove" => o.item.id \notin Messages
           /\ i \in Messages => o.op = insert
           /\ log[i].type = "edit" /\ ~log[i].sealed =>
                 o.op = "update" /\ o.item.id = log[i].of
           /\ log[i].type = "redaction" => o.op = "remove" /\ o.item.id = log[i].of
<1>1. /\ DOMAIN log = 1..Len(log) /\ Len(log) \in Nat
      /\ i \in Ids /\ i \in Nat /\ log[i] \in Event
      /\ log[i].type # "message" =>
            log[i].of \in 1..(i - 1) /\ log[log[i].of].type = "message"
  BY LogFacts DEF LogInv
<1>2. log[i].type # "message" => log[i].of \in Ids /\ log[i].of \in DOMAIN log
  <2> SUFFICES ASSUME log[i].type # "message"
               PROVE  log[i].of \in Ids /\ log[i].of \in DOMAIN log
    OBVIOUS
  <2>1. log[i].of \in 1..Len(log) /\ Len(log) <= MaxEvents /\ MaxEvents \in Nat
    BY <1>1, TimelineAssumption DEF LogInv
  <2> QED
    BY <1>1, <2>1 DEF Ids
<1>3. 0 \in 0..MaxEvents /\ i \in 0..MaxEvents
  <2>1. MaxEvents \in Nat
    BY TimelineAssumption
  <2> QED
    BY <1>1, <2>1 DEF Ids
<1>4. log[i].type \in {"message", "edit", "redaction"}
  BY <1>1 DEF Event
<1>6. i \in Messages => ~Redacted(i, n) /\ log[i].type = "message"
  <2> SUFFICES ASSUME i \in Messages PROVE ~Redacted(i, n) /\ log[i].type = "message"
    OBVIOUS
  <2>1. log[i].type = "message" /\ ~Redacted(i, Len(log))
    BY DEF Messages
  <2> QED
    BY <1>1, <2>1, RedactedStays
<1>7. log[i].type = "redaction" => log[i].of \notin Messages
  <2> SUFFICES ASSUME log[i].type = "redaction" PROVE Redacted(log[i].of, Len(log))
    BY DEF Messages
  <2> QED
    BY <1>1 DEF Redacted
<1>8. log[i].type = "edit" => ~Redacted(i, n)
  <2> SUFFICES ASSUME log[i].type = "edit", Redacted(i, n) PROVE FALSE
    OBVIOUS
  <2>1. PICK j \in 1..n : log[j].type = "redaction" /\ log[j].of = i
    BY DEF Redacted
  <2>2. j \in DOMAIN log
    BY <1>1
  <2> QED
    BY <2>1, <2>2 DEF LogInv
<1>9. "remove" \in Kinds /\ "update" \in Kinds /\ insert \in Kinds
      /\ insert # "update" /\ insert # "remove" /\ insert # "none"
  BY DEF Kinds
<1>10. CASE log[i].type = "redaction"
  <2>1. o = Op("remove", log[i].of, FALSE, 0)
    BY <1>10 DEF OpOf
  <2>2. /\ o \in Ops /\ o # Clear /\ o.op = "remove" /\ o.item.id = log[i].of
    BY <1>2, <1>3, <1>9, <1>10, <2>1 DEF Op, Ops, Item, Clear
  <2>3. i \notin Messages
    BY <1>6, <1>10
  <2> QED
    BY <1>1, <1>7, <1>9, <1>10, <2>2, <2>3
<1>11. CASE log[i].type # "redaction" /\ log[i].sealed /\ (~readable \/ Redacted(i, n))
  <2>1. o = Op(insert, i, TRUE, 0)
    BY <1>11 DEF OpOf
  <2>2. /\ o \in Ops /\ o # Clear /\ o.op = insert /\ o.item.id = i
        /\ o.item.sealed = TRUE /\ o.item.body = 0
    BY <1>1, <1>3, <1>9, <2>1 DEF Op, Ops, Item, Clear
  <2> QED
    BY <1>9, <1>11, <2>2
<1>12. CASE /\ log[i].type # "redaction" /\ ~(log[i].sealed /\ (~readable \/ Redacted(i, n)))
            /\ Redacted(i, n)
  <2>1. o = Op("none", i, FALSE, 0)
    BY <1>12 DEF OpOf
  <2>2. o.op = "none"
    BY <2>1 DEF Op
  <2> QED
    BY <1>6, <1>8, <1>9, <1>12, <2>2
<1>13. CASE /\ log[i].type # "redaction" /\ ~(log[i].sealed /\ (~readable \/ Redacted(i, n)))
            /\ ~Redacted(i, n) /\ log[i].type = "edit"
  <2>1. o = Op("update", log[i].of, FALSE, i)
    BY <1>13 DEF OpOf
  <2>2. /\ o \in Ops /\ o # Clear /\ o.op = "update" /\ o.item.id = log[i].of
        /\ o.item.body = i
    BY <1>2, <1>3, <1>9, <1>13, <2>1 DEF Op, Ops, Item, Clear
  <2>3. i \in Edits(o.item.id)
    BY <1>13, <2>2 DEF Edits
  <2> QED
    BY <1>1, <1>6, <1>9, <1>13, <2>2, <2>3
<1>14. CASE /\ log[i].type # "redaction" /\ ~(log[i].sealed /\ (~readable \/ Redacted(i, n)))
            /\ ~Redacted(i, n) /\ log[i].type # "edit"
  <2>1. o = Op(insert, i, FALSE, 0)
    BY <1>14 DEF OpOf
  <2>2. /\ o \in Ops /\ o # Clear /\ o.op = insert /\ o.item.id = i
        /\ o.item.sealed = FALSE /\ o.item.body = 0
    BY <1>1, <1>3, <1>9, <2>1 DEF Op, Ops, Item, Clear
  <2>3. log[i].type = "message"
    BY <1>4, <1>14
  <2> QED
    BY <1>9, <1>14, <2>2, <2>3
<1> QED
  BY <1>10, <1>11, <1>12, <1>13, <1>14

\* b holds the operations of the events after from, up to to, that have one, in the
\* order of the log; at says of which event each is.
Lists(b, at, from, to, n, readable, insert) ==
    /\ at \in [1..Len(b) -> (from + 1)..to]
    /\ \A k \in 1..Len(b) : /\ b[k] = OpOf(at[k], n, readable, insert)
                            /\ b[k].op # "none"
    /\ \A k, l \in 1..Len(b) : k < l => at[k] < at[l]
    /\ \A i \in (from + 1)..to :
          OpOf(i, n, readable, insert).op # "none" => \E k \in 1..Len(b) : at[k] = i

\* Between makes such a list.
LEMMA BetweenLists ==
    ASSUME NEW from \in Nat, NEW to \in Nat, NEW n, NEW readable, NEW insert,
           NEW b, b = Between(from, to, n, readable, insert)
    PROVE  /\ Len(b) \in Nat /\ DOMAIN b = 1..Len(b)
           /\ \E at : Lists(b, at, from, to, n, readable, insert)
<1> DEFINE shown == {i \in (from + 1)..to : OpOf(i, n, readable, insert).op # "none"}
           size == Cardinality(shown)
           at == [k \in 1..size |-> Nth(shown, k)]
<1>1. shown \in SUBSET Nat /\ IsFiniteSet(shown)
  <2>1. IsFiniteSet((from + 1)..to)
    BY FS_Interval
  <2>2. shown \in SUBSET ((from + 1)..to)
    OBVIOUS
  <2> QED
    BY <2>1, <2>2, FS_Subset
<1>2. b = [k \in 1..size |-> OpOf(Nth(shown, k), n, readable, insert)]
  BY DEF Between
<1>3. /\ size \in Nat
      /\ \A k \in 1..size : Nth(shown, k) \in shown
      /\ \A k, l \in 1..size : k < l => Nth(shown, k) < Nth(shown, l)
      /\ \A i \in shown : \E k \in 1..size : Nth(shown, k) = i
  <2> HIDE DEF shown
  <2> QED
    BY <1>1, NthLists
<1>4. \A i \in shown : i \in (from + 1)..to /\ OpOf(i, n, readable, insert).op # "none"
  OBVIOUS
<1>5. ASSUME NEW i \in (from + 1)..to, OpOf(i, n, readable, insert).op # "none"
      PROVE  i \in shown
  BY <1>5
<1> HIDE DEF shown, size
<1>6. Len(b) = size /\ DOMAIN b = 1..size
  BY <1>2, <1>3
<1>7. at \in [1..size -> (from + 1)..to]
  BY <1>3, <1>4
<1>8. \A k \in 1..size : b[k] = OpOf(at[k], n, readable, insert) /\ b[k].op # "none"
  BY <1>2, <1>3, <1>4
<1>9. \A k, l \in 1..size : k < l => at[k] < at[l]
  BY <1>3
<1>10. \A i \in (from + 1)..to :
          OpOf(i, n, readable, insert).op # "none" => \E k \in 1..size : at[k] = i
  BY <1>3, <1>5
<1> HIDE DEF at
<1>11. /\ at \in [1..Len(b) -> (from + 1)..to]
       /\ \A k \in 1..Len(b) : b[k] = OpOf(at[k], n, readable, insert) /\ b[k].op # "none"
       /\ \A k, l \in 1..Len(b) : k < l => at[k] < at[l]
       /\ \A i \in (from + 1)..to :
             OpOf(i, n, readable, insert).op # "none" => \E k \in 1..Len(b) : at[k] = i
  BY <1>6, <1>7, <1>8, <1>9, <1>10
<1>12. Len(b) \in Nat /\ DOMAIN b = 1..Len(b)
  BY <1>3, <1>6
<1>13. Lists(b, at, from, to, n, readable, insert)
  BY <1>11 DEF Lists
<1> QED
  BY <1>12, <1>13

-----------------------------------------------------------------------------
(* A page, in the order of the log.                                        *)

\* The operations that append what the log said at length n of the events after
\* from, up to to: each comes, and after the events before it.
Serves(ops, from, to, n, readable) ==
    /\ \A d \in 1..Len(ops) :
          \/ ops[d] = Clear
          \/ \E i \in (from + 1)..to :
                ops[d] = OpOf(i, n, readable, "append") /\ ops[d].op # "none"
    /\ \A d \in 1..Len(ops), i \in (from + 1)..to :
          /\ ops[d].op = "append" /\ ops[d].item.id < i
          /\ OpOf(i, n, readable, "append").op # "none"
          => \E e \in (d + 1)..Len(ops) : ops[e] = OpOf(i, n, readable, "append")
    /\ \A i \in (from + 1)..to :
          OpOf(i, n, readable, "append").op # "none" =>
              \E e \in 1..Len(ops) : ops[e] = OpOf(i, n, readable, "append")

\* A page serves its stretch of the log.
LEMMA PageServes ==
    ASSUME LogInv, NEW from \in Nat, NEW to \in 0..Len(log), NEW n \in 0..Len(log),
           NEW readable, NEW b, b = Between(from, to, n, readable, "append")
    PROVE  /\ b \in Seq(Ops)
           /\ \A d \in 1..Len(b) : b[d] # Clear
           /\ Serves(b, from, to, n, readable)
<1>1. /\ Len(b) \in Nat /\ DOMAIN b = 1..Len(b)
      /\ \E at : Lists(b, at, from, to, n, readable, "append")
  <2>1. to \in Nat
    BY LogFacts
  <2> QED
    BY <2>1, BetweenLists
<1>2. PICK at :
           /\ at \in [1..Len(b) -> (from + 1)..to]
           /\ \A k \in 1..Len(b) : /\ b[k] = OpOf(at[k], n, readable, "append")
                                   /\ b[k].op # "none"
           /\ \A k, l \in 1..Len(b) : k < l => at[k] < at[l]
           /\ \A i \in (from + 1)..to :
                 OpOf(i, n, readable, "append").op # "none" =>
                     \E k \in 1..Len(b) : at[k] = i
  BY <1>1 DEF Lists
<1>3. \A i \in (from + 1)..to : i \in DOMAIN log
  BY LogFacts
<1>4. ASSUME NEW k \in 1..Len(b)
      PROVE  /\ b[k] \in Ops /\ b[k] # Clear
             /\ b[k].op = "append" => b[k].item.id = at[k]
  <2>1. at[k] \in DOMAIN log
    BY <1>2, <1>3
  <2> QED
    BY <1>2, <2>1, OpOfIs
<1>5. b \in Seq(Ops)
  <2>1. b = [k \in 1..Len(b) |-> b[k]]
    BY <1>1 DEF Between
  <2> QED
    BY <1>1, <1>4, <2>1
<1>6. ASSUME NEW d \in 1..Len(b), NEW i \in (from + 1)..to,
             b[d].op = "append", b[d].item.id < i,
             OpOf(i, n, readable, "append").op # "none"
      PROVE  \E e \in (d + 1)..Len(b) : b[e] = OpOf(i, n, readable, "append")
  <2>1. PICK e \in 1..Len(b) : at[e] = i
    BY <1>2, <1>6
  <2>2. at[d] < at[e]
    BY <1>4, <1>6, <2>1
  <2>3. ~(e < d) /\ e # d
    <3>1. at[d] \in Nat /\ at[e] \in Nat
      BY <1>2, LogFacts
    <3> QED
      BY <1>2, <2>2, <3>1
  <2>4. e \in (d + 1)..Len(b)
    BY <1>1, <2>3
  <2> QED
    BY <1>2, <2>1, <2>4
<1>7. Serves(b, from, to, n, readable)
  BY <1>2, <1>6 DEF Serves
<1> QED
  BY <1>4, <1>5, <1>7

\* What serves the log keeps the order of what was seen.
LEMMA ServedIsOrderly ==
    ASSUME LogInv, NEW from \in Nat, NEW to \in 0..Len(log), NEW n \in 0..Len(log),
           NEW readable, NEW ops \in Seq(Ops), Serves(ops, from, to, n, readable),
           NEW upto \in 0..to, NEW passed \in Nat,
           Clears(ops, 0) => upto <= passed
    PROVE  Orderly(ops, passed, upto)
<1> SUFFICES ASSUME NEW d \in 1..Len(ops)
             PROVE  /\ ops[d].op = "clear" => upto <= passed
                    /\ ops[d].op = "append" =>
                          \A i \in Messages : ops[d].item.id < i /\ i <= upto =>
                              Comes(ops, d, {"append"}, i)
                    /\ ops[d].op # "prepend"
                    /\ ops[d].op = "remove" => ops[d].item.id \notin Messages
  BY DEF Orderly
<1>1. \A i \in (from + 1)..to : i \in DOMAIN log
  BY LogFacts
<1>2. ops[d].op = "clear" => upto <= passed
  BY DEF Clears
<1>3. \/ ops[d] = Clear
      \/ \E i \in (from + 1)..to :
            ops[d] = OpOf(i, n, readable, "append") /\ ops[d].op # "none"
  BY DEF Serves
<1>4. CASE ops[d] = Clear
  BY <1>2, <1>4 DEF Clear, Op
<1>5. ASSUME NEW i \in (from + 1)..to,
             ops[d] = OpOf(i, n, readable, "append"), ops[d].op # "none"
      PROVE  /\ ops[d].op # "clear" /\ ops[d].op # "prepend"
             /\ ops[d].op = "append" => ops[d].item.id = i
             /\ ops[d].op = "remove" => ops[d].item.id \notin Messages
  <2>1. i \in DOMAIN log
    BY <1>1
  <2>2. PICK o : o = ops[d]
    OBVIOUS
  <2>3. o = OpOf(i, n, readable, "append") /\ "append" \in {"append", "prepend"}
    BY <1>5, <2>2
  <2>4. /\ o.op \in {"none", "append", "update", "remove"}
        /\ o.op = "append" => o.item.id = i
        /\ o.op = "remove" => o.item.id \notin Messages
    BY ONLY LogInv, <2>1, n \in 0..Len(log), <2>3, OpOfIs
  <2> QED
    BY <1>5, <2>2, <2>4
<1>6. ASSUME NEW i \in (from + 1)..to, ops[d].op = "append", ops[d].item.id = i,
             NEW m \in Messages, i < m, m <= upto
      PROVE  Comes(ops, d, {"append"}, m)
  <2>1. m \in (from + 1)..to /\ m \in DOMAIN log
    BY <1>6, LogFacts
  <2>2. PICK o : o = OpOf(m, n, readable, "append")
    OBVIOUS
  <2>3. "append" \in {"append", "prepend"}
    OBVIOUS
  <2>4. o.op = "append" /\ o.item.id = m
    BY ONLY LogInv, n \in 0..Len(log), m \in Messages, <2>1, <2>2, <2>3, OpOfIs
  <2>5. PICK e \in (d + 1)..Len(ops) : ops[e] = OpOf(m, n, readable, "append")
    BY <1>6, <2>1, <2>2, <2>4 DEF Serves
  <2> QED
    BY <2>2, <2>4, <2>5 DEF Comes
<1>7. CASE ops[d] # Clear
  BY <1>3, <1>5, <1>6, <1>7
<1> QED
  BY <1>4, <1>7

\* What serves the log is faithful to it.
LEMMA ServedIsFaithful ==
    ASSUME LogInv, NEW from \in Nat, NEW to \in 0..Len(log), NEW n \in 0..Len(log),
           NEW readable, NEW ops \in Seq(Ops), Serves(ops, from, to, n, readable),
           NEW upto \in 0..to, upto <= n, NEW touched
    PROVE  Faithful(ops, touched, upto)
<1> SUFFICES ASSUME NEW d \in 1..Len(ops), NEW op, op = ops[d],
                    NEW id, id = op.item.id, Plain(id)
             PROVE  /\ op.op \in {"append", "prepend"} => op.item.body = 0
                    /\ op.op \in {"update", "replace"} => op.item.body \in Edits(id) \cup {0}
                    /\ op.op = "append" =>
                          \A j \in Edits(id) : j <= upto => Edited(ops, d, id, j)
                    /\ op.op = "prepend" => upto <= synced
                    /\ op.op \in {"append", "prepend", "replace"} /\ ~op.item.sealed =>
                          id \in DOMAIN log /\ log[id].type = "message" /\ ~Redacted(id, upto)
  BY DEF Faithful
<1>1. \A i \in (from + 1)..to : i \in DOMAIN log
  BY LogFacts
<1>2. CASE op = Clear
  BY <1>2 DEF Clear, Op
<1>3. ASSUME NEW i \in (from + 1)..to, op = OpOf(i, n, readable, "append"), op.op # "none"
      PROVE  /\ op.op \in {"append", "update", "remove"}
             /\ op.op = "append" =>
                   /\ id = i /\ op.item.body = 0
                   /\ ~op.item.sealed => log[i].type = "message" /\ ~Redacted(i, n)
             /\ op.op = "update" => op.item.body \in Edits(id)
  <2>1. i \in DOMAIN log /\ "append" \in {"append", "prepend"}
    BY <1>1
  <2>2. /\ op.op \in {"none", "append", "update", "remove"}
        /\ op.op = "append" =>
              /\ op.item.id = i /\ op.item.body = 0
              /\ ~op.item.sealed => log[i].type = "message" /\ ~Redacted(i, n)
        /\ op.op = "update" => i \in Edits(op.item.id) /\ op.item.body = i
    BY ONLY LogInv, n \in 0..Len(log), <1>3, <2>1, OpOfIs
  <2> QED
    BY <1>3, <2>2
<1>4. ASSUME NEW i \in (from + 1)..to, op.op = "append", id = i,
             NEW j \in Edits(i), j <= upto
      PROVE  Edited(ops, d, i, j)
  <2>1. /\ j \in DOMAIN log /\ log[j].type = "edit" /\ log[j].of = i /\ ~log[j].sealed
    BY <1>4 DEF Plain, Edits
  <2>2. i < j
    BY <2>1, LogFacts DEF LogInv
  <2>3. j \in (from + 1)..to
    BY <1>4, <2>1, <2>2, LogFacts
  <2>4. PICK o : o = OpOf(j, n, readable, "append")
    OBVIOUS
  <2>5. "append" \in {"append", "prepend"}
    OBVIOUS
  <2>6. o.op = "update" /\ o.item.id = i /\ o.item.body = j
    BY ONLY LogInv, n \in 0..Len(log), <2>1, <2>4, <2>5, OpOfIs
  <2>7. PICK e \in (d + 1)..Len(ops) : ops[e] = OpOf(j, n, readable, "append")
    BY <1>4, <2>2, <2>3, <2>4, <2>6 DEF Serves
  <2> QED
    BY <2>4, <2>6, <2>7 DEF Edited
<1>5. \A i : ~Redacted(i, n) => ~Redacted(i, upto)
  <2>1. n \in Nat /\ upto \in Nat
    BY LogFacts
  <2> QED
    BY <2>1, RedactedStays
<1>6. CASE op # Clear
  <2>1. PICK i \in (from + 1)..to : op = OpOf(i, n, readable, "append") /\ op.op # "none"
    BY <1>6 DEF Serves
  <2>2. i \in DOMAIN log
    BY <1>1
  <2> QED
    BY <1>3, <1>4, <1>5, <2>1, <2>2
<1> QED
  BY <1>2, <1>6

\* Operations name events of the log.
InLog(ops) ==
    \A d \in 1..Len(ops) : ops[d] = Clear \/ ops[d].item.id \in DOMAIN log

\* Every message, edit and redaction of a stretch served comes.
LEMMA ServedIsDue ==
    ASSUME LogInv, NEW from \in Nat, NEW to \in 0..Len(log), NEW n \in 0..Len(log),
           NEW readable, NEW ops \in Seq(Ops), Serves(ops, from, to, n, readable)
    PROVE  /\ InLog(ops)
           /\ \A i \in Messages : from < i /\ i <= to => Comes(ops, 0, {"append"}, i)
           /\ \A i \in DOMAIN log : \A j \in Edits(i) :
                 Plain(i) /\ from < j /\ j <= to => Edited(ops, 0, i, j)
           /\ \A j \in (from + 1)..to :
                 log[j].type = "redaction" => Comes(ops, 0, {"remove"}, log[j].of)
<1>1. \A i \in (from + 1)..to : i \in DOMAIN log
  BY LogFacts
<1>2. "append" \in {"append", "prepend"}
  OBVIOUS
<1>3. ASSUME NEW i \in (from + 1)..to, NEW o, o = OpOf(i, n, readable, "append")
      PROVE  /\ o.op # "none" => \E e \in 1..Len(ops) : ops[e] = o
             /\ i \in Messages => o.op = "append" /\ o.item.id = i
             /\ log[i].type = "edit" /\ ~log[i].sealed =>
                   o.op = "update" /\ o.item.id = log[i].of /\ o.item.body = i
             /\ log[i].type = "redaction" => o.op = "remove" /\ o.item.id = log[i].of
             /\ o.op # "none" => o.item.id \in DOMAIN log
  <2>1. i \in DOMAIN log
    BY <1>1
  <2>2. /\ o.op \in {"none", "append", "update", "remove"}
        /\ o.op = "append" => o.item.id = i
        /\ o.op = "update" => o.item.body = i
        /\ o.op \in {"update", "remove"} => o.item.id \in 1..(i - 1)
        /\ i \in Messages => o.op = "append"
        /\ log[i].type = "edit" /\ ~log[i].sealed => o.op = "update" /\ o.item.id = log[i].of
        /\ log[i].type = "redaction" => o.op = "remove" /\ o.item.id = log[i].of
    BY ONLY LogInv, n \in 0..Len(log), <1>2, <1>3, <2>1, OpOfIs
  <2>3. o.op # "none" => o.item.id \in DOMAIN log
    BY <2>1, <2>2, LogFacts
  <2>4. o.op # "none" => \E e \in 1..Len(ops) : ops[e] = o
    BY <1>3 DEF Serves
  <2> QED
    BY <2>2, <2>3, <2>4
<1>4. InLog(ops)
  BY <1>3 DEF InLog, Serves
<1>5. ASSUME NEW i \in Messages, from < i, i <= to PROVE Comes(ops, 0, {"append"}, i)
  <2>1. i \in (from + 1)..to
    BY <1>5, LogFacts
  <2>2. PICK o : o = OpOf(i, n, readable, "append")
    OBVIOUS
  <2>3. PICK e \in 1..Len(ops) : ops[e] = o /\ o.op = "append" /\ o.item.id = i
    BY <1>3, <2>1, <2>2
  <2> QED
    BY <2>3 DEF Comes
<1>6. ASSUME NEW i \in DOMAIN log, NEW j \in Edits(i), Plain(i), from < j, j <= to
      PROVE  Edited(ops, 0, i, j)
  <2>1. j \in (from + 1)..to /\ log[j].type = "edit" /\ log[j].of = i /\ ~log[j].sealed
    BY <1>6, LogFacts DEF Edits, Plain
  <2>2. PICK o : o = OpOf(j, n, readable, "append")
    OBVIOUS
  <2>3. PICK e \in 1..Len(ops) : ops[e] = o /\ o.op = "update" /\ o.item.id = i /\ o.item.body = j
    BY <1>3, <2>1, <2>2
  <2> QED
    BY <2>3 DEF Edited
<1>7. ASSUME NEW j \in (from + 1)..to, log[j].type = "redaction"
      PROVE  Comes(ops, 0, {"remove"}, log[j].of)
  <2>1. PICK o : o = OpOf(j, n, readable, "append")
    OBVIOUS
  <2>2. PICK e \in 1..Len(ops) : ops[e] = o /\ o.op = "remove" /\ o.item.id = log[j].of
    BY <1>3, <1>7, <2>1
  <2> QED
    BY <2>2 DEF Comes
<1> QED
  BY <1>4, <1>5, <1>6, <1>7

\* A page of history: the newest event first, to be prepended.
LEMMA HistoryIsServed ==
    ASSUME LogInv, NEW from \in Nat, NEW to \in 0..Len(log), NEW n \in 0..Len(log),
           NEW readable, NEW page, page = Reverse(Between(from, to, n, readable, "prepend")),
           synced \in Nat
    PROVE  /\ page \in Seq(Ops)
           /\ InLog(page)
           /\ \A d \in 1..Len(page) : page[d] # Clear
           /\ \A upto : Orderly(page, from, upto)
           /\ \A touched : synced <= n => Faithful(page, touched, synced)
           /\ \A i \in Messages : from < i /\ i <= to => Comes(page, 0, {"prepend"}, i)
<1>1. PICK b : b = Between(from, to, n, readable, "prepend")
  OBVIOUS
<1>2. to \in Nat /\ n \in Nat /\ "prepend" \in {"append", "prepend"}
  BY LogFacts
<1>3. /\ Len(b) \in Nat
      /\ \E at : Lists(b, at, from, to, n, readable, "prepend")
  BY <1>1, <1>2, BetweenLists
<1>4. PICK at :
           /\ at \in [1..Len(b) -> (from + 1)..to]
           /\ \A k \in 1..Len(b) : /\ b[k] = OpOf(at[k], n, readable, "prepend")
                                   /\ b[k].op # "none"
           /\ \A k, l \in 1..Len(b) : k < l => at[k] < at[l]
           /\ \A i \in (from + 1)..to :
                 OpOf(i, n, readable, "prepend").op # "none" =>
                     \E k \in 1..Len(b) : at[k] = i
  BY <1>3 DEF Lists
<1> DEFINE size == Len(b)
           place(d) == size - d + 1
<1>5. page = [d \in 1..size |-> b[place(d)]]
  BY <1>1 DEF Reverse
<1>6. \A d \in 1..size : place(d) \in 1..size /\ place(place(d)) = d
  BY <1>3
<1>7. ASSUME NEW d \in 1..size
      PROVE  /\ at[place(d)] \in DOMAIN log /\ at[place(d)] \in (from + 1)..to
             /\ page[d] = OpOf(at[place(d)], n, readable, "prepend") /\ page[d].op # "none"
  <2>1. place(d) \in 1..size /\ page[d] = b[place(d)]
    BY <1>5, <1>6
  <2>2. PICK k \in 1..Len(b) : k = place(d)
    BY <2>1
  <2>3. at[k] \in (from + 1)..to /\ b[k] = OpOf(at[k], n, readable, "prepend") /\ b[k].op # "none"
    BY <1>4
  <2>4. at[k] \in DOMAIN log
    BY <1>2, <2>3, LogFacts
  <2> QED
    BY <2>1, <2>2, <2>3, <2>4
<1>8. ASSUME NEW d \in 1..size, NEW i, i = at[place(d)]
      PROVE  /\ page[d] \in Ops /\ page[d] # Clear
             /\ page[d].op \in {"prepend", "update", "remove"}
             /\ page[d].op = "prepend" =>
                   /\ page[d].item.id = i /\ page[d].item.body = 0
                   /\ ~page[d].item.sealed => log[i].type = "message" /\ ~Redacted(i, n)
             /\ page[d].op = "update" => page[d].item.body \in Edits(page[d].item.id)
             /\ page[d].op = "remove" => page[d].item.id \notin Messages
             /\ i \in Messages => page[d].op = "prepend"
             /\ page[d].item.id \in DOMAIN log
  <2>1. i \in DOMAIN log /\ page[d] = OpOf(i, n, readable, "prepend") /\ page[d].op # "none"
    BY <1>7, <1>8
  <2>2. PICK o : o = page[d]
    OBVIOUS
  <2>3. o = OpOf(i, n, readable, "prepend")
    BY <2>1, <2>2
  <2>4. /\ o.op # "none" => o \in Ops /\ o # Clear
        /\ o.op \in {"none", "prepend", "update", "remove"}
        /\ o.op = "prepend" =>
              /\ o.item.id = i /\ o.item.body = 0
              /\ ~o.item.sealed => log[i].type = "message" /\ ~Redacted(i, n)
        /\ o.op = "update" => i \in Edits(o.item.id) /\ o.item.body = i
        /\ o.op \in {"update", "remove"} => o.item.id \in 1..(i - 1)
        /\ o.op = "remove" => o.item.id \notin Messages
        /\ i \in Messages => o.op = "prepend"
    BY ONLY LogInv, n \in 0..Len(log), <1>2, <2>1, <2>3, OpOfIs
  <2>5. o.item.id \in DOMAIN log
    BY <2>1, <2>2, <2>4, LogFacts
  <2> QED
    BY <2>1, <2>2, <2>4, <2>5
<1>9. page \in Seq(Ops) /\ Len(page) = size
  <2>1. page = [d \in 1..size |-> page[d]]
    BY <1>5
  <2>2. \A d \in 1..size : page[d] \in Ops
    BY <1>8
  <2> HIDE DEF size
  <2> QED
    BY <1>3, <2>1, <2>2 DEF size
<1>10. InLog(page) /\ \A d \in 1..Len(page) : page[d] # Clear
  BY <1>8, <1>9 DEF InLog
<1>11. ASSUME NEW d \in 1..size, NEW e \in (d + 1)..size
       PROVE  at[place(e)] < at[place(d)]
  <2>1. e \in 1..size /\ place(e) < place(d)
    BY <1>3
  <2> QED
    BY <1>4, <1>6, <2>1
<1>12. ASSUME NEW upto PROVE Orderly(page, from, upto)
  <2> SUFFICES ASSUME NEW d \in 1..size
               PROVE  /\ page[d].op # "clear" /\ page[d].op # "append"
                      /\ page[d].op = "prepend" =>
                            /\ from < page[d].item.id
                            /\ \A i \in Messages :
                                  page[d].item.id < i => ~Comes(page, d, {"append", "prepend"}, i)
                      /\ page[d].op = "remove" => page[d].item.id \notin Messages
    BY <1>9 DEF Orderly
  <2>1. /\ page[d].op \in {"prepend", "update", "remove"}
        /\ page[d].op = "prepend" => page[d].item.id = at[place(d)]
        /\ page[d].op = "remove" => page[d].item.id \notin Messages
    BY <1>8
  <2>2. from < at[place(d)] /\ at[place(d)] \in Nat
    BY <1>7
  <2>3. ASSUME NEW i \in Messages, at[place(d)] < i, Comes(page, d, {"append", "prepend"}, i)
        PROVE  FALSE
    <3>1. PICK e \in (d + 1)..size : page[e].op \in {"append", "prepend"} /\ page[e].item.id = i
      BY <1>9, <2>3 DEF Comes
    <3>2. e \in 1..size
      BY <1>3
    <3>3. i = at[place(e)]
      BY <1>8, <3>1, <3>2
    <3>4. at[place(e)] < at[place(d)] /\ at[place(e)] \in Nat
      BY <1>7, <1>11, <3>2
    <3> QED
      BY <2>2, <2>3, <3>3, <3>4
  <2> QED
    BY <2>1, <2>2, <2>3
<1>13. ASSUME NEW touched, synced <= n PROVE Faithful(page, touched, synced)
  <2>1. \A i : ~Redacted(i, n) => ~Redacted(i, synced)
    BY <1>2, <1>13, RedactedStays
  <2> SUFFICES ASSUME NEW d \in 1..size, NEW op, op = page[d], NEW id, id = op.item.id
               PROVE  /\ op.op = "prepend" => op.item.body = 0
                      /\ op.op = "update" => op.item.body \in Edits(id)
                      /\ op.op \notin {"append", "replace"}
                      /\ op.op = "prepend" /\ ~op.item.sealed =>
                            id \in DOMAIN log /\ log[id].type = "message" /\ ~Redacted(id, synced)
    BY <1>9 DEF Faithful
  <2>2. PICK i : i = at[place(d)]
    OBVIOUS
  <2> QED
    BY <1>8, <2>1, <2>2
<1>14. ASSUME NEW i \in Messages, from < i, i <= to
       PROVE  Comes(page, 0, {"prepend"}, i)
  <2>1. i \in (from + 1)..to /\ i \in DOMAIN log
    BY <1>14, LogFacts
  <2>2. PICK o : o = OpOf(i, n, readable, "prepend")
    OBVIOUS
  <2>3. o.op = "prepend"
    BY ONLY LogInv, n \in 0..Len(log), i \in Messages, <1>2, <2>1, <2>2, OpOfIs
  <2>4. PICK k \in 1..size : at[k] = i
    BY <1>4, <2>1, <2>2, <2>3
  <2>5. place(k) \in 1..size /\ at[place(place(k))] = i
    BY <1>6, <2>4
  <2>6. page[place(k)].op = "prepend" /\ page[place(k)].item.id = i
    BY <1>8, <2>5
  <2> QED
    BY <1>9, <2>5, <2>6 DEF Comes
<1> QED
  BY <1>9, <1>10, <1>12, <1>13, <1>14

-----------------------------------------------------------------------------
(* The sync task's operations.                                             *)

\* The sync task's loop runs.
LEMMA SyncRuns ==
    ASSUME NEW base, NEW s, Len(s) \in Nat
    PROVE  \E run :
              /\ run[0] = base
              /\ \A k \in 1..Len(s) : run[k] = SyncOp(run[k - 1], s[k])
              /\ SyncOps(base, s) = run[Len(s)]
<1> DEFINE Runs(f, n) == f = [k \in 0..n |-> IF k = 0 THEN base ELSE SyncOp(f[k - 1], s[k])]
           P == {n \in Nat : \E f : Runs(f, n)}
<1>1. 0 \in P
  <2>1. Runs([k \in 0..0 |-> base], 0)
    OBVIOUS
  <2> HIDE DEF Runs
  <2> QED
    BY <2>1
<1>2. ASSUME NEW n \in Nat, n \in P PROVE n + 1 \in P
  <2>1. PICK f : Runs(f, n)
    BY <1>2
  <2> DEFINE g == [k \in 0..(n + 1) |-> IF k = 0 THEN base ELSE SyncOp(f[k - 1], s[k])]
  <2>2. ASSUME NEW k \in 0..n PROVE g[k] = f[k]
    BY <2>1
  <2>3. \A k \in 0..(n + 1) : k # 0 => k - 1 \in 0..n
    OBVIOUS
  <2>4. \A k \in 0..(n + 1) : g[k] = IF k = 0 THEN base ELSE SyncOp(g[k - 1], s[k])
    BY <2>2, <2>3
  <2>5. \E h : Runs(h, n + 1)
    <3>1. Runs(g, n + 1)
      BY <2>4
    <3> HIDE DEF Runs, g
    <3> QED
      BY <3>1
  <2> HIDE DEF Runs
  <2> QED
    BY <2>5
<1>3. \E f : Runs(f, Len(s))
  <2> HIDE DEF Runs
  <2>1. \A n \in Nat : n \in P
    <3> HIDE DEF P
    <3> QED
      BY <1>1, <1>2, Induction
  <2> QED
    BY <2>1
<1> DEFINE run == CHOOSE f : Runs(f, Len(s))
<1>4. SyncOps(base, s) = run[Len(s)]
  BY DEF SyncOps, Loop
<1>5. Runs(run, Len(s))
  <2> HIDE DEF Runs
  <2> QED
    BY <1>3
<1> HIDE DEF run
<1>6. run[0] = base /\ \A k \in 1..Len(s) : run[k] = SyncOp(run[k - 1], s[k])
  BY <1>5
<1> QED
  BY <1>4, <1>6

\* The loop of the refresh runs.
LEMMA RefreshRuns ==
    ASSUME NEW base, NEW s, Len(s) \in Nat
    PROVE  \E run :
              /\ run[0] = base
              /\ \A k \in 1..Len(s) : run[k] = RefreshOp(run[k - 1], s[k])
              /\ RefreshOps(base, s) = run[Len(s)]
<1> DEFINE Runs(f, n) == f = [k \in 0..n |-> IF k = 0 THEN base ELSE RefreshOp(f[k - 1], s[k])]
           P == {n \in Nat : \E f : Runs(f, n)}
<1>1. 0 \in P
  <2>1. Runs([k \in 0..0 |-> base], 0)
    OBVIOUS
  <2> HIDE DEF Runs
  <2> QED
    BY <2>1
<1>2. ASSUME NEW n \in Nat, n \in P PROVE n + 1 \in P
  <2>1. PICK f : Runs(f, n)
    BY <1>2
  <2> DEFINE g == [k \in 0..(n + 1) |-> IF k = 0 THEN base ELSE RefreshOp(f[k - 1], s[k])]
  <2>2. ASSUME NEW k \in 0..n PROVE g[k] = f[k]
    BY <2>1
  <2>3. \A k \in 0..(n + 1) : k # 0 => k - 1 \in 0..n
    OBVIOUS
  <2>4. \A k \in 0..(n + 1) : g[k] = IF k = 0 THEN base ELSE RefreshOp(g[k - 1], s[k])
    BY <2>2, <2>3
  <2>5. \E h : Runs(h, n + 1)
    <3>1. Runs(g, n + 1)
      BY <2>4
    <3> HIDE DEF Runs, g
    <3> QED
      BY <3>1
  <2> HIDE DEF Runs
  <2> QED
    BY <2>5
<1>3. \E f : Runs(f, Len(s))
  <2> HIDE DEF Runs
  <2>1. \A n \in Nat : n \in P
    <3> HIDE DEF P
    <3> QED
      BY <1>1, <1>2, Induction
  <2> QED
    BY <2>1
<1> DEFINE run == CHOOSE f : Runs(f, Len(s))
<1>4. RefreshOps(base, s) = run[Len(s)]
  BY DEF RefreshOps, Loop
<1>5. Runs(run, Len(s))
  <2> HIDE DEF Runs
  <2> QED
    BY <1>3
<1> HIDE DEF run
<1>6. run[0] = base /\ \A k \in 1..Len(s) : run[k] = RefreshOp(run[k - 1], s[k])
  BY <1>5
<1> QED
  BY <1>4, <1>6

\* The desktop's loop runs.
LEMMA ApplyRuns ==
    ASSUME NEW base, NEW s, Len(s) \in Nat
    PROVE  \E run :
              /\ run[0] = base
              /\ \A k \in 1..Len(s) : run[k] = Apply(run[k - 1], s[k])
              /\ ApplyOps(base, s) = run[Len(s)]
<1> DEFINE Runs(f, n) == f = [k \in 0..n |-> IF k = 0 THEN base ELSE Apply(f[k - 1], s[k])]
           P == {n \in Nat : \E f : Runs(f, n)}
<1>1. 0 \in P
  <2>1. Runs([k \in 0..0 |-> base], 0)
    OBVIOUS
  <2> HIDE DEF Runs
  <2> QED
    BY <2>1
<1>2. ASSUME NEW n \in Nat, n \in P PROVE n + 1 \in P
  <2>1. PICK f : Runs(f, n)
    BY <1>2
  <2> DEFINE g == [k \in 0..(n + 1) |-> IF k = 0 THEN base ELSE Apply(f[k - 1], s[k])]
  <2>2. ASSUME NEW k \in 0..n PROVE g[k] = f[k]
    BY <2>1
  <2>3. \A k \in 0..(n + 1) : k # 0 => k - 1 \in 0..n
    OBVIOUS
  <2>4. \A k \in 0..(n + 1) : g[k] = IF k = 0 THEN base ELSE Apply(g[k - 1], s[k])
    BY <2>2, <2>3
  <2>5. \E h : Runs(h, n + 1)
    <3>1. Runs(g, n + 1)
      BY <2>4
    <3> HIDE DEF Runs, g
    <3> QED
      BY <3>1
  <2> HIDE DEF Runs
  <2> QED
    BY <2>5
<1>3. \E f : Runs(f, Len(s))
  <2> HIDE DEF Runs
  <2>1. \A n \in Nat : n \in P
    <3> HIDE DEF P
    <3> QED
      BY <1>1, <1>2, Induction
  <2> QED
    BY <2>1
<1> DEFINE run == CHOOSE f : Runs(f, Len(s))
<1>4. ApplyOps(base, s) = run[Len(s)]
  BY DEF ApplyOps, Loop
<1>5. Runs(run, Len(s))
  <2> HIDE DEF Runs
  <2> QED
    BY <1>3
<1> HIDE DEF run
<1>6. run[0] = base /\ \A k \in 1..Len(s) : run[k] = Apply(run[k - 1], s[k])
  BY <1>5
<1> QED
  BY <1>4, <1>6

\* Signatures are of events seen.
Signed(sigs, to) ==
    /\ DOMAIN sigs \subseteq 1..to
    /\ \A i \in DOMAIN sigs : sigs[i] \in Signature

\* Remembering adds a signature.
LEMMA Remembers ==
    ASSUME NEW sigs, NEW to, Signed(sigs, to), NEW id \in 1..to, NEW sig \in Signature
    PROVE  Signed(Remember(sigs, id, sig), to)
           /\ DOMAIN Remember(sigs, id, sig) = DOMAIN sigs \cup {id}
BY DEF Signed, Remember

\* Forgetting takes one away.
LEMMA Forgets ==
    ASSUME NEW sigs, NEW to, Signed(sigs, to), NEW id
    PROVE  Signed(Forget(sigs, id), to) /\ DOMAIN Forget(sigs, id) \subseteq DOMAIN sigs
BY DEF Signed, Forget

\* What a sync response makes of one event that is newer than all that was shown.
LEMMA SyncOpEmits ==
    ASSUME NEW acc, NEW to, Signed(acc.sigs, to), NEW op \in Ops, op.op \in {"append", "update", "remove"},
           op.item.id \in 1..to, op.op = "append" => op.item.id \notin DOMAIN acc.sigs,
           NEW next, next = SyncOp(acc, op)
    PROVE  /\ next.ops = Append(acc.ops, op)
           /\ Signed(next.sigs, to)
           /\ DOMAIN next.sigs \subseteq DOMAIN acc.sigs \cup {op.item.id}
<1>0. PICK id, sigs : id \in 1..to /\ id = op.item.id /\ sigs = acc.sigs
  OBVIOUS
<1>1. op.item \in Item
  BY OpKinds DEF Clear, Op
<1>2. op.item.sealed \in BOOLEAN /\ op.item.body \in 0..MaxEvents
  BY <1>1 DEF Item
<1>3. CASE op.op = "append"
  <2>1. /\ next.ops = Append(acc.ops, op)
        /\ next.sigs = Remember(sigs, id, SignatureOf(op.item))
    BY <1>0, <1>3 DEF SyncOp
  <2>2. PICK sig \in Signature : sig = SignatureOf(op.item)
    BY <1>2 DEF SignatureOf, Signature
  <2>3. Signed(sigs, to)
    BY <1>0
  <2>4. Signed(Remember(sigs, id, sig), to)
        /\ DOMAIN Remember(sigs, id, sig) = DOMAIN sigs \cup {id}
    BY ONLY <1>0, <2>3, sig \in Signature, Remembers
  <2> QED
    BY <1>0, <2>1, <2>2, <2>4
<1>4. CASE op.op = "update"
  <2>1. PICK sig : sig = [sealed |-> id \in DOMAIN sigs /\ sigs[id].sealed, body |-> op.item.body]
    OBVIOUS
  <2>2. next.ops = Append(acc.ops, op) /\ next.sigs = Remember(sigs, id, sig)
    BY <1>0, <1>4, <2>1 DEF SyncOp
  <2>3. sig \in Signature
    BY <1>2, <2>1 DEF Signature
  <2>4. Signed(sigs, to)
    BY <1>0
  <2>5. Signed(Remember(sigs, id, sig), to)
        /\ DOMAIN Remember(sigs, id, sig) = DOMAIN sigs \cup {id}
    BY ONLY <1>0, <2>3, <2>4, Remembers
  <2> QED
    BY <1>0, <2>2, <2>5
<1>5. CASE op.op = "remove"
  <2>1. next.ops = Append(acc.ops, op) /\ next.sigs = Forget(sigs, id)
    BY <1>0, <1>5 DEF SyncOp
  <2> QED
    BY <1>0, <2>1, Forgets
<1> QED
  BY <1>3, <1>4, <1>5

\* A sync response: its operations come one by one after those before.
LEMMA SyncServes ==
    ASSUME LogInv, NEW from \in Nat, NEW to \in 0..Len(log), NEW readable,
           NEW start, start.ops \in Seq(Ops), \A d \in 1..Len(start.ops) : start.ops[d] = Clear,
           Signed(start.sigs, to), \A i \in DOMAIN start.sigs : i <= from,
           NEW done, done = SyncOps(start, Between(from, to, to, readable, "append"))
    PROVE  /\ done.ops \in Seq(Ops)
           /\ Serves(done.ops, from, to, to, readable)
           /\ Clears(done.ops, 0) <=> start.ops # <<>>
           /\ Signed(done.sigs, to)
<1>1. PICK b : b = Between(from, to, to, readable, "append")
  OBVIOUS
<1>2. /\ b \in Seq(Ops) /\ Len(b) \in Nat
      /\ \A d \in 1..Len(b) : b[d] # Clear
      /\ Serves(b, from, to, to, readable)
  <2>1. to \in 0..Len(log)
    OBVIOUS
  <2>2. /\ b \in Seq(Ops)
        /\ \A d \in 1..Len(b) : b[d] # Clear
        /\ Serves(b, from, to, to, readable)
    BY ONLY LogInv, from \in Nat, <2>1, <1>1, PageServes
  <2> QED
    BY <2>2
<1>3. /\ to \in Nat
      /\ \E at : Lists(b, at, from, to, to, readable, "append")
  <2>1. to \in Nat
    BY LogFacts
  <2> QED
    BY <1>1, <2>1, BetweenLists
<1>4. PICK at :
           /\ at \in [1..Len(b) -> (from + 1)..to]
           /\ \A k \in 1..Len(b) : /\ b[k] = OpOf(at[k], to, readable, "append")
                                   /\ b[k].op # "none"
           /\ \A k, l \in 1..Len(b) : k < l => at[k] < at[l]
  BY <1>3 DEF Lists
<1>5. ASSUME NEW k \in 1..Len(b)
      PROVE  /\ at[k] \in Nat /\ from < at[k] /\ at[k] \in 1..to
             /\ b[k] \in Ops /\ b[k].op \in {"append", "update", "remove"}
             /\ b[k].item.id \in 1..at[k]
             /\ b[k].op = "append" => b[k].item.id = at[k]
  <2>1. at[k] \in (from + 1)..to /\ at[k] \in DOMAIN log
    BY <1>4, LogFacts
  <2>2. PICK o, i : o = b[k] /\ i = at[k]
    OBVIOUS
  <2>3. /\ o = OpOf(i, to, readable, "append") /\ o.op # "none" /\ i \in DOMAIN log
        /\ "append" \in {"append", "prepend"}
    BY <1>4, <2>1, <2>2
  <2>4. /\ o.op # "none" => o \in Ops /\ o # Clear
        /\ o.op \in {"none", "append", "update", "remove"}
        /\ o.op = "append" => o.item.id = i
        /\ o.op \in {"update", "remove"} => o.item.id \in 1..(i - 1)
    BY ONLY LogInv, to \in 0..Len(log), <2>3, OpOfIs
  <2>5. i \in Nat /\ 1 <= i
    BY <1>3, <2>1, <2>2
  <2> QED
    BY <1>3, <2>1, <2>2, <2>3, <2>4, <2>5
<1>6. PICK run :
          /\ run[0] = start
          /\ \A k \in 1..Len(b) : run[k] = SyncOp(run[k - 1], b[k])
          /\ done = run[Len(b)]
  <2>1. \E run :
          /\ run[0] = start
          /\ \A k \in 1..Len(b) : run[k] = SyncOp(run[k - 1], b[k])
          /\ SyncOps(start, b) = run[Len(b)]
    BY ONLY <1>2, SyncRuns
  <2> QED
    BY <1>1, <2>1
<1> DEFINE c == Len(start.ops)
           Good(acc, n) ==
              /\ acc.ops \in Seq(Ops)
              /\ Len(acc.ops) = c + n
              /\ \A d \in 1..c : acc.ops[d] = Clear
              /\ \A d \in 1..n : acc.ops[c + d] = b[d]
              /\ Signed(acc.sigs, to)
              /\ \A i \in DOMAIN acc.sigs, m \in (n + 1)..Len(b) : i < at[m]
           P == {n \in Nat : Good(run[n], n)}
<1>7. c \in Nat
  OBVIOUS
<1>8. 0 \in P
  <2>1. ASSUME NEW i \in DOMAIN start.sigs, NEW m \in 1..Len(b) PROVE i < at[m]
    <3>1. i \in Nat /\ i <= from
      BY DEF Signed
    <3> QED
      BY <1>5, <3>1
  <2> QED
    BY <1>6, <1>7, <2>1
<1>9. ASSUME NEW n \in 1..Len(b), n - 1 \in P PROVE n \in P
  <2>1. PICK acc : acc = run[n - 1]
    OBVIOUS
  <2>2. PICK op \in Ops : op = b[n]
    BY <1>5
  <2>3. PICK next : next = SyncOp(acc, op)
    OBVIOUS
  <2>4. Good(acc, n - 1) /\ run[n] = next
    BY <1>6, <1>9, <2>1, <2>2, <2>3
  <2>5. /\ op.op \in {"append", "update", "remove"} /\ op.item.id \in 1..to
        /\ op.op = "append" => op.item.id \notin DOMAIN acc.sigs
    <3>1. \A i \in DOMAIN acc.sigs : i < at[n]
      BY <1>2, <2>4
    <3> QED
      BY <1>3, <1>5, <2>2, <3>1
  <2>6. Signed(acc.sigs, to)
    BY <2>4
  <2>7. /\ next.ops = Append(acc.ops, op)
        /\ Signed(next.sigs, to)
        /\ DOMAIN next.sigs \subseteq DOMAIN acc.sigs \cup {op.item.id}
    BY ONLY <2>3, <2>5, <2>6, op \in Ops, SyncOpEmits
  <2>8. acc.ops \in Seq(Ops) /\ Len(acc.ops) = c + (n - 1)
    BY <2>4
  <2>9. /\ next.ops \in Seq(Ops)
        /\ Len(next.ops) = c + n
        /\ next.ops[c + n] = op
        /\ \A d \in 1..(c + (n - 1)) : next.ops[d] = acc.ops[d]
    <3>1. PICK old \in Seq(Ops) : old = acc.ops
      BY <2>8
    <3>2. PICK size \in Nat : size = Len(start.ops)
      BY <1>7
    <3>3. Len(old) = size + (n - 1) /\ next.ops = Append(old, op) /\ n \in Nat
      BY <2>7, <2>8, <3>1, <3>2
    <3>4. /\ Append(old, op) \in Seq(Ops)
          /\ Len(Append(old, op)) = size + n
          /\ Append(old, op)[size + n] = op
          /\ \A d \in 1..(size + (n - 1)) : Append(old, op)[d] = old[d]
      BY ONLY <3>2, <3>3, op \in Ops, old \in Seq(Ops), size \in Nat
    <3> QED
      BY <3>1, <3>2, <3>3, <3>4
  <2>10. ASSUME NEW d \in 1..c PROVE next.ops[d] = Clear
    <3>1. d \in 1..(c + (n - 1))
      BY <1>7
    <3>2. acc.ops[d] = Clear
      BY <2>4
    <3> QED
      BY <2>9, <3>1, <3>2
  <2>11. ASSUME NEW d \in 1..n PROVE next.ops[c + d] = b[d]
    <3>1. CASE d = n
      BY <2>2, <2>9, <3>1
    <3>2. CASE d # n
      <4>1. d \in 1..(n - 1) /\ c + d \in 1..(c + (n - 1))
        BY <1>7, <3>2
      <4> QED
        BY <2>4, <2>9, <4>1
    <3> QED
      BY <3>1, <3>2
  <2>12. ASSUME NEW i \in DOMAIN next.sigs, NEW m \in (n + 1)..Len(b) PROVE i < at[m]
    <3>1. m \in ((n - 1) + 1)..Len(b) /\ m \in 1..Len(b) /\ n < m
      BY <1>2
    <3>2. CASE i \in DOMAIN acc.sigs
      BY <2>4, <3>1, <3>2
    <3>3. CASE i = op.item.id
      <4>1. i \in 1..at[n] /\ at[n] \in Nat
        BY <1>5, <2>2, <3>3
      <4>2. at[n] < at[m] /\ at[m] \in Nat
        BY <1>4, <1>5, <3>1
      <4> QED
        BY <4>1, <4>2
    <3> QED
      BY <2>7, <3>2, <3>3
  <2>13. Good(next, n)
    BY <2>7, <2>9, <2>10, <2>11, <2>12
  <2> HIDE DEF Good
  <2> QED
    BY <2>4, <2>13
<1> HIDE DEF P
<1>10. Len(b) \in P
  <2>1. \A n \in 1..Len(b) : n - 1 \in P => n \in P
    BY <1>9
  <2>2. \A n \in 0..Len(b) : n \in P
    BY ONLY <1>2, <1>8, <2>1, InductionUpTo
  <2> QED
    BY <1>2, <2>2
<1>11. PICK ops \in Seq(Ops) : ops = done.ops
  BY <1>6, <1>10 DEF P
<1>12. /\ Len(ops) = c + Len(b)
       /\ \A d \in 1..c : ops[d] = Clear
       /\ \A d \in 1..Len(b) : ops[c + d] = b[d]
       /\ Signed(done.sigs, to)
  BY <1>6, <1>10, <1>11 DEF P
<1> HIDE DEF c
<1>13. ASSUME NEW d \in 1..Len(ops)
       PROVE  \/ d \in 1..c /\ ops[d] = Clear
              \/ \E e \in 1..Len(b) : d = c + e /\ ops[d] = b[e]
  <2>1. CASE d <= c
    BY <1>7, <1>12, <2>1
  <2>2. CASE ~(d <= c)
    <3>1. d - c \in 1..Len(b) /\ c + (d - c) = d
      BY <1>2, <1>7, <1>12, <2>2
    <3> QED
      BY <1>12, <3>1
  <2> QED
    BY <2>1, <2>2
<1>14. ASSUME NEW e \in 1..Len(b)
       PROVE  c + e \in 1..Len(ops) /\ ops[c + e] = b[e]
  BY <1>2, <1>7, <1>12
<1>15. Serves(ops, from, to, to, readable)
  <2>1. ASSUME NEW d \in 1..Len(ops), ops[d] # Clear
        PROVE  \E i \in (from + 1)..to :
                  ops[d] = OpOf(i, to, readable, "append") /\ ops[d].op # "none"
    BY <1>4, <1>13, <2>1
  <2>2. ASSUME NEW d \in 1..Len(ops), NEW i \in (from + 1)..to,
               ops[d].op = "append", ops[d].item.id < i,
               OpOf(i, to, readable, "append").op # "none"
        PROVE  \E e \in (d + 1)..Len(ops) : ops[e] = OpOf(i, to, readable, "append")
    <3>1. PICK k \in 1..Len(b) : d = c + k /\ ops[d] = b[k]
      BY <1>13, <2>2 DEF Clear, Op
    <3>2. PICK e \in (k + 1)..Len(b) : b[e] = OpOf(i, to, readable, "append")
      BY <1>2, <2>2, <3>1 DEF Serves
    <3>3. e \in 1..Len(b) /\ c + e \in (d + 1)..Len(ops)
      <4>1. e \in 1..Len(b) /\ e \in Nat /\ k \in Nat /\ k + 1 <= e /\ e <= Len(b)
        BY <1>2
      <4>2. PICK m \in Nat, f \in Nat : m = Len(b) /\ f = c
        BY <1>2, <1>7
      <4>3. Len(ops) = f + m /\ d = f + k
        BY <1>12, <3>1, <4>2
      <4>4. f + e \in (f + k + 1)..(f + m)
        BY ONLY <4>1, <4>2, f \in Nat, m \in Nat
      <4> QED
        BY <4>1, <4>2, <4>3, <4>4
    <3> QED
      BY <1>12, <3>2, <3>3
  <2>3. ASSUME NEW i \in (from + 1)..to, OpOf(i, to, readable, "append").op # "none"
        PROVE  \E e \in 1..Len(ops) : ops[e] = OpOf(i, to, readable, "append")
    <3>1. PICK e \in 1..Len(b) : b[e] = OpOf(i, to, readable, "append")
      BY <1>2, <2>3 DEF Serves
    <3> QED
      BY <1>14, <3>1
  <2> QED
    BY <2>1, <2>2, <2>3 DEF Serves
<1>16. Clears(ops, 0) <=> start.ops # <<>>
  <2>1. ASSUME start.ops # <<>> PROVE Clears(ops, 0)
    <3>1. c # 0
      BY <2>1 DEF c
    <3>2. 1 \in 1..c /\ 1 \in 1..Len(ops)
      BY <1>2, <1>7, <1>12, <3>1
    <3>3. ops[1].op = "clear"
      BY <1>12, <3>2 DEF Clear, Op
    <3> QED
      BY <3>2, <3>3 DEF Clears
  <2>2. ASSUME start.ops = <<>> PROVE ~Clears(ops, 0)
    <3>1. c = 0
      BY <2>2 DEF c
    <3>2. \A d \in 1..Len(ops) : ops[d].op # "clear"
      <4>1. ASSUME NEW d \in 1..Len(ops) PROVE ops[d].op # "clear"
        <5>1. PICK e \in 1..Len(b) : ops[d] = b[e]
          BY <1>13, <3>1
        <5> QED
          BY <1>5, <5>1
      <4> QED
        BY <4>1
    <3> QED
      BY <3>2 DEF Clears
  <2> QED
    BY <2>1, <2>2
<1> QED
  BY <1>11, <1>12, <1>15, <1>16

-----------------------------------------------------------------------------
(* The page read again after room keys.                                    *)

\* What a page read again may change of what is shown.
Renews(op, n) ==
    /\ op \in Ops /\ op # Clear /\ op.item.id \in DOMAIN log
    /\ \/ op.op = "remove" /\ op.item.id \notin Messages
       \/ op.op = "update" /\ op.item.body \in Edits(op.item.id) \cup {0}
       \/ /\ op.op = "replace" /\ op.item.body = 0
          /\ ~op.item.sealed =>
                log[op.item.id].type = "message" /\ ~Redacted(op.item.id, n)

\* An event as a page of the log at length n brings it.
Reads(op, n) ==
    /\ op \in Ops /\ op # Clear
    /\ op.op \in {"append", "update", "remove"}
    /\ op.item.id \in DOMAIN log
    /\ op.op = "append" =>
          /\ op.item.body = 0
          /\ ~op.item.sealed =>
                log[op.item.id].type = "message" /\ ~Redacted(op.item.id, n)
    /\ op.op = "update" => op.item.body \in Edits(op.item.id)
    /\ op.op = "remove" => op.item.id \notin Messages

\* The page read again says what the log said.
LEMMA OpOfReads ==
    ASSUME LogInv, NEW i \in DOMAIN log, NEW n \in 0..Len(log), NEW readable,
           NEW op, op = OpOf(i, n, readable, "append"), op.op # "none"
    PROVE  Reads(op, n)
<1>1. "append" \in {"append", "prepend"}
  OBVIOUS
<1>2. /\ op.op # "none" => op \in Ops /\ op # Clear
      /\ op.op \in {"none", "append", "update", "remove"}
      /\ op.op = "append" =>
            /\ op.item.id = i /\ op.item.body = 0
            /\ ~op.item.sealed => log[i].type = "message" /\ ~Redacted(i, n)
      /\ op.op = "update" => i \in Edits(op.item.id) /\ op.item.body = i
      /\ op.op \in {"update", "remove"} => op.item.id \in 1..(i - 1)
      /\ op.op = "remove" => op.item.id \notin Messages
  BY ONLY LogInv, n \in 0..Len(log), i \in DOMAIN log, <1>1,
          op = OpOf(i, n, readable, "append"), OpOfIs
<1>3. op.item.id \in DOMAIN log
  BY <1>2, LogFacts
<1> QED
  BY <1>2, <1>3 DEF Reads

\* At most one operation more.
RenewedBy(before, after, n) ==
    \/ after = before
    \/ \E new : Renews(new, n) /\ after = Append(before, new)

\* One event of the page emits at most one operation, and that renews.
LEMMA RefreshOpRenews ==
    ASSUME NEW n, NEW op, Reads(op, n), NEW acc, NEW to, Signed(acc.sigs, to),
           NEW next, next = RefreshOp(acc, op)
    PROVE  Signed(next.sigs, to) /\ RenewedBy(acc.ops, next.ops, n)
<1>0. PICK id, sigs : id = op.item.id /\ sigs = acc.sigs
  OBVIOUS
<1>2. /\ op \in Ops /\ op # Clear
      /\ op.op \in {"append", "update", "remove"}
      /\ op.op = "append" =>
            /\ op.item.body = 0
            /\ ~op.item.sealed => log[id].type = "message" /\ ~Redacted(id, n)
      /\ op.op = "update" => op.item.body \in Edits(id)
      /\ op.op = "remove" => id \notin Messages
  BY <1>0 DEF Reads
<1>3. id \in DOMAIN log
  BY <1>0 DEF Reads
<1>4. op.item \in Item /\ op.item.sealed \in BOOLEAN /\ op.item.body \in 0..MaxEvents
  BY <1>2, OpKinds DEF Item
<1>5. Signed(sigs, to)
  BY <1>0
<1>6. CASE next = acc
  BY <1>0, <1>5, <1>6 DEF RenewedBy
<1>7. CASE /\ id \in DOMAIN sigs /\ op.op = "append"
           /\ sigs[id] # SignatureOf(op.item)
  <2>1. /\ next.sigs = Remember(sigs, id, SignatureOf(op.item))
        /\ next.ops = Append(acc.ops, Amend(sigs[id], op.item))
    BY <1>0, <1>7 DEF RefreshOp
  <2>2. PICK sig \in Signature : sig = SignatureOf(op.item)
    BY <1>4 DEF SignatureOf, Signature
  <2>3. id \in 1..to
    BY <1>5, <1>7 DEF Signed
  <2>4. Signed(Remember(sigs, id, sig), to)
    BY ONLY <1>5, <2>3, sig \in Signature, Remembers
  <2>5. PICK new : new = Amend(sigs[id], op.item)
    OBVIOUS
  <2>6. /\ new.op \in {"update", "replace"} /\ new.item = op.item
        /\ new \in [op : Kinds, item : Item]
    BY <1>4, <2>5 DEF Amend, Kinds
  <2>7. Renews(new, n)
    BY <1>0, <1>2, <1>3, <1>7, <2>6 DEF Renews, Ops, Clear, Op
  <2> QED
    BY <1>0, <2>1, <2>2, <2>4, <2>5, <2>7 DEF RenewedBy
<1>8. CASE /\ id \in DOMAIN sigs /\ op.op = "update" /\ sigs[id].body # op.item.body
  <2>1. /\ next.sigs = [sigs EXCEPT ![id].body = op.item.body]
        /\ next.ops = Append(acc.ops, op)
    BY <1>0, <1>8 DEF RefreshOp
  <2>2. Renews(op, n)
    BY <1>0, <1>2, <1>3, <1>8 DEF Renews
  <2>3. Signed([sigs EXCEPT ![id].body = op.item.body], to)
    BY <1>4, <1>5, <1>8 DEF Signed, Signature
  <2> QED
    BY <1>0, <2>1, <2>2, <2>3 DEF RenewedBy
<1>9. CASE id \in DOMAIN sigs /\ op.op = "remove"
  <2>1. next.sigs = Forget(sigs, id) /\ next.ops = Append(acc.ops, op)
    BY <1>0, <1>9 DEF RefreshOp
  <2>2. Renews(op, n)
    BY <1>0, <1>2, <1>3, <1>9 DEF Renews
  <2> QED
    BY <1>0, <1>5, <2>1, <2>2, Forgets DEF RenewedBy
<1>10. \/ next = acc
       \/ id \in DOMAIN sigs /\ op.op = "append" /\ sigs[id] # SignatureOf(op.item)
       \/ id \in DOMAIN sigs /\ op.op = "update" /\ sigs[id].body # op.item.body
       \/ id \in DOMAIN sigs /\ op.op = "remove"
  BY <1>0 DEF RefreshOp
<1> QED
  BY <1>6, <1>7, <1>8, <1>9, <1>10

\* The page read after room keys changes what is shown, and nothing else.
LEMMA RefreshRenews ==
    ASSUME LogInv, NEW at \in 0..Len(log), NEW to, Signed(signatures, to),
           NEW done, done = RefreshOps([sigs |-> signatures, ops |-> <<>>], RefreshPage(at))
    PROVE  /\ done.ops \in Seq(Ops)
           /\ \A d \in 1..Len(done.ops) : Renews(done.ops[d], at)
           /\ Signed(done.sigs, to)
<1> DEFINE from == Newest(at, RefreshLimit)
<1>1. at \in Nat /\ from \in Nat
  BY LogFacts, TimelineAssumption DEF Newest
<1>2. PICK b : b = Between(from, at, at, keys, "append")
  OBVIOUS
<1> HIDE DEF from
<1>3. /\ Len(b) \in Nat
      /\ \E ids : Lists(b, ids, from, at, at, keys, "append")
  BY <1>1, <1>2, BetweenLists
<1>4. PICK page : page = RefreshPage(at)
  OBVIOUS
<1>5. /\ Len(page) \in Nat
      /\ \A k \in 1..Len(page) :
            \E i \in DOMAIN log : page[k] = OpOf(i, at, keys, "append") /\ page[k].op # "none"
  <2>1. page = Reverse(b)
    BY <1>2, <1>4 DEF RefreshPage, from
  <2>2. Len(page) = Len(b) /\ \A k \in 1..Len(b) : page[k] = b[Len(b) - k + 1]
    BY <1>3, <2>1 DEF Reverse
  <2>3. PICK ids :
          /\ ids \in [1..Len(b) -> (from + 1)..at]
          /\ \A k \in 1..Len(b) : /\ b[k] = OpOf(ids[k], at, keys, "append")
                                  /\ b[k].op # "none"
    BY <1>3 DEF Lists
  <2>4. \A i \in (from + 1)..at : i \in DOMAIN log
    BY <1>1, LogFacts
  <2>5. ASSUME NEW k \in 1..Len(page)
        PROVE  \E i \in DOMAIN log :
                  page[k] = OpOf(i, at, keys, "append") /\ page[k].op # "none"
    <3>1. PICK m \in 1..Len(b) : m = Len(b) - k + 1
      BY <1>3, <2>2
    <3>2. page[k] = b[m] /\ ids[m] \in DOMAIN log
      BY <2>2, <2>3, <2>4, <3>1
    <3>3. b[m] = OpOf(ids[m], at, keys, "append") /\ b[m].op # "none"
      BY <2>3
    <3> QED
      BY <3>2, <3>3
  <2> QED
    BY <1>3, <2>2, <2>5
<1>6. PICK start : start = [sigs |-> signatures, ops |-> <<>>]
  OBVIOUS
<1>7. PICK run :
          /\ run[0] = start
          /\ \A k \in 1..Len(page) : run[k] = RefreshOp(run[k - 1], page[k])
          /\ done = run[Len(page)]
  <2>1. \E run :
          /\ run[0] = start
          /\ \A k \in 1..Len(page) : run[k] = RefreshOp(run[k - 1], page[k])
          /\ RefreshOps(start, page) = run[Len(page)]
    BY ONLY <1>5, RefreshRuns
  <2> QED
    BY <1>4, <1>6, <2>1
<1> DEFINE Good(acc) == /\ acc.ops \in Seq(Ops)
                        /\ \A d \in 1..Len(acc.ops) : Renews(acc.ops[d], at)
                        /\ Signed(acc.sigs, to)
           P == {n \in Nat : Good(run[n])}
<1>8. 0 \in P
  <2>1. start.ops = <<>> /\ start.sigs = signatures
    BY <1>6
  <2>2. <<>> \in Seq(Ops) /\ Len(<<>>) = 0 /\ 1..0 = {}
    BY EmptySeq
  <2>3. start.ops \in Seq(Ops) /\ 1..Len(start.ops) = {}
    BY <2>1, <2>2
  <2>4. Signed(start.sigs, to)
    BY <2>1
  <2>5. Good(start)
    BY <2>3, <2>4
  <2> HIDE DEF Good
  <2> QED
    BY <1>7, <2>5
<1>9. ASSUME NEW n \in 1..Len(page), n - 1 \in P PROVE n \in P
  <2>1. PICK acc : acc = run[n - 1]
    OBVIOUS
  <2>2. PICK op : op = page[n]
    OBVIOUS
  <2>3. PICK next : next = RefreshOp(acc, op)
    OBVIOUS
  <2>4. Good(acc) /\ run[n] = next
    BY <1>7, <1>9, <2>1, <2>2, <2>3
  <2>5. PICK i \in DOMAIN log : op = OpOf(i, at, keys, "append") /\ op.op # "none"
    BY <1>5, <2>2
  <2>6. Signed(acc.sigs, to) /\ acc.ops \in Seq(Ops)
    BY <2>4
  <2>7. Signed(next.sigs, to) /\ RenewedBy(acc.ops, next.ops, at)
    <3>1. PICK readable : readable = keys
      OBVIOUS
    <3>2. op = OpOf(i, at, readable, "append") /\ op.op # "none"
      BY <2>5, <3>1
    <3>3. Reads(op, at)
      BY ONLY LogInv, at \in 0..Len(log), i \in DOMAIN log, <3>2, OpOfReads
    <3> QED
      BY ONLY next = RefreshOp(acc, op), <2>6, <3>3, RefreshOpRenews
  <2>8. CASE next.ops = acc.ops
    BY <2>4, <2>7, <2>8
  <2>9. ASSUME NEW new, Renews(new, at), next.ops = Append(acc.ops, new)
        PROVE  Good(next)
    <3>1. PICK old \in Seq(Ops) : old = acc.ops
      BY <2>6
    <3>2. new \in Ops
      BY <2>9 DEF Renews
    <3>3. /\ Append(old, new) \in Seq(Ops)
          /\ Len(Append(old, new)) = Len(old) + 1
          /\ Append(old, new)[Len(old) + 1] = new
          /\ \A d \in 1..Len(old) : Append(old, new)[d] = old[d]
      BY ONLY <3>2, old \in Seq(Ops)
    <3>4. \A d \in 1..Len(old) : Renews(old[d], at)
      BY <2>4, <3>1
    <3>5. \A d \in 1..(Len(old) + 1) : d \in 1..Len(old) \/ d = Len(old) + 1
      BY Len(old) \in Nat
    <3>6. \A d \in 1..Len(Append(old, new)) : Renews(Append(old, new)[d], at)
      BY <2>9, <3>3, <3>4, <3>5
    <3> QED
      BY <2>7, <2>9, <3>1, <3>3, <3>6
  <2> HIDE DEF Good
  <2> QED
    BY <2>4, <2>7, <2>8, <2>9 DEF RenewedBy
<1> HIDE DEF P
<1>10. Len(page) \in P
  <2>1. \A n \in 1..Len(page) : n - 1 \in P => n \in P
    BY <1>9
  <2>2. \A n \in 0..Len(page) : n \in P
    BY ONLY <1>5, <1>8, <2>1, InductionUpTo
  <2> QED
    BY <1>5, <2>2
<1> QED
  BY <1>7, <1>10 DEF P

\* What renews moves nothing and is faithful.
LEMMA RenewingIsOrderly ==
    ASSUME LogInv, NEW ops \in Seq(Ops), NEW at \in 0..Len(log),
           \A d \in 1..Len(ops) : Renews(ops[d], at),
           NEW upto \in 0..at
    PROVE  /\ InLog(ops)
           /\ \A passed : Orderly(ops, passed, upto)
           /\ \A touched : Faithful(ops, touched, upto)
           /\ ~Clears(ops, 0)
<1>1. at \in Nat /\ upto \in Nat /\ upto <= at
  BY LogFacts
<1>2. \A i : ~Redacted(i, at) => ~Redacted(i, upto)
  BY <1>1, RedactedStays
<1>3. InLog(ops) /\ ~Clears(ops, 0)
  BY DEF InLog, Clears, Renews
<1>4. \A passed : Orderly(ops, passed, upto)
  BY DEF Orderly, Renews
<1>5. \A touched : Faithful(ops, touched, upto)
  BY <1>2 DEF Faithful, Renews
<1> QED
  BY <1>3, <1>4, <1>5

-----------------------------------------------------------------------------
(* What is due, and what no longer is.                                     *)

\* After the last operation nothing is due, and of no operations nothing is.
LEMMA NothingComes ==
    /\ \A kinds, i : ~Comes(<<>>, 0, kinds, i)
    /\ \A i, j : ~Edited(<<>>, 0, i, j)
    /\ \A ops : Len(ops) \in Nat =>
          /\ \A kinds, i : ~Comes(ops, Len(ops), kinds, i)
          /\ \A i, j : ~Edited(ops, Len(ops), i, j)
<1>1. Len(<<>>) = 0 /\ (0 + 1)..0 = {}
  OBVIOUS
<1>2. \A n \in Nat : (n + 1)..n = {}
  OBVIOUS
<1>3. \A ops : Len(ops) \in Nat => (Len(ops) + 1)..Len(ops) = {}
  BY <1>2
<1> QED
  BY <1>1, <1>3 DEF Comes, Edited

\* After the last operation all that was due has come.
LEMMA NothingDue ==
    ASSUME NEW ops, Len(ops) \in Nat, NEW items, NEW touched, NEW passed, NEW upto
    PROVE  /\ Following(items, ops, Len(ops), upto) => Following(items, <<>>, 0, upto)
           /\ Present(items, ops, Len(ops), passed, upto) =>
                 Present(items, <<>>, 0, passed, upto)
           /\ Right(items, touched, ops, Len(ops), upto) =>
                 Right(items, touched, <<>>, 0, upto)
<1>1. /\ \A kinds, i : ~Comes(ops, Len(ops), kinds, i)
      /\ \A i, j : ~Edited(ops, Len(ops), i, j)
  BY NothingComes
<1>2. Following(items, ops, Len(ops), upto) => Following(items, <<>>, 0, upto)
  BY <1>1 DEF Following
<1>3. Present(items, ops, Len(ops), passed, upto) => Present(items, <<>>, 0, passed, upto)
  BY <1>1 DEF Present
<1>4. Right(items, touched, ops, Len(ops), upto) => Right(items, touched, <<>>, 0, upto)
  BY <1>1 DEF Right, Current
<1> QED
  BY <1>2, <1>3, <1>4

\* What lacks nothing lacks nothing but what is due.
LEMMA MoreDue ==
    ASSUME NEW ops, NEW items, NEW touched, NEW first, first \subseteq touched,
           NEW passed, NEW upto
    PROVE  /\ Following(items, <<>>, 0, upto) => Following(items, ops, 0, upto)
           /\ Present(items, <<>>, 0, passed, upto) => Present(items, ops, 0, passed, upto)
           /\ Right(items, first, <<>>, 0, upto) => Right(items, touched, ops, 0, upto)
<1>2. Following(items, <<>>, 0, upto) => Following(items, ops, 0, upto)
  BY NothingComes DEF Following
<1>3. Present(items, <<>>, 0, passed, upto) => Present(items, ops, 0, passed, upto)
  BY NothingComes DEF Present
<1>4. \A item : Current(item, <<>>, 0, upto) => Current(item, ops, 0, upto)
  BY NothingComes DEF Current
<1>5. Right(items, first, <<>>, 0, upto) => Right(items, touched, ops, 0, upto)
  BY <1>4 DEF Right
<1> QED
  BY <1>2, <1>3, <1>5

\* A task that has seen nothing yet owes nothing.
LEMMA NothingSeen ==
    ASSUME LogInv, NEW items, NEW touched, NEW upto \in Nat, NEW passed
    PROVE  /\ Following(items, <<>>, 0, 0)
           /\ Present(items, <<>>, 0, passed, 0)
           /\ Right(items, touched, <<>>, 0, upto) => Right(items, touched, <<>>, 0, 0)
<1>1. \A i \in Messages : ~(i <= 0)
  BY LogFacts
<1>2. \A i : \A j \in Edits(i) : ~(j <= 0)
  BY LogFacts
<1>3. \A i : ~Redacted(i, 0)
  <2>1. 1..0 = {}
    OBVIOUS
  <2> QED
    BY <2>1 DEF Redacted
<1>4. \A item : Current(item, <<>>, 0, upto) => Current(item, <<>>, 0, 0)
  BY <1>2, <1>3 DEF Current
<1> QED
  BY <1>1, <1>4 DEF Following, Present, Right

\* A sync response brings what the task had not seen, or its events are touched.
LEMMA SeenLater ==
    ASSUME LogInv, NEW ops, NEW items, NEW touched, NEW first, first \subseteq touched,
           NEW m \in Nat, NEW n \in m..Len(log), NEW from \in m..n,
           Right(items, first, <<>>, 0, m),
           \A j \in (m + 1)..from : log[j].type # "message" => log[j].of \in touched,
           \A i \in DOMAIN log : \A j \in Edits(i) :
              Plain(i) /\ from < j /\ j <= n => Edited(ops, 0, i, j),
           \A j \in (from + 1)..n :
              log[j].type = "redaction" => Comes(ops, 0, {"remove"}, log[j].of)
    PROVE  Right(items, touched, ops, 0, n)
<1>1. /\ DOMAIN log = 1..Len(log) /\ Len(log) \in Nat
      /\ n \in Nat /\ from \in Nat /\ m <= from /\ from <= n /\ n <= Len(log)
  BY LogFacts
<1> SUFFICES ASSUME NEW k \in DOMAIN items, items[k].id \notin touched, Plain(items[k].id)
             PROVE  /\ \A l \in DOMAIN items : items[l].id = items[k].id => l = k
                    /\ Current(items[k], ops, 0, n)
  BY DEF Right
<1>2. PICK item, id : item = items[k] /\ id = item.id
  OBVIOUS
<1>3. /\ \A l \in DOMAIN items : items[l].id = items[k].id => l = k
      /\ Current(item, <<>>, 0, m)
  BY <1>2 DEF Right
<1>4. ASSUME NEW j \in Edits(id), j <= n
      PROVE  j <= item.body \/ Edited(ops, 0, id, j)
  <2>1. j \in 1..Len(log) /\ log[j].type = "edit" /\ log[j].of = id
    BY <1>1 DEF Edits
  <2>2. id \in DOMAIN log
    BY <1>1, <2>1 DEF LogInv
  <2>3. CASE j <= m
    BY <1>2, <1>3, <2>3, NothingComes DEF Current
  <2>4. CASE m < j /\ j <= from
    <3>1. j \in (m + 1)..from
      BY <1>1, <2>1, <2>4
    <3> QED
      BY <1>2, <2>1, <3>1
  <2>5. CASE from < j
    BY <1>2, <1>4, <2>2, <2>5
  <2> QED
    BY <1>1, <2>1, <2>3, <2>4, <2>5
<1>5. ASSUME Redacted(id, n) PROVE Redacted(id, m) \/ Comes(ops, 0, {"remove"}, id)
  <2>1. PICK j \in 1..n : log[j].type = "redaction" /\ log[j].of = id
    BY <1>5 DEF Redacted
  <2>2. CASE j <= m
    BY <1>1, <2>1, <2>2 DEF Redacted
  <2>3. CASE m < j /\ j <= from
    <3>1. j \in (m + 1)..from
      BY <1>1, <2>1, <2>3
    <3> QED
      BY <1>2, <2>1, <3>1
  <2>4. CASE from < j
    <3>1. j \in (from + 1)..n
      BY <1>1, <2>1, <2>4
    <3> QED
      BY <2>1, <3>1
  <2> QED
    BY <1>1, <2>1, <2>2, <2>3, <2>4
<1>6. Current(item, ops, 0, n)
  BY <1>2, <1>3, <1>4, <1>5, NothingComes DEF Current
<1> QED
  BY <1>2, <1>3, <1>6

-----------------------------------------------------------------------------
(* A delta relayed or lost.                                                *)

\* The named weaknesses.
Weaknesses == {"lost", "late", "wrapped", "gap", "trimmed", "silent"}

\* What a delta leaves in step was in step, and has lost nothing.
LEMMA InStepWas ==
    ASSUME NEW ops, NEW touched, NEW more, NEW passed,
           Emit(ops, touched, more, passed), InStep'
    PROVE  /\ InStep /\ more \subseteq {"silent"}
           /\ Relay(ops, touched, more, passed)
<1>1. ~Lose(ops, touched)
  BY DEF Lose, InStep
<1>2. Relay(ops, touched, more, passed)
  BY <1>1 DEF Emit
<1>3. faults \ {"silent"} \subseteq faults' /\ more \subseteq faults'
  BY <1>2 DEF Relay
<1> QED
  BY <1>2, <1>3 DEF InStep

\* Items show events.
LEMMA ShowsEvents ==
    ASSUME NEW items \in Seq(Item)
    PROVE  Shows(items) \subseteq Ids
<1>1. \A k \in DOMAIN items : items[k] \in Item
  OBVIOUS
<1>2. \A k \in DOMAIN items : items[k].id \in Ids
  BY <1>1 DEF Item
<1> QED
  BY <1>2 DEF Shows

\* What the buffer drops are events.
LEMMA RelayDropsEvents ==
    ASSUME NEW start, start.items \in Seq(Item), start.dropped \subseteq Nat,
           NEW ops \in Seq(Ops), NEW done, done = RelayOps(start, ops)
    PROVE  done.dropped \subseteq Nat
<1>1. Len(ops) \in Nat
  OBVIOUS
<1>2. PICK run :
          /\ run[0] = start
          /\ \A k \in 1..Len(ops) : run[k] = RelayOp(run[k - 1], ops[k])
          /\ done = run[Len(ops)]
  <2>1. \E run :
          /\ run[0] = start
          /\ \A k \in 1..Len(ops) : run[k] = RelayOp(run[k - 1], ops[k])
          /\ RelayOps(start, ops) = run[Len(ops)]
    BY ONLY <1>1, RelayRuns
  <2> QED
    BY <2>1
<1> DEFINE Good(acc) == acc.items \in Seq(Item) /\ acc.dropped \subseteq Nat
           P == {k \in Nat : Good(run[k])}
<1>3. 0 \in P
  BY <1>2
<1>4. ASSUME NEW n \in 1..Len(ops), n - 1 \in P PROVE n \in P
  <2>1. PICK acc : acc = run[n - 1]
    OBVIOUS
  <2>2. PICK op \in Ops : op = ops[n]
    OBVIOUS
  <2>3. Good(acc) /\ run[n] = RelayOp(acc, op)
    BY <1>2, <1>4, <2>1, <2>2
  <2>4. PICK next : next = RelayOp(acc, op)
    OBVIOUS
  <2>5. PICK all \in Seq(Item) : all = Apply(acc.items, op)
    BY <2>3, ApplyKeepsType
  <2>6. next.items = Trim(all) /\ next.dropped = acc.dropped \cup (Shows(all) \ Shows(Trim(all)))
    BY <2>4, <2>5, RelayOpParts
  <2>7. Trim(all) \in Seq(Item)
    BY TrimCuts
  <2>8. Shows(all) \subseteq Nat
    BY ShowsEvents, TimelineAssumption DEF Ids
  <2>9. Good(next)
    BY <2>3, <2>6, <2>7, <2>8
  <2> QED
    BY <2>3, <2>4, <2>9
<1> HIDE DEF P
<1>5. Len(ops) \in P
  <2>1. \A n \in 1..Len(ops) : n - 1 \in P => n \in P
    BY <1>4
  <2>2. \A n \in 0..Len(ops) : n \in P
    BY ONLY <1>1, <1>3, <2>1, InductionUpTo
  <2> QED
    BY <1>1, <2>2
<1> QED
  BY <1>2, <1>5 DEF P

\* A delta keeps the buffer in order, unless it puts it out of step.
LEMMA EmitKeepsOrder ==
    ASSUME LogInv, buffer \in Seq(Item), NEW ops \in Seq(Ops), NEW passed \in Nat,
           NEW upto \in Nat, Orderly(ops, passed, upto),
           Clears(ops, 0) \/ Following(buffer, ops, 0, upto),
           Present(buffer, ops, 0, passed, upto),
           NEW touched, NEW more, Emit(ops, touched, more, passed), InStep'
    PROVE  \E items : /\ items = buffer'
                      /\ Following(items, <<>>, 0, upto)
                      /\ Present(items, <<>>, 0, passed, upto)
<1>1. PICK start : start = [items |-> buffer, spoilt |-> spoilt \cup touched, dropped |-> {}]
  OBVIOUS
<1>2. PICK done : done = RelayOps(start, ops)
  OBVIOUS
<1>3. Relay(ops, touched, more, passed)
  BY InStepWas
<1>4. /\ buffer' = done.items
      /\ faults' = (faults \ {"silent"}) \cup more \cup
            (IF \E i \in done.dropped : i > passed THEN {"trimmed"} ELSE {})
  BY <1>1, <1>2, <1>3 DEF Relay
<1>5. ~\E i \in done.dropped : i > passed
  BY <1>4 DEF InStep
<1>6. \A i \in done.dropped : i <= passed
  <2>1. start.items \in Seq(Item) /\ start.dropped \subseteq Nat
    BY <1>1
  <2>2. done.dropped \subseteq Nat
    BY <1>2, <2>1, RelayDropsEvents
  <2> QED
    BY <1>5, <2>2
<1>7. /\ Following(done.items, ops, Len(ops), upto)
      /\ Present(done.items, ops, Len(ops), passed, upto)
  <2>1. PICK items \in Seq(Item) : items = buffer
    OBVIOUS
  <2>2. /\ Clears(ops, 0) \/ Following(items, ops, 0, upto)
        /\ Present(items, ops, 0, passed, upto)
        /\ start.items = items
    BY <1>1, <2>1
  <2>3. Messages \subseteq Nat
    BY LogFacts
  <2>4. /\ start.items \in Seq(Item)
        /\ Clears(ops, 0) \/ Following(start.items, ops, 0, upto)
        /\ Present(start.items, ops, 0, passed, upto)
    BY <2>2
  <2> QED
    BY ONLY <1>2, <1>6, <2>3, <2>4, ops \in Seq(Ops), passed \in Nat, upto \in Nat,
            Orderly(ops, passed, upto), RelayKeepsOrder
<1>8. Len(ops) \in Nat
  OBVIOUS
<1>9. PICK items : items = done.items
  OBVIOUS
<1>10. Following(items, <<>>, 0, upto) /\ Present(items, <<>>, 0, passed, upto)
  BY <1>7, <1>8, <1>9, NothingDue
<1> QED
  BY <1>4, <1>9, <1>10

\* Nothing is due that only lost operations would bring of events they name.
LEMMA LostIsTouched ==
    ASSUME NEW items, NEW ops \in Seq(Ops), NEW first, NEW touched, first \subseteq touched,
           IdsOf(ops) \subseteq touched, 0 \notin Shows(items), NEW upto,
           Right(items, first, ops, 0, upto)
    PROVE  Right(items, touched, <<>>, 0, upto)
<1> SUFFICES ASSUME NEW k \in DOMAIN items, items[k].id \notin touched, Plain(items[k].id)
             PROVE  /\ \A l \in DOMAIN items : items[l].id = items[k].id => l = k
                    /\ Current(items[k], <<>>, 0, upto)
  BY DEF Right
<1>1. PICK item : item = items[k]
  OBVIOUS
<1>2. /\ \A l \in DOMAIN items : items[l].id = items[k].id => l = k
      /\ Current(item, ops, 0, upto)
  BY <1>1 DEF Right
<1>3. item.id \notin IdsOf(ops) /\ item.id # 0
  BY <1>1 DEF Shows
<1>4. \A d \in 1..Len(ops) : ops[d].item.id # item.id
  BY <1>3 DEF IdsOf
<1>5. \A d \in (0 + 1)..Len(ops) : d \in 1..Len(ops)
  OBVIOUS
<1>6. /\ \A kinds : ~Comes(ops, 0, kinds, item.id)
      /\ \A j : ~Edited(ops, 0, item.id, j)
  BY <1>4, <1>5 DEF Comes, Edited
<1>7. Current(item, <<>>, 0, upto)
  BY <1>2, <1>6 DEF Current
<1> QED
  BY <1>1, <1>2, <1>7

\* A delta keeps right what it does not spoil, and so does its loss.
LEMMA EmitKeepsRight ==
    ASSUME LogInv, synced \in Nat, buffer \in Seq(Item), NEW ops \in Seq(Ops),
           NEW upto \in Nat, NEW touched, NEW known, known = spoilt \cup touched,
           Faithful(ops, known, upto), Right(buffer, known, ops, 0, upto),
           NEW more, NEW passed, Emit(ops, touched, more, passed)
    PROVE  \E items, all : /\ items = buffer' /\ all = spoilt'
                           /\ Right(items, all, <<>>, 0, upto)
<1>1. CASE Relay(ops, touched, more, passed)
  <2>1. PICK start : start = [items |-> buffer, spoilt |-> spoilt \cup touched, dropped |-> {}]
    OBVIOUS
  <2>2. PICK done : done = RelayOps(start, ops)
    OBVIOUS
  <2>3. buffer' = done.items /\ spoilt' = done.spoilt
    BY <1>1, <2>1, <2>2 DEF Relay
  <2>4. PICK items \in Seq(Item) : items = buffer
    OBVIOUS
  <2>5. start.items = items /\ start.spoilt = known
    BY <2>1, <2>4
  <2>6. Right(items, known, ops, 0, upto)
    BY <2>4
  <2>7. /\ start.items \in Seq(Item)
        /\ Faithful(ops, start.spoilt, upto)
        /\ Right(start.items, start.spoilt, ops, 0, upto)
    BY <2>5, <2>6
  <2>8. DOMAIN log \subseteq Nat
    BY LogFacts
  <2>9. Right(done.items, done.spoilt, ops, Len(ops), upto)
    BY ONLY <2>2, <2>7, <2>8, ops \in Seq(Ops), upto \in Nat, synced \in Nat,
            RelayKeepsRight
  <2>10. PICK new, all : new = done.items /\ all = done.spoilt
    OBVIOUS
  <2>11. Right(new, all, <<>>, 0, upto)
    BY <2>9, <2>10, NothingDue
  <2> QED
    BY <2>3, <2>10, <2>11
<1>2. CASE Lose(ops, touched)
  <2>0. PICK items \in Seq(Item) : items = buffer
    OBVIOUS
  <2>1. PICK all : items = buffer' /\ all = spoilt' /\ items = buffer
    BY <1>2, <2>0 DEF Lose
  <2>2. known \subseteq all /\ IdsOf(ops) \subseteq all
    BY <1>2, <2>1 DEF Lose
  <2>3. 0 \notin Shows(items)
    BY <2>1, ShowsEvents, TimelineAssumption DEF Ids
  <2>4. Right(items, known, ops, 0, upto)
    BY <2>1
  <2>5. Right(items, all, <<>>, 0, upto)
    BY ONLY <2>2, <2>3, <2>4, ops \in Seq(Ops), LostIsTouched
  <2> QED
    BY <2>1, <2>5
<1> QED
  BY <1>1, <1>2 DEF Emit

-----------------------------------------------------------------------------
(* The inductive invariant.                                                *)

\* What the adapter sends.
StreamEvents ==
    [kind : {"delta", "snapshot", "loggedOut"}, ops : Seq(Ops), items : Seq(Item)]

\* Every variable has its type, and what the tasks remember is of the log.
Typed ==
    /\ LogInv
    /\ keys \in BOOLEAN /\ refreshing \in BOOLEAN
    /\ synced \in 0..Len(log) /\ Signed(signatures, synced)
    /\ token \in 0..Len(log)
    /\ buffer \in Seq(Item) /\ Len(buffer) <= MaxItems
    /\ view \in Seq(Item) /\ Len(view) <= MaxItems
    /\ stream \in Seq(StreamEvents) /\ Len(stream) <= Capacity
    /\ spoilt \subseteq Ids /\ faults \subseteq Weaknesses
    /\ turns \in 0..MaxTurns

\* What the server answered is what the log said then; a page of history ends
\* where the one before it began.
AnswerInv ==
    reply # None =>
        /\ reply.kind \in {"open", "paginate", "edit", "redact"}
        /\ reply.at \in 0..Len(log)
        /\ reply.kind \in {"open", "paginate"} =>
              /\ reply.from \in Nat /\ reply.to \in reply.from..reply.at
              /\ reply.kind = "open" => reply.to = reply.at
              /\ reply.kind = "paginate" /\ token # 0 => reply.to = token
              /\ reply.kind = "paginate" /\ token = 0 => reply.to = reply.at
        /\ reply.kind \in {"edit", "redact"} =>
              /\ reply.at \in DOMAIN log /\ reply.of = log[reply.at].of
              /\ reply.kind = "edit" => log[reply.at].type = "edit"
              /\ reply.kind = "redact" => log[reply.at].type = "redaction"

\* In step, the buffer holds every message from some point on.
OrderInv ==
    InStep => /\ Following(buffer, <<>>, 0, synced)
              /\ Present(buffer, <<>>, 0, Passed(token), synced)

\* Items that no weakness touched show what the sync task has seen.
RightInv == Right(buffer, spoilt, <<>>, 0, synced)

\* The inductive invariant.
Inv == Typed /\ AnswerInv /\ OrderInv /\ RightInv

-----------------------------------------------------------------------------

\* A channel holds no more than it takes.
LEMMA SendKeepsType ==
    ASSUME NEW S, NEW s \in Seq(S), NEW e \in S
    PROVE  Send(s, e) \in Seq(S) /\ Len(Send(s, e)) <= Capacity
<1> DEFINE all == Append(s, e)
           from == Newest(Len(all), Capacity) + 1
<1>1. /\ all \in Seq(S)
      /\ Len(all) = Len(s) + 1
      /\ all[Len(all)] = e
  OBVIOUS
<1>2. from \in 1..Len(all) /\ Len(all) - from + 1 <= Capacity
  BY <1>1, TimelineAssumption DEF Newest
<1>3. Send(s, e) = SubSeq(all, from, Len(all))
  BY DEF Send
<1> DEFINE kept == SubSeq(all, from, Len(all))
<1> HIDE DEF all, from
<1>4. kept \in Seq(S) /\ Len(kept) = Len(all) - from + 1
  BY <1>1, <1>2
<1> QED
  BY <1>2, <1>3, <1>4

\* A delta, relayed or lost, leaves everything typed.
LEMMA EmitKeepsType ==
    ASSUME Typed, NEW ops \in Seq(Ops), InLog(ops), NEW touched, touched \subseteq Ids,
           NEW more, more \subseteq Weaknesses, NEW passed,
           Emit(ops, touched, more, passed)
    PROVE  /\ buffer' \in Seq(Item) /\ Len(buffer') <= MaxItems
           /\ stream' \in Seq(StreamEvents) /\ Len(stream') <= Capacity
           /\ spoilt' \subseteq Ids /\ faults' \subseteq Weaknesses
           /\ turns' \in 0..MaxTurns
<1>0. \A d \in 1..Len(ops), i \in Ids :
          ops[d].item.id = i => i \in DOMAIN log
  <2>1. 0 \notin Ids
    BY TimelineAssumption DEF Ids
  <2>2. Clear.item.id = 0
    BY DEF Clear, Op
  <2> QED
    BY <2>1, <2>2 DEF InLog
<1>1. CASE Relay(ops, touched, more, passed)
  <2>1. PICK start : start = [items |-> buffer, spoilt |-> spoilt \cup touched, dropped |-> {}]
    OBVIOUS
  <2>2. PICK done : done = RelayOps(start, ops)
    OBVIOUS
  <2>3. /\ buffer' = done.items /\ spoilt' = done.spoilt
        /\ stream' = Send(Send(stream, Delta(ops)), Snapshot(buffer'))
        /\ faults' \subseteq Weaknesses /\ turns' = turns
    BY <1>1, <2>1, <2>2 DEF Relay, Typed, Weaknesses
  <2>4. /\ start.items \in Seq(Item) /\ Len(start.items) <= MaxItems
        /\ start.spoilt \subseteq Ids
    BY <2>1 DEF Typed
  <2>5. \A d \in 1..Len(ops), i \in Ids :
            ops[d].item.id = i /\ log[i].type = "edit" => log[i].of \in Ids
    <3> SUFFICES ASSUME NEW i \in DOMAIN log, log[i].type = "edit"
                 PROVE  log[i].of \in Ids
      BY <1>0
    <3>1. log[i].of \in 1..(i - 1) /\ i \in Ids
      BY LogFacts DEF Typed, LogInv
    <3> QED
      BY <3>1, TimelineAssumption DEF Ids
  <2>6. /\ done.items \in Seq(Item) /\ Len(done.items) <= MaxItems
        /\ done.spoilt \subseteq Ids
    BY ONLY <2>2, <2>4, <2>5, ops \in Seq(Ops), RelayKeepsType
  <2>7. PICK old \in Seq(StreamEvents) : old = stream
    BY DEF Typed
  <2>8. PICK items \in Seq(Item) : items = buffer'
    BY <2>3, <2>6
  <2>9. PICK delta \in StreamEvents, snapshot \in StreamEvents :
            delta = Delta(ops) /\ snapshot = Snapshot(items)
    <3>1. <<>> \in Seq(Ops) /\ <<>> \in Seq(Item)
      OBVIOUS
    <3>2. Delta(ops) \in StreamEvents
      BY <3>1 DEF Delta, StreamEvents
    <3>3. Snapshot(items) \in StreamEvents
      BY <3>1 DEF Snapshot, StreamEvents
    <3> QED
      BY <3>2, <3>3
  <2>10. PICK one \in Seq(StreamEvents) : one = Send(old, delta)
    BY SendKeepsType
  <2>11. Send(one, snapshot) \in Seq(StreamEvents) /\ Len(Send(one, snapshot)) <= Capacity
    BY SendKeepsType
  <2>12. stream' = Send(one, snapshot)
    BY <2>3, <2>7, <2>8, <2>9, <2>10
  <2> QED
    BY <2>3, <2>6, <2>11, <2>12 DEF Typed
<1>2. CASE Lose(ops, touched)
  <2>1. IdsOf(ops) \subseteq Ids
    <3> SUFFICES ASSUME NEW d \in DOMAIN ops, ops[d].item.id # 0
                 PROVE  ops[d].item.id \in Ids
      BY DEF IdsOf
    <3>1. ops[d] # Clear
      BY DEF Clear, Op
    <3> QED
      BY <3>1, LogFacts DEF InLog, Typed
  <2>2. {buffer[k].id : k \in DOMAIN buffer} \subseteq Ids
    BY ShowsEvents DEF Shows, Typed
  <2>3. turns' \in 0..MaxTurns
    BY <1>2, TimelineAssumption DEF Lose, Turn, Typed
  <2> QED
    BY <1>2, <2>1, <2>2, <2>3 DEF Lose, Typed, Weaknesses
<1> QED
  BY <1>1, <1>2 DEF Emit

\* So does what the sync task emits.
LEMMA EmittedKeepsType ==
    ASSUME Typed, NEW ops \in Seq(Ops), InLog(ops), NEW touched, touched \subseteq Ids,
           NEW more, more \subseteq Weaknesses,
           Emitted(ops, touched, more)
    PROVE  /\ buffer' \in Seq(Item) /\ Len(buffer') <= MaxItems
           /\ stream' \in Seq(StreamEvents) /\ Len(stream') <= Capacity
           /\ spoilt' \subseteq Ids /\ faults' \subseteq Weaknesses
           /\ turns' \in 0..MaxTurns
<1>1. CASE ops # <<>>
  <2>1. PICK passed : passed = Passed(token)
    OBVIOUS
  <2>2. Emit(ops, touched, more, passed)
    BY <1>1, <2>1 DEF Emitted
  <2> QED
    BY <2>2, EmitKeepsType
<1>2. CASE ops = <<>>
  BY <1>2 DEF Emitted, Typed
<1> QED
  BY <1>1, <1>2

\* The same of what the sync task emits, which sends no empty delta.
LEMMA EmittedKeepsOrder ==
    ASSUME LogInv, buffer \in Seq(Item), NEW ops \in Seq(Ops), NEW passed \in Nat,
           passed = Passed(token), NEW upto \in Nat, Orderly(ops, passed, upto),
           Clears(ops, 0) \/ Following(buffer, ops, 0, upto),
           Present(buffer, ops, 0, passed, upto),
           NEW touched, NEW more, Emitted(ops, touched, more), InStep'
    PROVE  \E items : /\ items = buffer'
                      /\ Following(items, <<>>, 0, upto)
                      /\ Present(items, <<>>, 0, passed, upto)
<1>1. CASE ops # <<>>
  <2>1. Emit(ops, touched, more, passed)
    BY <1>1 DEF Emitted
  <2> QED
    BY <2>1, EmitKeepsOrder
<1>2. CASE ops = <<>>
  <2>1. PICK items : items = buffer
    OBVIOUS
  <2>2. ~Clears(<<>>, 0)
    BY DEF Clears
  <2>3. Following(items, <<>>, 0, upto) /\ Present(items, <<>>, 0, passed, upto)
    BY <1>2, <2>1, <2>2
  <2> QED
    BY <1>2, <2>1, <2>3 DEF Emitted
<1> QED
  BY <1>1, <1>2

\* The same for what is right.
LEMMA EmittedKeepsRight ==
    ASSUME LogInv, synced \in Nat, buffer \in Seq(Item), NEW ops \in Seq(Ops),
           NEW upto \in Nat, NEW touched, NEW known, known = spoilt \cup touched,
           Faithful(ops, known, upto), Right(buffer, known, ops, 0, upto),
           NEW more, Emitted(ops, touched, more)
    PROVE  \E items, all : /\ items = buffer' /\ all = spoilt'
                           /\ Right(items, all, <<>>, 0, upto)
<1>1. CASE ops # <<>>
  <2>1. PICK passed : passed = Passed(token)
    OBVIOUS
  <2>2. Emit(ops, touched, more, passed)
    BY <1>1, <2>1 DEF Emitted
  <2> QED
    BY <2>2, EmitKeepsRight
<1>2. CASE ops = <<>>
  <2>1. PICK items, all : items = buffer /\ all = known
    OBVIOUS
  <2>2. Right(items, all, <<>>, 0, upto)
    BY <1>2, <2>1
  <2> QED
    BY <1>2, <2>1, <2>2 DEF Emitted
<1> QED
  BY <1>1, <1>2

\* What the sync task emits puts nothing in step that was not.
LEMMA EmittedInStep ==
    ASSUME NEW ops, NEW touched, NEW more, Emitted(ops, touched, more), InStep'
    PROVE  InStep /\ more \subseteq {"silent"}
<1>1. CASE ops # <<>>
  <2>1. PICK passed : passed = Passed(token)
    OBVIOUS
  <2>2. Emit(ops, touched, more, passed)
    BY <1>1, <2>1 DEF Emitted
  <2> QED
    BY <2>2, InStepWas
<1>2. CASE ops = <<>>
  BY <1>2 DEF Emitted, InStep
<1> QED
  BY <1>1, <1>2

-----------------------------------------------------------------------------
(* The log grows.                                                          *)

\* The log only grows.
Grows ==
    /\ Len(log) <= Len(log') /\ Len(log') \in Nat
    /\ DOMAIN log' = 1..Len(log')
    /\ \A i \in DOMAIN log : log'[i] = log[i]

\* A log that stays grows, by nothing.
LEMMA SameGrows ==
    ASSUME LogInv, log' = log
    PROVE  Grows
BY LogFacts DEF Grows

\* What was said of the events seen is said still.
LEMMA GrownLog ==
    ASSUME LogInv, Grows, NEW upto \in 0..Len(log)
    PROVE  /\ \A i \in Messages' : i <= upto => i \in Messages
           /\ \A i : Edits(i) \subseteq Edits(i)'
           /\ \A i : \A j \in Edits(i)' : j <= upto => j \in Edits(i)
           /\ \A i : Redacted(i, upto)' <=> Redacted(i, upto)
<1>1. /\ DOMAIN log = 1..Len(log) /\ Len(log) \in Nat /\ upto \in Nat /\ upto <= Len(log)
      /\ Len(log) <= Len(log') /\ Len(log') \in Nat
      /\ DOMAIN log' = 1..Len(log') /\ \A i \in DOMAIN log : log'[i] = log[i]
  BY LogFacts DEF Grows
<1>2. \A i : Redacted(i, upto)' <=> Redacted(i, upto)
  BY <1>1 DEF Redacted
<1>3. \A i : Redacted(i, Len(log)) => Redacted(i, Len(log))'
  BY <1>1 DEF Redacted
<1>4. ASSUME NEW i \in Messages', i <= upto PROVE i \in Messages
  <2>1. /\ i \in 1..Len(log') /\ log'[i].type = "message"
        /\ ~Redacted(i, Len(log))'
    BY <1>1 DEF Messages
  <2>2. i \in DOMAIN log
    BY <1>1, <1>4, <2>1
  <2> QED
    BY <1>1, <1>3, <2>1, <2>2 DEF Messages
<1>5. \A i : Edits(i) \subseteq Edits(i)'
  BY <1>1 DEF Edits
<1>6. \A i : \A j \in Edits(i)' : j <= upto => j \in Edits(i)
  BY <1>1 DEF Edits
<1> QED
  BY <1>2, <1>4, <1>5, <1>6

\* The buffer stays in order while the log grows.
LEMMA OrderStays ==
    ASSUME LogInv, Grows, NEW items, items = buffer', NEW upto \in 0..Len(log),
           upto = synced', NEW passed, passed = Passed(token)',
           Following(items, <<>>, 0, upto), Present(items, <<>>, 0, passed, upto)
    PROVE  OrderInv'
<1>1. \A i \in Messages' : i <= upto => i \in Messages
  BY GrownLog
<1>2. \A k \in DOMAIN items, i \in Messages' :
          items[k].id < i /\ i <= upto => \E l \in DOMAIN items : l > k /\ items[l].id = i
  BY <1>1, NothingComes DEF Following
<1>3. \A i \in Messages' : passed < i /\ i <= upto => Has(items, i)
  BY <1>1, NothingComes DEF Present
<1>4. Following(buffer, <<>>, 0, synced)'
  BY <1>2 DEF Following
<1>5. Present(buffer, <<>>, 0, Passed(token), synced)'
  BY <1>3 DEF Present, Has
<1> QED
  BY <1>4, <1>5 DEF OrderInv

\* Items stay right while the log grows.
LEMMA RightStays ==
    ASSUME LogInv, Grows, NEW items, items = buffer', NEW all, all = spoilt',
           NEW upto \in 0..Len(log), upto = synced',
           Right(items, all, <<>>, 0, upto)
    PROVE  RightInv'
<1>1. /\ \A i : Edits(i) \subseteq Edits(i)'
      /\ \A i : \A j \in Edits(i)' : j <= upto => j \in Edits(i)
      /\ \A i : Redacted(i, upto)' <=> Redacted(i, upto)
  BY GrownLog
<1>2. \A i \in DOMAIN log : log'[i] = log[i] /\ i \in DOMAIN log'
  BY LogFacts DEF Grows
<1>3. \A i : Plain(i)' => Plain(i)
  <2> SUFFICES ASSUME NEW i, Plain(i)', NEW j \in Edits(i) PROVE ~log[j].sealed
    BY DEF Plain
  <2>1. j \in Edits(i)' /\ j \in DOMAIN log
    BY <1>1 DEF Edits
  <2> QED
    BY <1>2, <2>1 DEF Plain
<1>4. ASSUME NEW k \in DOMAIN items, items[k].id \notin all, Plain(items[k].id)'
      PROVE  /\ \A l \in DOMAIN items : items[l].id = items[k].id => l = k
             /\ items[k].body \in Edits(items[k].id)' \cup {0}
             /\ \A j \in Edits(items[k].id)' : j <= upto => j <= items[k].body
             /\ ~items[k].sealed =>
                   /\ items[k].id \in DOMAIN log'
                   /\ log'[items[k].id].type = "message"
                   /\ ~Redacted(items[k].id, upto)'
  <2>1. PICK item, id : item = items[k] /\ id = item.id
    OBVIOUS
  <2>2. /\ \A l \in DOMAIN items : items[l].id = items[k].id => l = k
        /\ Current(item, <<>>, 0, upto)
    BY <1>3, <1>4, <2>1 DEF Right
  <2>3. /\ item.body \in Edits(id) \cup {0}
        /\ \A j \in Edits(id) : j <= upto => j <= item.body
        /\ ~item.sealed =>
              id \in DOMAIN log /\ log[id].type = "message" /\ ~Redacted(id, upto)
    BY <2>1, <2>2, NothingComes DEF Current
  <2>4. item.body \in Edits(id)' \cup {0}
    BY <1>1, <2>3
  <2>5. \A j \in Edits(id)' : j <= upto => j <= item.body
    BY <1>1, <2>3
  <2>6. ~item.sealed =>
            id \in DOMAIN log' /\ log'[id].type = "message" /\ ~Redacted(id, upto)'
    BY <1>1, <1>2, <2>3
  <2> QED
    BY <2>1, <2>2, <2>4, <2>5, <2>6
<1>5. \A item : Current(item, <<>>, 0, synced)' <=>
          /\ item.body \in Edits(item.id)' \cup {0}
          /\ \A j \in Edits(item.id)' : j <= synced' => j <= item.body
          /\ ~item.sealed =>
                /\ item.id \in DOMAIN log'
                /\ log'[item.id].type = "message"
                /\ ~Redacted(item.id, synced)'
  BY NothingComes DEF Current
<1>6. \A i : Redacted(i, synced)' <=> Redacted(i, upto)'
  BY DEF Redacted
<1> QED
  BY <1>4, <1>5, <1>6 DEF RightInv, Right

-----------------------------------------------------------------------------
(* Each action keeps the invariant.                                        *)

\* Answers stay what the log said.
LEMMA AnswerStays ==
    ASSUME LogInv, AnswerInv, Grows, reply' = reply, token' = token
    PROVE  AnswerInv'
<1>1. /\ DOMAIN log = 1..Len(log) /\ Len(log) \in Nat
      /\ Len(log) <= Len(log') /\ Len(log') \in Nat
      /\ DOMAIN log' = 1..Len(log') /\ \A i \in DOMAIN log : log'[i] = log[i]
  BY LogFacts DEF Grows
<1>2. \A n \in 0..Len(log) : n \in 0..Len(log')
  BY <1>1
<1>3. \A i \in DOMAIN log : i \in DOMAIN log'
  BY <1>1
<1> QED
  BY <1>1, <1>2, <1>3 DEF AnswerInv

\* An event more in the room's log.
LEMMA AcceptGrows ==
    ASSUME LogInv, NEW type \in {"message", "edit", "redaction"}, NEW of, NEW sealed \in BOOLEAN,
           type = "message" => of = 0, type # "message" => of \in Messages,
           Accept(type, of, sealed)
    PROVE  /\ LogInv' /\ Grows
           /\ Len(log') = Len(log) + 1
           /\ log'[Len(log) + 1].type = type /\ log'[Len(log) + 1].of = of
<1>1. /\ DOMAIN log = 1..Len(log) /\ Len(log) \in Nat /\ log \in Seq(Event)
      /\ Messages \subseteq DOMAIN log
      /\ \A i \in DOMAIN log :
            log[i].type # "message" =>
                log[i].of \in 1..(i - 1) /\ log[log[i].of].type = "message"
      /\ Len(log) + 1 <= MaxEvents
  <2>1. Len(log) < MaxEvents /\ MaxEvents \in Nat
    BY TimelineAssumption DEF Accept
  <2> QED
    BY <2>1, LogFacts DEF LogInv
<1>2. PICK e : e = [type |-> type, of |-> of, sealed |-> sealed]
  OBVIOUS
<1>3. of \in 0..MaxEvents
  BY <1>1, TimelineAssumption
<1>4. e \in Event
  BY <1>2, <1>3 DEF Event
<1>5. PICK old \in Seq(Event) : old = log
  BY <1>1
<1>6. PICK n \in Nat : n = Len(old)
  OBVIOUS
<1>7. PICK new : new = Append(old, e)
  OBVIOUS
<1>8. /\ new \in Seq(Event) /\ Len(new) = n + 1 /\ DOMAIN new = 1..(n + 1)
      /\ new[n + 1] = e /\ \A i \in 1..n : new[i] = old[i]
  BY ONLY <1>4, <1>6, <1>7, old \in Seq(Event)
<1>9. log' = new
  BY <1>2, <1>5, <1>7 DEF Accept
<1>10. n = Len(log) /\ DOMAIN log = 1..n
  BY <1>1, <1>5, <1>6
<1>11. Grows
  BY <1>5, <1>8, <1>9, <1>10 DEF Grows
<1>12. ASSUME NEW i \in 1..(n + 1), new[i].type # "message"
       PROVE  new[i].of \in 1..(i - 1) /\ new[new[i].of].type = "message"
  <2>1. CASE i \in 1..n
    <3>1. new[i] = log[i] /\ log[i].of \in 1..(i - 1) /\ log[log[i].of].type = "message"
      BY <1>1, <1>5, <1>8, <1>10, <1>12, <2>1
    <3>2. log[i].of \in 1..n
      BY <2>1, <3>1
    <3> QED
      BY <1>5, <1>8, <3>1, <3>2
  <2>2. CASE i = n + 1
    <3>1. new[i] = e /\ e.of = of /\ e.type = type
      BY <1>2, <1>8, <2>2
    <3>2. of \in Messages
      BY <1>12, <3>1
    <3>3. of \in 1..n /\ log[of].type = "message"
      BY <1>1, <1>10, <3>2 DEF Messages
    <3>4. new[of] = log[of]
      BY <1>5, <1>8, <3>3
    <3> QED
      BY <2>2, <3>1, <3>3, <3>4
  <2> QED
    BY <2>1, <2>2
<1>13. LogInv'
  BY <1>1, <1>8, <1>9, <1>10, <1>12 DEF LogInv
<1> QED
  BY <1>2, <1>8, <1>9, <1>10, <1>11, <1>13

\* What the client holds is as typed, right and in order as before in a log that
\* only grew.
LEMMA GrownKeepsInv ==
    ASSUME Inv, LogInv', Grows, UNCHANGED <<syncVars, token, adapterVars, view>>
    PROVE  /\ turns' \in 0..MaxTurns => Typed'
           /\ OrderInv' /\ RightInv'
<1>1. LogInv /\ synced \in 0..Len(log)
  BY DEF Inv, Typed
<1>2. /\ keys' = keys /\ refreshing' = refreshing /\ synced' = synced
      /\ signatures' = signatures /\ token' = token /\ buffer' = buffer
      /\ view' = view /\ stream' = stream /\ spoilt' = spoilt /\ faults' = faults
  BY DEF syncVars, adapterVars
<1>3. \A n \in 0..Len(log) : n \in 0..Len(log')
  BY <1>1, LogFacts DEF Grows
<1>4. turns' \in 0..MaxTurns => Typed'
  BY <1>2, <1>3 DEF Inv, Typed, Signed
<1>5. OrderInv'
  <2>1. CASE ~InStep
    BY <1>2, <2>1 DEF OrderInv, InStep
  <2>2. CASE InStep
    <3>1. PICK items : items = buffer
      OBVIOUS
    <3>2. PICK upto \in 0..Len(log) : upto = synced
      BY <1>1
    <3>3. PICK passed : passed = Passed(token)
      OBVIOUS
    <3>4. Following(items, <<>>, 0, upto) /\ Present(items, <<>>, 0, passed, upto)
      BY <2>2, <3>1, <3>2, <3>3 DEF Inv, OrderInv
    <3>5. items = buffer' /\ upto = synced' /\ passed = Passed(token)'
      BY <1>2, <3>1, <3>2, <3>3 DEF Passed
    <3> QED
      BY <1>1, <3>4, <3>5, OrderStays
  <2> QED
    BY <2>1, <2>2
<1>6. RightInv'
  <2>1. PICK items, all : items = buffer /\ all = spoilt
    OBVIOUS
  <2>2. PICK upto \in 0..Len(log) : upto = synced
    BY <1>1
  <2>3. Right(items, all, <<>>, 0, upto)
    BY <2>1, <2>2 DEF Inv, RightInv
  <2>4. items = buffer' /\ all = spoilt' /\ upto = synced'
    BY <1>2, <2>1, <2>2
  <2> QED
    BY <1>1, <2>3, <2>4, RightStays
<1> QED
  BY <1>4, <1>5, <1>6

\* An event that names a message, or none, is accepted well.
LEMMA MessagesAccept ==
    ASSUME NEW sealed \in BOOLEAN
    PROVE  /\ Accept("message", 0, sealed) /\ Inv => LogInv' /\ Grows
           /\ \A i \in Messages : Accept("edit", i, sealed) /\ Inv => LogInv' /\ Grows
           /\ \A i \in Messages : Accept("redaction", i, sealed) /\ Inv => LogInv' /\ Grows
<1>1. /\ "message" \in {"message", "edit", "redaction"}
      /\ "edit" \in {"message", "edit", "redaction"}
      /\ "redaction" \in {"message", "edit", "redaction"}
  OBVIOUS
<1>2. ASSUME Inv, Accept("message", 0, sealed) PROVE LogInv' /\ Grows
  BY <1>1, <1>2, AcceptGrows DEF Inv, Typed
<1>3. ASSUME NEW i \in Messages, Inv, Accept("edit", i, sealed) PROVE LogInv' /\ Grows
  BY <1>1, <1>3, AcceptGrows DEF Inv, Typed
<1>4. ASSUME NEW i \in Messages, Inv, Accept("redaction", i, sealed) PROVE LogInv' /\ Grows
  BY <1>1, <1>4, AcceptGrows DEF Inv, Typed
<1> QED
  BY <1>2, <1>3, <1>4

\* Another member posts: the log grows above what was seen.
LEMMA PostKeepsInv ==
    ASSUME Inv, Post
    PROVE  Inv'
<1>1. LogInv' /\ Grows
  <2>1. PICK sealed \in BOOLEAN :
            \/ Accept("message", 0, sealed)
            \/ \E i \in Messages : Accept("edit", i, sealed)
            \/ \E i \in Messages : ~sealed /\ Accept("redaction", i, FALSE)
    BY DEF Post
  <2>2. CASE Accept("message", 0, sealed)
    BY <2>2, MessagesAccept
  <2>3. CASE \E i \in Messages : Accept("edit", i, sealed)
    BY <2>3, MessagesAccept
  <2>4. CASE \E i \in Messages : ~sealed /\ Accept("redaction", i, FALSE)
    BY <2>4, MessagesAccept
  <2> QED
    BY <2>1, <2>2, <2>3, <2>4
<1>2. UNCHANGED <<syncVars, token, adapterVars, view>> /\ reply' = reply /\ turns' = turns
  BY DEF Post, runtimeVars
<1>3. turns' \in 0..MaxTurns
  BY <1>2 DEF Inv, Typed
<1>4. AnswerInv'
  BY <1>1, <1>2, AnswerStays DEF Inv, Typed
<1> QED
  BY <1>1, <1>2, <1>3, <1>4, GrownKeepsInv DEF Inv

\* An own edit or redaction, accepted and not emitted yet.
LEMMA OwnKeepsInv ==
    ASSUME Inv, NEW i \in Messages, NEW kind, NEW type,
           \/ kind = "edit" /\ type = "edit"
           \/ kind = "redact" /\ type = "redaction",
           Accept(type, i, FALSE), Answered(kind, 0, 0, i, Len(log')),
           UNCHANGED <<syncVars, token, adapterVars, view>>
    PROVE  Inv'
<1>1. /\ LogInv' /\ Grows /\ Len(log') = Len(log) + 1
      /\ log'[Len(log) + 1].type = type /\ log'[Len(log) + 1].of = i
  <2>1. type \in {"message", "edit", "redaction"} /\ type # "message"
    OBVIOUS
  <2>2. FALSE \in BOOLEAN
    OBVIOUS
  <2>3. LogInv
    BY DEF Inv, Typed
  <2> QED
    BY ONLY <2>1, <2>2, <2>3, i \in Messages, Accept(type, i, FALSE), AcceptGrows
<1>2. turns' \in 0..MaxTurns
  BY TimelineAssumption DEF Answered, Turn, Inv, Typed
<1>3. AnswerInv'
  <2>1. PICK answer : answer = reply'
    OBVIOUS
  <2>2. /\ answer.kind = kind /\ answer.at = Len(log') /\ answer.of = i
    BY <2>1 DEF Answered
  <2>3. Len(log') \in DOMAIN log' /\ Len(log') \in 0..Len(log')
    BY <1>1, LogFacts DEF Grows, Inv, Typed
  <2>4. log'[Len(log')].type = type /\ log'[Len(log')].of = i
    BY <1>1
  <2>5. answer # None =>
        /\ answer.kind \in {"edit", "redact"}
        /\ answer.at \in 0..Len(log')
        /\ answer.at \in DOMAIN log' /\ answer.of = log'[answer.at].of
        /\ answer.kind = "edit" => log'[answer.at].type = "edit"
        /\ answer.kind = "redact" => log'[answer.at].type = "redaction"
    BY <2>2, <2>3, <2>4
  <2> QED
    BY <2>1, <2>5 DEF AnswerInv
<1> QED
  BY <1>1, <1>2, <1>3, GrownKeepsInv DEF Inv

\* A page asked for.
LEMMA PageKeepsInv ==
    ASSUME Inv, NEW kind \in {"open", "paginate"}, NEW to \in 0..Len(log), NEW size \in Nat,
           kind = "open" => to = Len(log),
           kind = "paginate" => to = IF token = 0 THEN Len(log) ELSE token,
           Answered(kind, Newest(to, size), to, 0, Len(log)),
           UNCHANGED <<serverVars, syncVars, token, adapterVars, view>>
    PROVE  Inv'
<1>1. LogInv /\ log' = log /\ token' = token /\ Len(log) \in Nat
  BY LogFacts DEF Inv, Typed, serverVars
<1>2. LogInv' /\ Grows
  BY <1>1, SameGrows DEF LogInv
<1>3. turns' \in 0..MaxTurns
  BY TimelineAssumption DEF Answered, Turn, Inv, Typed
<1>4. AnswerInv'
  <2>1. PICK answer : answer = reply'
    OBVIOUS
  <2>2. /\ answer.kind = kind /\ answer.at = Len(log)
        /\ answer.from = Newest(to, size) /\ answer.to = to
    BY <2>1 DEF Answered
  <2>3. Newest(to, size) \in Nat /\ Newest(to, size) <= to
    BY DEF Newest
  <2>4. to \in Newest(to, size)..Len(log) /\ Len(log) \in 0..Len(log)
    BY <1>1, <2>3
  <2>5. /\ answer.kind \in {"open", "paginate"}
        /\ answer.at \in 0..Len(log)
        /\ answer.from \in Nat /\ answer.to \in answer.from..answer.at
        /\ answer.kind = "open" => answer.to = answer.at
        /\ answer.kind = "paginate" /\ token # 0 => answer.to = token
        /\ answer.kind = "paginate" /\ token = 0 => answer.to = answer.at
    BY <2>2, <2>3, <2>4
  <2> QED
    BY <1>1, <2>1, <2>5 DEF AnswerInv
<1> QED
  BY <1>2, <1>3, <1>4, GrownKeepsInv DEF Inv

\* The newest page is asked for.
LEMMA OpenRoomKeepsInv ==
    ASSUME Inv, OpenRoom
    PROVE  Inv'
<1>1. Len(log) \in 0..Len(log) /\ OpenLimit \in Nat
  BY LogFacts, TimelineAssumption DEF Inv, Typed
<1>2. PICK kind \in {"open", "paginate"} : kind = "open"
  OBVIOUS
<1> QED
  BY <1>1, <1>2, PageKeepsInv DEF OpenRoom

\* A page of history is asked for, up to the token.
LEMMA PaginateBackKeepsInv ==
    ASSUME Inv, PaginateBack
    PROVE  Inv'
<1>1. PICK to \in 0..Len(log) : to = IF token = 0 THEN Len(log) ELSE token
  <2>1. Len(log) \in 0..Len(log) /\ token \in 0..Len(log)
    BY LogFacts DEF Inv, Typed
  <2> QED
    BY <2>1
<1>2. PICK kind \in {"open", "paginate"} : kind = "paginate"
  OBVIOUS
<1>3. /\ Answered(kind, Newest(to, PageLimit), to, 0, Len(log))
      /\ UNCHANGED <<serverVars, syncVars, token, adapterVars, view>>
  BY <1>1, <1>2 DEF PaginateBack
<1>4. PageLimit \in Nat
  BY TimelineAssumption
<1>5. kind = "open" => to = Len(log)
  BY <1>2
<1> QED
  BY <1>1, <1>3, <1>4, <1>5, PageKeepsInv

\* An own edit.
LEMMA OwnEditKeepsInv ==
    ASSUME Inv, OwnEdit
    PROVE  Inv'
<1>1. PICK i \in Messages : /\ Accept("edit", i, FALSE)
                            /\ Answered("edit", 0, 0, i, Len(log'))
  BY DEF OwnEdit
<1>2. PICK kind, type : kind = "edit" /\ type = "edit"
  OBVIOUS
<1>3. /\ Accept(type, i, FALSE) /\ Answered(kind, 0, 0, i, Len(log'))
      /\ UNCHANGED <<syncVars, token, adapterVars, view>>
  BY <1>1, <1>2 DEF OwnEdit
<1> QED
  BY ONLY <1>2, <1>3, Inv, i \in Messages, OwnKeepsInv

\* An own redaction.
LEMMA OwnRedactKeepsInv ==
    ASSUME Inv, OwnRedact
    PROVE  Inv'
<1>1. PICK i \in Messages : /\ Accept("redaction", i, FALSE)
                            /\ Answered("redact", 0, 0, i, Len(log'))
  BY DEF OwnRedact
<1>2. PICK kind, type : kind = "redact" /\ type = "redaction"
  OBVIOUS
<1>3. /\ Accept(type, i, FALSE) /\ Answered(kind, 0, 0, i, Len(log'))
      /\ UNCHANGED <<syncVars, token, adapterVars, view>>
  BY <1>1, <1>2 DEF OwnRedact
<1> QED
  BY ONLY <1>2, <1>3, Inv, i \in Messages, OwnKeepsInv

\* The buffer is as right and in order as it was, when nothing of it changes.
LEMMA BufferStays ==
    ASSUME Inv, UNCHANGED <<log, buffer, spoilt, faults, synced, token>>
    PROVE  LogInv' /\ OrderInv' /\ RightInv'
<1>1. /\ log' = log /\ buffer' = buffer /\ spoilt' = spoilt /\ synced' = synced
      /\ faults' = faults /\ token' = token
  OBVIOUS
<1>2. OrderInv' /\ RightInv'
  BY <1>1 DEF Inv, OrderInv, InStep, Following, Present, Messages, Redacted, Comes, Has,
       Passed, RightInv, Right, Plain, Current, Edited, Edits
<1> QED
  BY <1>1, <1>2 DEF Inv, Typed, LogInv

\* The page cannot be read.
LEMMA RefreshFailsKeepsInv ==
    ASSUME Inv, RefreshFails
    PROVE  Inv'
<1>1. /\ log' = log /\ buffer' = buffer /\ spoilt' = spoilt /\ synced' = synced
      /\ faults' = faults /\ signatures' = signatures /\ keys' = keys
      /\ refreshing' = FALSE /\ reply' = reply /\ token' = token
      /\ stream' = stream /\ view' = view /\ turns' = turns
  BY DEF RefreshFails, serverVars, runtimeVars, adapterVars
<1>2. LogInv' /\ OrderInv' /\ RightInv'
  BY <1>1, BufferStays
<1>3. Typed'
  BY <1>1, <1>2 DEF Inv, Typed, Signed
<1>4. AnswerInv'
  BY <1>1 DEF Inv, AnswerInv
<1> QED
  BY <1>2, <1>3, <1>4 DEF Inv

\* The sync task starts anew, and has seen nothing.
LEMMA ForgetsKeepsInv ==
    ASSUME Inv, log' = log, buffer' = buffer, spoilt' = spoilt, synced' = 0,
           faults \subseteq faults' \cup {"silent"}
    PROVE  LogInv' /\ OrderInv' /\ RightInv'
<1>1. LogInv /\ Grows /\ 0 \in 0..Len(log) /\ synced \in Nat
  BY SameGrows, LogFacts DEF Inv, Typed
<1>2. PICK items, all : items = buffer /\ all = spoilt
  OBVIOUS
<1>3. PICK upto \in 0..Len(log) : upto = 0
  BY <1>1
<1>4. PICK passed : passed = Passed(token)'
  OBVIOUS
<1>5. PICK was \in Nat : was = synced
  BY <1>1
<1>6. Right(items, all, <<>>, 0, was)
  BY <1>2, <1>5 DEF Inv, RightInv
<1>7. /\ Following(items, <<>>, 0, upto)
      /\ Present(items, <<>>, 0, passed, upto)
      /\ Right(items, all, <<>>, 0, upto)
  BY <1>1, <1>3, <1>6, NothingSeen
<1>8. items = buffer' /\ all = spoilt' /\ upto = synced'
  BY <1>2, <1>3
<1>9. OrderInv'
  BY <1>1, <1>4, <1>7, <1>8, OrderStays
<1>10. RightInv'
  BY <1>1, <1>7, <1>8, RightStays
<1> QED
  BY <1>1, <1>9, <1>10 DEF LogInv

\* A new sync task.
LEMMA SyncRestartsKeepsInv ==
    ASSUME Inv, SyncRestarts
    PROVE  Inv'
<1>1. /\ log' = log /\ buffer' = buffer /\ spoilt' = spoilt /\ synced' = 0
      /\ faults' = faults /\ signatures' = <<>> /\ keys' = keys
      /\ refreshing' = refreshing /\ reply' = reply /\ token' = token
      /\ stream' = stream /\ view' = view
      /\ turns < MaxTurns /\ turns' = turns + 1
  BY DEF SyncRestarts, Turn, serverVars, runtimeVars
<1>2. LogInv' /\ OrderInv' /\ RightInv'
  BY <1>1, ForgetsKeepsInv
<1>3. Signed(<<>>, 0) /\ Len(log) \in Nat
  BY LogFacts DEF Signed, Inv, Typed
<1>4. Typed'
  BY <1>1, <1>2, <1>3, TimelineAssumption DEF Typed, Inv, Signed
<1>5. AnswerInv'
  BY <1>1 DEF Inv, AnswerInv
<1> QED
  BY <1>2, <1>4, <1>5 DEF Inv

\* A logout: the buffer stays, the token goes.
LEMMA LogoutKeepsInv ==
    ASSUME Inv, Logout
    PROVE  Inv'
<1>1. /\ log' = log /\ buffer' = buffer /\ spoilt' = spoilt /\ synced' = 0
      /\ faults' = faults \cup {"silent"} /\ signatures' = <<>> /\ keys' = FALSE
      /\ refreshing' = refreshing /\ reply' = reply /\ reply = None /\ token' = 0
      /\ stream' = Send(stream, LoggedOut) /\ view' = view
      /\ turns < MaxTurns /\ turns' = turns + 1
  BY DEF Logout, Turn, serverVars
<1>2. LogInv' /\ OrderInv' /\ RightInv'
  BY <1>1, ForgetsKeepsInv
<1>3. Signed(<<>>, 0) /\ Len(log) \in Nat
  BY LogFacts DEF Signed, Inv, Typed
<1>4. LoggedOut \in StreamEvents
  <2>1. <<>> \in Seq(Ops) /\ <<>> \in Seq(Item)
    OBVIOUS
  <2> QED
    BY <2>1 DEF LoggedOut, StreamEvents
<1>5. stream' \in Seq(StreamEvents) /\ Len(stream') <= Capacity
  BY <1>1, <1>4, SendKeepsType DEF Inv, Typed
<1>6. faults' \subseteq Weaknesses
  BY <1>1 DEF Inv, Typed, Weaknesses
<1>7. Typed'
  <2>1. Signed(signatures, synced)'
    BY <1>1, <1>3 DEF Signed
  <2>2. /\ keys' \in BOOLEAN /\ refreshing' \in BOOLEAN
        /\ synced' \in 0..Len(log') /\ token' \in 0..Len(log')
    <3>1. keys' \in BOOLEAN /\ refreshing' \in BOOLEAN
      BY <1>1 DEF Inv, Typed
    <3>2. 0 \in 0..Len(log')
      BY <1>1, <1>3
    <3> QED
      BY <1>1, <3>1, <3>2
  <2>3. /\ buffer' \in Seq(Item) /\ Len(buffer') <= MaxItems
        /\ view' \in Seq(Item) /\ Len(view') <= MaxItems
        /\ spoilt' \subseteq Ids
    BY <1>1 DEF Inv, Typed
  <2>4. turns' \in 0..MaxTurns
    BY <1>1, TimelineAssumption DEF Inv, Typed
  <2> QED
    BY <1>2, <1>5, <1>6, <2>1, <2>2, <2>3, <2>4 DEF Typed
<1>8. AnswerInv'
  BY <1>1 DEF AnswerInv
<1> QED
  BY <1>2, <1>7, <1>8 DEF Inv

\* What the desktop makes of a delta is items.
LEMMA ApplyOpsKeepsType ==
    ASSUME NEW items \in Seq(Item), NEW ops \in Seq(Ops)
    PROVE  ApplyOps(items, ops) \in Seq(Item)
<1>1. Len(ops) \in Nat
  OBVIOUS
<1>2. PICK run :
          /\ run[0] = items
          /\ \A k \in 1..Len(ops) : run[k] = Apply(run[k - 1], ops[k])
          /\ ApplyOps(items, ops) = run[Len(ops)]
  BY ONLY <1>1, ApplyRuns
<1> DEFINE P == {k \in Nat : run[k] \in Seq(Item)}
<1>3. 0 \in P
  BY <1>2
<1>4. \A n \in 1..Len(ops) : n - 1 \in P => n \in P
  <2> SUFFICES ASSUME NEW n \in 1..Len(ops), n - 1 \in P PROVE n \in P
    OBVIOUS
  <2>1. PICK acc \in Seq(Item) : acc = run[n - 1]
    OBVIOUS
  <2>2. PICK op \in Ops : op = ops[n]
    OBVIOUS
  <2>3. run[n] = Apply(acc, op)
    BY <1>2, <2>1, <2>2
  <2>4. run[n] \in Seq(Item)
    BY <2>3, ApplyKeepsType
  <2> QED
    BY <2>4
<1> HIDE DEF P
<1>5. \A n \in 0..Len(ops) : n \in P
  BY ONLY <1>1, <1>3, <1>4, InductionUpTo
<1> QED
  BY <1>1, <1>2, <1>5 DEF P

\* The desktop handles an event: its view stays items.
LEMMA HandleEventKeepsInv ==
    ASSUME Inv, HandleEvent
    PROVE  Inv'
<1>1. /\ log' = log /\ buffer' = buffer /\ spoilt' = spoilt /\ synced' = synced
      /\ faults' = faults /\ signatures' = signatures /\ keys' = keys
      /\ refreshing' = refreshing /\ reply' = reply /\ token' = token
      /\ stream # <<>> /\ stream' = Tail(stream) /\ turns' = turns
  BY DEF HandleEvent, serverVars, syncVars, runtimeVars
<1>2. PICK event \in StreamEvents : event = Head(stream)
  BY <1>1 DEF Inv, Typed
<1>3. stream' \in Seq(StreamEvents) /\ Len(stream') <= Capacity
  <2>1. PICK s \in Seq(StreamEvents) : s = stream
    BY DEF Inv, Typed
  <2>2. Tail(s) \in Seq(StreamEvents) /\ Len(Tail(s)) = Len(s) - 1
    BY <1>1, <2>1
  <2> QED
    BY <1>1, <2>1, <2>2, TimelineAssumption DEF Inv, Typed
<1>4. view' \in Seq(Item) /\ Len(view') <= MaxItems
  <2>1. event.kind \in {"delta", "snapshot", "loggedOut"} /\ event.ops \in Seq(Ops)
        /\ event.items \in Seq(Item)
    BY DEF StreamEvents
  <2>2. CASE event.kind = "delta"
    <3>1. view' = DedupeAndTrim(ApplyOps(view, event.ops))
      BY <1>2, <2>2 DEF HandleEvent, Shown
    <3>2. ApplyOps(view, event.ops) \in Seq(Item)
      BY <2>1, ApplyOpsKeepsType DEF Inv, Typed
    <3> QED
      BY <3>1, <3>2, DedupeShows
  <2>3. CASE event.kind = "snapshot"
    <3>1. view' = DedupeAndTrim(event.items)
      BY <1>2, <2>3 DEF HandleEvent
    <3> QED
      BY <2>1, <3>1, DedupeShows
  <2>4. CASE event.kind = "loggedOut"
    <3>1. view' = <<>>
      BY <1>2, <2>4 DEF HandleEvent
    <3> QED
      BY <3>1, TimelineAssumption
  <2> QED
    BY <2>1, <2>2, <2>3, <2>4
<1>5. Typed'
  BY <1>1, <1>3, <1>4 DEF Inv, Typed, LogInv, Signed
<1>6. AnswerInv'
  BY <1>1 DEF Inv, AnswerInv
<1>7. OrderInv' /\ RightInv'
  BY <1>1, BufferStays
<1> QED
  BY <1>5, <1>6, <1>7 DEF Inv

\* What the sync task emits is kept in order, right and typed.
LEMMA EmittedKeepsInv ==
    ASSUME Inv, NEW ops \in Seq(Ops), InLog(ops), NEW touched, touched \subseteq Ids,
           NEW more, more \subseteq Weaknesses, NEW upto \in 0..Len(log),
           Emitted(ops, touched, more), log' = log, synced' = upto, UNCHANGED token,
           NEW passed \in Nat, passed = Passed(token),
           NEW known, known = spoilt \cup touched,
           Faithful(ops, known, upto), Right(buffer, known, ops, 0, upto),
           InStep /\ more \subseteq {"silent"} =>
              /\ Orderly(ops, passed, upto)
              /\ Clears(ops, 0) \/ Following(buffer, ops, 0, upto)
              /\ Present(buffer, ops, 0, passed, upto)
    PROVE  OrderInv' /\ RightInv'
<1>1. /\ LogInv /\ Grows /\ synced \in Nat /\ buffer \in Seq(Item)
  BY SameGrows, LogFacts DEF Inv, Typed
<1>2. OrderInv'
  <2>1. CASE ~InStep'
    BY <2>1 DEF OrderInv
  <2>2. CASE InStep'
    <3>1. /\ Orderly(ops, passed, upto)
          /\ Clears(ops, 0) \/ Following(buffer, ops, 0, upto)
          /\ Present(buffer, ops, 0, passed, upto)
      BY <2>2, EmittedInStep
    <3>2. upto \in Nat
      OBVIOUS
    <3>3. PICK items : /\ items = buffer'
                       /\ Following(items, <<>>, 0, upto)
                       /\ Present(items, <<>>, 0, passed, upto)
      BY ONLY <1>1, <2>2, <3>1, <3>2, ops \in Seq(Ops), passed \in Nat,
              passed = Passed(token), Emitted(ops, touched, more), EmittedKeepsOrder
    <3>4. passed = Passed(token)'
      BY DEF Passed
    <3> QED
      BY <1>1, <3>3, <3>4, OrderStays
  <2> QED
    BY <2>1, <2>2
<1>3. RightInv'
  <2>1. upto \in Nat
    OBVIOUS
  <2>2. PICK items, all : /\ items = buffer' /\ all = spoilt'
                          /\ Right(items, all, <<>>, 0, upto)
    BY ONLY <1>1, <2>1, ops \in Seq(Ops), known = spoilt \cup touched,
            Faithful(ops, known, upto), Right(buffer, known, ops, 0, upto),
            Emitted(ops, touched, more), EmittedKeepsRight
  <2> QED
    BY <1>1, <2>2, RightStays
<1> QED
  BY <1>2, <1>3

\* Without a token nothing is above what was passed.
LEMMA PassedIs ==
    ASSUME Inv
    PROVE  /\ Passed(token) \in Nat
           /\ token = 0 => \A i \in Messages : ~(Passed(token) < i)
           /\ token = 0 => \A n \in 0..Len(log) : n <= Passed(token)
<1>1. Len(log) \in Nat /\ Len(log) <= MaxEvents /\ MaxEvents \in Nat
  BY LogFacts, TimelineAssumption DEF Inv, Typed, LogInv
<1>2. Messages \subseteq 1..Len(log)
  BY LogFacts DEF Inv, Typed
<1>3. token \in Nat
  BY DEF Inv, Typed
<1> QED
  BY <1>1, <1>2, <1>3 DEF Passed

\* The page read again after room keys.
LEMMA RefreshKeepsInv ==
    ASSUME Inv, NEW at \in synced..Len(log), Refresh(at)
    PROVE  Inv'
<1>1. /\ log' = log /\ synced' = synced /\ keys' = keys /\ refreshing' = FALSE
      /\ reply' = reply /\ token' = token /\ view' = view
  BY DEF Refresh, serverVars, runtimeVars
<1>2. /\ LogInv /\ synced \in 0..Len(log) /\ Len(log) \in Nat
      /\ Signed(signatures, synced)
  BY LogFacts DEF Inv, Typed
<1>3. at \in 0..Len(log) /\ synced \in 0..at
  BY <1>2
<1>4. PICK done : done = RefreshOps([sigs |-> signatures, ops |-> <<>>], RefreshPage(at))
  OBVIOUS
<1>5. signatures' = done.sigs /\ Emitted(done.ops, {}, {})
  BY <1>4 DEF Refresh
<1>6. /\ done.ops \in Seq(Ops)
      /\ \A d \in 1..Len(done.ops) : Renews(done.ops[d], at)
      /\ Signed(done.sigs, synced)
  <2>1. PICK to : to = synced
    OBVIOUS
  <2>2. Signed(signatures, to)
    BY <1>2, <2>1
  <2>3. /\ done.ops \in Seq(Ops)
        /\ \A d \in 1..Len(done.ops) : Renews(done.ops[d], at)
        /\ Signed(done.sigs, to)
    BY ONLY <1>2, <1>3, <1>4, <2>2, RefreshRenews
  <2> QED
    BY <2>1, <2>3
<1>7. PICK ops \in Seq(Ops) : ops = done.ops
  BY <1>6
<1>8. PICK upto \in 0..Len(log) : upto = synced
  BY <1>2
<1>9. /\ InLog(ops)
      /\ \A passed : Orderly(ops, passed, upto)
      /\ \A touched : Faithful(ops, touched, upto)
      /\ ~Clears(ops, 0)
  <2>1. \A d \in 1..Len(ops) : Renews(ops[d], at)
    BY <1>6, <1>7
  <2>2. upto \in 0..at
    BY <1>3, <1>8
  <2> QED
    BY ONLY <1>2, <1>3, <2>1, <2>2, ops \in Seq(Ops), RenewingIsOrderly
<1>10. PICK passed \in Nat : passed = Passed(token)
  BY PassedIs
<1>11. PICK known : known = spoilt \cup {}
  OBVIOUS
<1>12. Right(buffer, known, ops, 0, upto)
  <2>1. PICK items : items = buffer
    OBVIOUS
  <2>2. Right(items, known, <<>>, 0, upto)
    BY <1>8, <1>11, <2>1 DEF Inv, RightInv
  <2> QED
    BY <2>1, <2>2, MoreDue
<1>13. InStep => /\ Following(buffer, ops, 0, upto)
                 /\ Present(buffer, ops, 0, passed, upto)
  <2>1. PICK items : items = buffer
    OBVIOUS
  <2>2. InStep => /\ Following(items, <<>>, 0, upto)
                  /\ Present(items, <<>>, 0, passed, upto)
    BY <1>8, <1>10, <2>1 DEF Inv, OrderInv
  <2> QED
    BY <2>1, <2>2, MoreDue
<1>14. PICK none : none = {}
  OBVIOUS
<1>15. /\ none \subseteq Ids /\ none \subseteq Weaknesses
       /\ Emitted(ops, none, none) /\ known = spoilt \cup none
       /\ synced' = upto
  BY <1>1, <1>5, <1>7, <1>8, <1>11, <1>14
<1>16. OrderInv' /\ RightInv'
  BY <1>1, <1>9, <1>10, <1>12, <1>13, <1>15, EmittedKeepsInv
<1>17. /\ buffer' \in Seq(Item) /\ Len(buffer') <= MaxItems
       /\ stream' \in Seq(StreamEvents) /\ Len(stream') <= Capacity
       /\ spoilt' \subseteq Ids /\ faults' \subseteq Weaknesses
       /\ turns' \in 0..MaxTurns
  <2>1. Typed
    BY DEF Inv
  <2> QED
    BY ONLY <1>9, <1>15, <2>1, ops \in Seq(Ops), EmittedKeepsType
<1>18. LogInv' /\ Signed(signatures, synced)'
  BY <1>1, <1>2, <1>5, <1>6 DEF LogInv, Signed
<1>19. Typed'
  BY <1>1, <1>17, <1>18 DEF Inv, Typed
<1>20. AnswerInv'
  BY <1>1 DEF Inv, AnswerInv
<1> QED
  BY <1>16, <1>19, <1>20 DEF Inv

\* What a sync response brings is due to what the task had seen.
LEMMA BatchIsDue ==
    ASSUME Inv, NEW from \in synced..Len(log), NEW to \in from..Len(log), NEW readable,
           NEW ops \in Seq(Ops), Serves(ops, from, to, to, readable),
           Clears(ops, 0) <=> from > synced, NEW passed \in Nat, passed = Passed(token),
           InStep, from > synced => token = 0
    PROVE  /\ Orderly(ops, passed, to)
           /\ Clears(ops, 0) \/ Following(buffer, ops, 0, to)
           /\ Present(buffer, ops, 0, passed, to)
<1>1. /\ LogInv /\ synced \in 0..Len(log) /\ Len(log) \in Nat
      /\ from \in Nat /\ to \in 0..Len(log) /\ to \in Nat
  BY LogFacts DEF Inv, Typed
<1>2. from > synced => to <= passed /\ \A i \in Messages : ~(passed < i)
  BY <1>1, PassedIs
<1>3. Orderly(ops, passed, to)
  <2>1. to \in 0..to
    BY <1>1
  <2>2. Clears(ops, 0) => to <= passed
    BY <1>2
  <2> QED
    BY ONLY <1>1, <2>1, <2>2, ops \in Seq(Ops), passed \in Nat,
            Serves(ops, from, to, to, readable), ServedIsOrderly
<1>4. \A i \in Messages : from < i /\ i <= to => Comes(ops, 0, {"append"}, i)
  BY ONLY <1>1, ops \in Seq(Ops), Serves(ops, from, to, to, readable), ServedIsDue
<1>5. CASE from > synced
  BY <1>2, <1>3, <1>5 DEF Present
<1>6. CASE from = synced
  <2>1. /\ Following(buffer, <<>>, 0, synced)
        /\ Present(buffer, <<>>, 0, passed, synced)
    BY DEF Inv, OrderInv
  <2>2. Messages \subseteq Nat
    BY <1>1, LogFacts
  <2>3. \A i \in Messages : i <= synced \/ from < i
    BY <1>1, <1>6, <2>2
  <2>4. Following(buffer, ops, 0, to)
    BY <1>4, <2>1, <2>3, NothingComes DEF Following
  <2>5. \A i \in Messages : Comes(ops, 0, {"append"}, i) => Comes(ops, 0, {"append", "prepend"}, i)
    BY DEF Comes
  <2>6. Present(buffer, ops, 0, passed, to)
    BY <1>4, <2>1, <2>3, <2>5, NothingComes DEF Present
  <2> QED
    BY <1>3, <2>4, <2>6
<1> QED
  BY <1>1, <1>5, <1>6

\* A sync response is faithful, and brings what items lack or touches them.
LEMMA BatchIsRight ==
    ASSUME Inv, NEW from \in synced..Len(log), NEW to \in from..Len(log), NEW readable,
           NEW ops \in Seq(Ops), Serves(ops, from, to, to, readable),
           NEW known, known = spoilt \cup ({log[k].of : k \in (synced + 1)..from} \ {0})
    PROVE  /\ Faithful(ops, known, to)
           /\ Right(buffer, known, ops, 0, to)
<1>1. /\ LogInv /\ synced \in 0..Len(log) /\ Len(log) \in Nat
      /\ from \in Nat /\ to \in 0..Len(log) /\ to \in Nat /\ synced \in Nat
      /\ synced <= from /\ from <= to
  BY LogFacts DEF Inv, Typed
<1>2. Faithful(ops, known, to)
  <2>1. to \in 0..to /\ to <= to
    BY <1>1
  <2> QED
    BY ONLY <1>1, <2>1, ops \in Seq(Ops), Serves(ops, from, to, to, readable),
            ServedIsFaithful
<1>3. /\ \A i \in DOMAIN log : \A j \in Edits(i) :
            Plain(i) /\ from < j /\ j <= to => Edited(ops, 0, i, j)
      /\ \A j \in (from + 1)..to :
            log[j].type = "redaction" => Comes(ops, 0, {"remove"}, log[j].of)
  BY ONLY <1>1, ops \in Seq(Ops), Serves(ops, from, to, to, readable), ServedIsDue
<1>4. PICK items, first : items = buffer /\ first = spoilt
  OBVIOUS
<1>5. PICK was \in Nat : was = synced
  BY <1>1
<1>6. Right(items, first, <<>>, 0, was)
  BY <1>4, <1>5 DEF Inv, RightInv
<1>7. first \subseteq known
  BY <1>4
<1>8. \A j \in (was + 1)..from : log[j].type # "message" => log[j].of \in known
  <2> SUFFICES ASSUME NEW j \in (was + 1)..from, log[j].type # "message"
               PROVE  log[j].of \in known
    OBVIOUS
  <2>1. j \in DOMAIN log
    BY <1>1, <1>5, LogFacts
  <2>2. log[j].of # 0
    BY <1>1, <2>1 DEF LogInv
  <2> QED
    BY <1>5, <2>2
<1>9. to \in was..Len(log) /\ from \in was..to
  BY <1>1, <1>5
<1>10. Right(items, known, ops, 0, to)
  BY ONLY <1>1, <1>3, <1>6, <1>7, <1>8, <1>9, was \in Nat, SeenLater
<1> QED
  BY <1>2, <1>4, <1>10

\* A sync response, limited or not.
LEMMA SyncBatchKeepsInv ==
    ASSUME Inv, NEW from \in synced..Len(log), NEW to \in synced..Len(log), from <= to,
           NEW withKeys \in BOOLEAN, SyncBatch(from, to, withKeys)
    PROVE  Inv'
<1>1. /\ log' = log /\ synced' = to /\ keys' = (keys \/ withKeys)
      /\ refreshing' = withKeys
      /\ reply' = reply /\ token' = token /\ view' = view
  BY DEF SyncBatch, serverVars, runtimeVars
<1>2. /\ LogInv /\ synced \in 0..Len(log) /\ Len(log) \in Nat
      /\ Signed(signatures, synced)
  BY LogFacts DEF Inv, Typed
<1>3. /\ from \in Nat /\ to \in 0..Len(log) /\ to \in from..Len(log) /\ to \in Nat
      /\ synced <= from /\ synced <= to /\ synced \in Nat
  BY <1>2
<1>4. PICK readable : readable = (keys \/ withKeys)
  OBVIOUS
<1>5. PICK start :
          start = [sigs |-> IF from > synced THEN <<>> ELSE signatures,
                   ops |-> IF from > synced THEN <<Clear>> ELSE <<>>]
  OBVIOUS
<1>6. PICK done : done = SyncOps(start, Between(from, to, to, readable, "append"))
  OBVIOUS
<1>7. PICK skipped : skipped = {log[k].of : k \in (synced + 1)..from} \ {0}
  OBVIOUS
<1>8. PICK more : more = IF from > synced /\ token # 0 THEN {"gap"} ELSE {}
  OBVIOUS
<1>9. signatures' = done.sigs /\ Emitted(done.ops, skipped, more)
  BY <1>4, <1>5, <1>6, <1>7, <1>8 DEF SyncBatch
<1>10. /\ start.ops \in Seq(Ops)
       /\ \A d \in 1..Len(start.ops) : start.ops[d] = Clear
       /\ start.ops # <<>> <=> from > synced
       /\ Signed(start.sigs, to)
       /\ \A i \in DOMAIN start.sigs : i <= from
  <2>1. CASE from > synced
    <3>1. start.sigs = <<>> /\ start.ops = <<Clear>>
      BY <1>5, <2>1
    <3>2. <<Clear>> \in Seq(Ops) /\ Len(<<Clear>>) = 1 /\ <<Clear>>[1] = Clear
          /\ <<Clear>> # <<>>
      BY DEF Ops
    <3>3. Signed(<<>>, to) /\ DOMAIN <<>> = {}
      BY DEF Signed
    <3> QED
      BY <2>1, <3>1, <3>2, <3>3
  <2>2. CASE ~(from > synced)
    <3>1. start.sigs = signatures /\ start.ops = <<>>
      BY <1>5, <2>2
    <3>2. <<>> \in Seq(Ops) /\ Len(<<>>) = 0 /\ 1..0 = {}
      OBVIOUS
    <3>3. Signed(signatures, to) /\ \A i \in DOMAIN signatures : i <= from
      BY <1>2, <1>3 DEF Signed
    <3> QED
      BY <2>2, <3>1, <3>2, <3>3
  <2> QED
    BY <2>1, <2>2
<1>11. /\ done.ops \in Seq(Ops)
       /\ Serves(done.ops, from, to, to, readable)
       /\ Clears(done.ops, 0) <=> start.ops # <<>>
       /\ Signed(done.sigs, to)
  BY ONLY <1>2, <1>3, <1>6, <1>10, SyncServes
<1>12. PICK ops \in Seq(Ops) : ops = done.ops
  BY <1>11
<1>13. /\ Serves(ops, from, to, to, readable)
       /\ Clears(ops, 0) <=> from > synced
       /\ Emitted(ops, skipped, more)
  BY <1>9, <1>10, <1>11, <1>12
<1>14. InLog(ops)
  BY ONLY <1>2, <1>3, <1>13, ops \in Seq(Ops), ServedIsDue
<1>15. PICK passed \in Nat : passed = Passed(token)
  BY PassedIs
<1>16. PICK known : known = spoilt \cup skipped
  OBVIOUS
<1>17. Faithful(ops, known, to) /\ Right(buffer, known, ops, 0, to)
  BY <1>3, <1>7, <1>13, <1>16, BatchIsRight
<1>18. InStep /\ more \subseteq {"silent"} =>
          /\ Orderly(ops, passed, to)
          /\ Clears(ops, 0) \/ Following(buffer, ops, 0, to)
          /\ Present(buffer, ops, 0, passed, to)
  <2>1. more \subseteq {"silent"} => (from > synced => token = 0)
    BY <1>8
  <2> QED
    BY <1>3, <1>13, <1>15, <2>1, BatchIsDue
<1>19. skipped \subseteq Ids /\ more \subseteq Weaknesses
  <2>1. \A k \in (synced + 1)..from : log[k].of \in 0..MaxEvents
    <3>1. \A k \in (synced + 1)..from : k \in DOMAIN log
      BY <1>2, <1>3, LogFacts
    <3>2. \A k \in DOMAIN log : log[k].of \in 0..MaxEvents
      BY <1>2, LogFacts DEF Event
    <3> QED
      BY <3>1, <3>2
  <2>2. \A i \in 0..MaxEvents : i # 0 => i \in Ids
    BY TimelineAssumption DEF Ids
  <2> QED
    BY <1>7, <1>8, <2>1, <2>2 DEF Weaknesses
<1>20. OrderInv' /\ RightInv'
  BY <1>1, <1>3, <1>13, <1>14, <1>15, <1>16, <1>17, <1>18, <1>19, EmittedKeepsInv
<1>21. /\ buffer' \in Seq(Item) /\ Len(buffer') <= MaxItems
       /\ stream' \in Seq(StreamEvents) /\ Len(stream') <= Capacity
       /\ spoilt' \subseteq Ids /\ faults' \subseteq Weaknesses
       /\ turns' \in 0..MaxTurns
  <2>1. Typed
    BY DEF Inv
  <2> QED
    BY ONLY <1>13, <1>14, <1>19, <2>1, ops \in Seq(Ops), EmittedKeepsType
<1>22. LogInv' /\ Signed(signatures, synced)' /\ keys' \in BOOLEAN
  BY <1>1, <1>2, <1>9, <1>11 DEF LogInv, Signed
<1>23. Typed'
  BY <1>1, <1>3, <1>21, <1>22 DEF Inv, Typed
<1>24. AnswerInv'
  BY <1>1 DEF Inv, AnswerInv
<1> QED
  BY <1>20, <1>23, <1>24 DEF Inv

\* Operations name events.
LEMMA NamedEvents ==
    ASSUME LogInv, NEW ops \in Seq(Ops), InLog(ops)
    PROVE  /\ IdsOf(ops) \subseteq Ids
           /\ \A d \in 1..Len(ops) : ops[d].item.id \notin IdsOf(ops) => ops[d] = Clear
<1>1. Clear.item.id = 0 /\ 0 \notin Ids
  BY TimelineAssumption DEF Clear, Op, Ids
<1>2. \A d \in 1..Len(ops) : ops[d] # Clear => ops[d].item.id \in Ids
  BY LogFacts DEF InLog
<1> QED
  BY <1>1, <1>2 DEF IdsOf

\* An answer that is late touches what it names.
LEMMA LateIsFaithful ==
    ASSUME LogInv, NEW ops \in Seq(Ops), InLog(ops), NEW known, IdsOf(ops) \subseteq known,
           NEW upto
    PROVE  Faithful(ops, known, upto)
<1> SUFFICES ASSUME NEW d \in 1..Len(ops), ops[d].item.id \notin known
             PROVE  ops[d].op = "clear"
  BY DEF Faithful
<1>1. ops[d] = Clear
  BY NamedEvents
<1> QED
  BY <1>1 DEF Clear, Op

\* The runtime emits an answer: every kind of it is a case of this.
LEMMA AnswerKeepsInv ==
    ASSUME Inv, NEW ops \in Seq(Ops), InLog(ops), NEW touched, touched \subseteq Ids,
           NEW more, more \subseteq Weaknesses, NEW passed \in Nat,
           Emit(ops, touched, more, passed), UNCHANGED <<serverVars, syncVars, view>>,
           token' \in 0..Len(log), passed <= Passed(token)', reply' = None,
           NEW known, known = spoilt \cup touched, Faithful(ops, known, synced),
           InStep /\ more \subseteq {"silent"} =>
              Orderly(ops, passed, synced) /\ Present(buffer, ops, 0, passed, synced)
    PROVE  Inv'
<1>1. /\ log' = log /\ keys' = keys /\ synced' = synced /\ signatures' = signatures
      /\ refreshing' = refreshing /\ view' = view
  BY DEF serverVars, syncVars
<1>2. /\ LogInv /\ Grows /\ synced \in Nat /\ buffer \in Seq(Item)
      /\ synced \in 0..Len(log) /\ Signed(signatures, synced)
  BY <1>1, SameGrows, LogFacts DEF Inv, Typed
<1>3. PICK upto \in 0..Len(log) : upto = synced
  BY <1>2
<1>4. upto \in Nat
  OBVIOUS
<1>5. PICK old, first : old = buffer /\ first = spoilt
  OBVIOUS
<1>6. Right(old, known, ops, 0, upto)
  <2>1. Right(old, first, <<>>, 0, upto) /\ first \subseteq known
    BY <1>3, <1>5 DEF Inv, RightInv
  <2> QED
    BY <2>1, MoreDue
<1>7. OrderInv'
  <2>1. CASE ~InStep'
    BY <2>1 DEF OrderInv
  <2>2. CASE InStep'
    <3>1. /\ Orderly(ops, passed, upto) /\ Present(buffer, ops, 0, passed, upto)
          /\ InStep
      BY <1>3, <2>2, InStepWas
    <3>2. Following(buffer, ops, 0, upto)
      <4>1. Following(old, <<>>, 0, upto)
        BY <1>3, <1>5, <3>1 DEF Inv, OrderInv
      <4> QED
        BY <1>5, <4>1, MoreDue
    <3>3. PICK items : /\ items = buffer'
                       /\ Following(items, <<>>, 0, upto)
                       /\ Present(items, <<>>, 0, passed, upto)
      BY ONLY <1>2, <1>4, <2>2, <3>1, <3>2, ops \in Seq(Ops), passed \in Nat,
              Emit(ops, touched, more, passed), EmitKeepsOrder
    <3>4. PICK above : above = Passed(token)'
      OBVIOUS
    <3>5. above \in Nat
      BY <1>2, <3>4, LogFacts, TimelineAssumption DEF Passed
    <3>6. \A i \in Messages : above < i => passed < i
      BY <1>2, <3>4, <3>5, LogFacts
    <3>7. Present(items, <<>>, 0, above, upto)
      BY <3>3, <3>6 DEF Present
    <3>8. upto = synced'
      BY <1>1, <1>3
    <3> QED
      BY <1>2, <3>3, <3>4, <3>7, <3>8, OrderStays
  <2> QED
    BY <2>1, <2>2
<1>8. RightInv'
  <2>1. Right(buffer, known, ops, 0, upto) /\ Faithful(ops, known, upto)
    BY <1>3, <1>5, <1>6
  <2>2. PICK items, all : /\ items = buffer' /\ all = spoilt'
                          /\ Right(items, all, <<>>, 0, upto)
    BY ONLY <1>2, <1>4, <2>1, ops \in Seq(Ops), known = spoilt \cup touched,
            Emit(ops, touched, more, passed), EmitKeepsRight
  <2>3. upto = synced'
    BY <1>1, <1>3
  <2> QED
    BY <1>2, <2>2, <2>3, RightStays
<1>9. /\ buffer' \in Seq(Item) /\ Len(buffer') <= MaxItems
      /\ stream' \in Seq(StreamEvents) /\ Len(stream') <= Capacity
      /\ spoilt' \subseteq Ids /\ faults' \subseteq Weaknesses
      /\ turns' \in 0..MaxTurns
  <2>1. Typed
    BY DEF Inv
  <2> QED
    BY ONLY <2>1, ops \in Seq(Ops), InLog(ops), touched \subseteq Ids,
            more \subseteq Weaknesses, Emit(ops, touched, more, passed), EmitKeepsType
<1>10. LogInv' /\ Signed(signatures, synced)'
  BY <1>1, <1>2 DEF LogInv, Signed
<1>11. Typed'
  BY <1>1, <1>9, <1>10 DEF Inv, Typed
<1>12. AnswerInv'
  BY DEF AnswerInv
<1> QED
  BY <1>7, <1>8, <1>11, <1>12 DEF Inv

\* What an answer brings, as far as the timeline is in step.
LEMMA OpenBrings ==
    ASSUME Inv, reply # None, reply.kind = "open", NEW ops, ops = ReplyOps,
           NEW passed, passed = Passed(reply.from)
    PROVE  /\ ops \in Seq(Ops) /\ InLog(ops) /\ passed \in Nat
           /\ ~(reply.at < synced) =>
                 /\ \A known : Faithful(ops, known, synced)
                 /\ Orderly(ops, passed, synced)
                 /\ Present(buffer, ops, 0, passed, synced)
<1>1. /\ LogInv /\ synced \in 0..Len(log) /\ Len(log) \in Nat /\ synced \in Nat
      /\ Messages \subseteq Nat /\ MaxEvents \in Nat
      /\ \A i \in Messages : i <= MaxEvents
  BY LogFacts, TimelineAssumption DEF Inv, Typed, Ids
<1>2. PICK from \in Nat, at \in 0..Len(log) :
          from = reply.from /\ at = reply.at /\ at = reply.to
  BY DEF Inv, AnswerInv
<1>3. PICK readable : readable = reply.readable
  OBVIOUS
<1>4. ops = Between(from, at, at, readable, "append")
  BY <1>2, <1>3 DEF ReplyOps
<1>5. /\ ops \in Seq(Ops) /\ \A d \in 1..Len(ops) : ops[d] # Clear
      /\ Serves(ops, from, at, at, readable)
  BY ONLY <1>1, <1>2, <1>4, from \in Nat, at \in 0..Len(log), PageServes
<1>6. /\ InLog(ops)
      /\ \A i \in Messages : from < i /\ i <= at => Comes(ops, 0, {"append"}, i)
  BY ONLY <1>1, <1>5, from \in Nat, at \in 0..Len(log), ServedIsDue
<1>7. ~Clears(ops, 0)
  <2>1. \A d \in 1..Len(ops) : ops[d].op # "clear"
    <3> SUFFICES ASSUME NEW d \in 1..Len(ops) PROVE ops[d].op # "clear"
      OBVIOUS
    <3>1. ops[d] \in Ops /\ ops[d] # Clear
      BY <1>5
    <3> QED
      BY <3>1, OpKinds
  <2> QED
    BY <2>1 DEF Clears
<1>8. passed \in Nat
  BY <1>1, <1>2 DEF Passed
<1>9. ASSUME ~(at < synced)
      PROVE  /\ \A known : Faithful(ops, known, synced)
             /\ Orderly(ops, passed, synced)
             /\ Present(buffer, ops, 0, passed, synced)
  <2>1. PICK upto \in 0..at : upto = synced
    BY <1>1, <1>9
  <2>2. upto <= at
    OBVIOUS
  <2>3. \A known : Faithful(ops, known, upto)
    BY ONLY <1>1, <1>5, <2>2, upto \in 0..at, from \in Nat, at \in 0..Len(log),
            ServedIsFaithful
  <2>4. Orderly(ops, passed, upto)
    BY ONLY <1>1, <1>5, <1>7, <1>8, upto \in 0..at, from \in Nat, at \in 0..Len(log),
            ServedIsOrderly
  <2>5. \A i \in Messages : passed < i => from < i
    BY <1>1, <1>2 DEF Passed
  <2>6. \A i \in Messages : Comes(ops, 0, {"append"}, i) => Comes(ops, 0, {"append", "prepend"}, i)
    BY DEF Comes
  <2>7. \A i \in Messages : i <= upto => i <= at
    BY <1>1
  <2>8. Present(buffer, ops, 0, passed, upto)
    BY <1>6, <2>5, <2>6, <2>7 DEF Present
  <2> QED
    BY <2>1, <2>3, <2>4, <2>8
<1> QED
  BY <1>2, <1>5, <1>6, <1>8, <1>9

\* A page of history goes on where the one before it began.
LEMMA PaginateBrings ==
    ASSUME Inv, reply # None, reply.kind = "paginate", NEW ops, ops = ReplyOps,
           NEW passed, passed = reply.from
    PROVE  /\ ops \in Seq(Ops) /\ InLog(ops) /\ passed \in Nat
           /\ ~(reply.at < synced) => \A known : Faithful(ops, known, synced)
           /\ InStep /\ reply.to # reply.at =>
                 /\ Orderly(ops, passed, synced)
                 /\ Present(buffer, ops, 0, passed, synced)
<1>1. /\ LogInv /\ synced \in 0..Len(log) /\ Len(log) \in Nat /\ synced \in Nat
      /\ Messages \subseteq Nat /\ token \in Nat
  BY LogFacts DEF Inv, Typed
<1>2. PICK from \in Nat, to \in 0..Len(log), at \in 0..Len(log) :
          /\ from = reply.from /\ at = reply.at /\ to = reply.to /\ from = passed
          /\ to <= at
  <2>1. /\ reply.at \in 0..Len(log)
        /\ reply.from \in Nat /\ reply.to \in reply.from..reply.at
    BY DEF Inv, AnswerInv
  <2>2. reply.to \in 0..Len(log) /\ reply.to <= reply.at
    BY <1>1, <2>1
  <2> QED
    BY <2>1, <2>2
<1>3. PICK readable : readable = reply.readable
  OBVIOUS
<1>4. ops = Reverse(Between(from, to, at, readable, "prepend"))
  BY <1>2, <1>3 DEF ReplyOps
<1>5. /\ ops \in Seq(Ops) /\ InLog(ops)
      /\ \A upto : Orderly(ops, from, upto)
      /\ \A known : synced <= at => Faithful(ops, known, synced)
      /\ \A i \in Messages : from < i /\ i <= to => Comes(ops, 0, {"prepend"}, i)
  BY ONLY <1>1, <1>4, from \in Nat, to \in 0..Len(log), at \in 0..Len(log), HistoryIsServed
<1>6. ~(at < synced) => synced <= at
  BY <1>1
<1>7. ASSUME InStep, to # at
      PROVE  Present(buffer, ops, 0, from, synced)
  <2>1. token # 0 /\ to = token
    BY <1>2, <1>7 DEF Inv, AnswerInv
  <2>2. Present(buffer, <<>>, 0, to, synced)
    BY <1>7, <2>1 DEF Inv, OrderInv, Passed
  <2>3. \A i \in Messages : i <= to \/ to < i
    BY <1>1
  <2>4. \A i \in Messages : Comes(ops, 0, {"prepend"}, i) => Comes(ops, 0, {"append", "prepend"}, i)
    BY DEF Comes
  <2> QED
    BY <1>5, <2>2, <2>3, <2>4, NothingComes DEF Present
<1> QED
  BY <1>2, <1>5, <1>6, <1>7

\* An own edit or redaction is one operation on a message of the log.
LEMMA OwnBrings ==
    ASSUME Inv, reply # None, reply.kind \in {"edit", "redact"}, NEW ops, ops = ReplyOps
    PROVE  /\ ops \in Seq(Ops) /\ InLog(ops)
           /\ \A known : Faithful(ops, known, synced)
           /\ \A passed : Orderly(ops, passed, synced)
<1>1. /\ LogInv /\ DOMAIN log = 1..Len(log) /\ Len(log) \in Nat
      /\ DOMAIN log \subseteq Ids
  BY LogFacts DEF Inv, Typed
<1>2. PICK at, of :
          /\ at = reply.at /\ of = reply.of /\ at \in DOMAIN log /\ of = log[at].of
          /\ reply.kind = "edit" => log[at].type = "edit"
          /\ reply.kind = "redact" => log[at].type = "redaction"
  BY DEF Inv, AnswerInv
<1>3. of \in 1..(at - 1) /\ of \in DOMAIN log
  BY <1>1, <1>2 DEF LogInv
<1>4. at \in 0..MaxEvents /\ of \in Ids /\ 0 \in 0..MaxEvents
  BY <1>1, <1>2, <1>3, TimelineAssumption DEF Ids
<1>5. PICK op : op = IF reply.kind = "edit" THEN Op("update", of, FALSE, at)
                     ELSE Op("remove", of, FALSE, 0)
  OBVIOUS
<1>6. ops = <<op>>
  BY <1>2, <1>5 DEF ReplyOps
<1>7. op \in Ops
  BY <1>4, <1>5 DEF Ops, Op, Kinds, Item
<1>8. ops \in Seq(Ops) /\ Len(ops) = 1 /\ ops[1] = op
  BY <1>6, <1>7
<1>9. /\ op.item.id = of
      /\ \/ op.op = "update" /\ op.item.body = at /\ log[at].type = "edit"
         \/ op.op = "remove" /\ log[at].type = "redaction"
  BY <1>2, <1>5 DEF Op
<1>10. op.op = "update" => at \in Edits(of)
  BY <1>2, <1>9 DEF Edits
<1>11. op.op = "remove" => of \notin Messages
  BY <1>1, <1>2, <1>9 DEF Messages, Redacted
<1>12. \A d \in 1..Len(ops) : ops[d] = op
  BY <1>8
<1>13. InLog(ops)
  BY <1>3, <1>9, <1>12 DEF InLog
<1>14. \A known : Faithful(ops, known, synced)
  BY <1>9, <1>10, <1>12 DEF Faithful
<1>15. \A passed : Orderly(ops, passed, synced)
  BY <1>9, <1>11, <1>12 DEF Orderly
<1> QED
  BY <1>8, <1>13, <1>14, <1>15

\* The answer of the server is emitted.
LEMMA EmitReplyKeepsInv ==
    ASSUME Inv, EmitReply
    PROVE  Inv'
<1>1. /\ reply # None /\ reply' = None
      /\ token' = IF reply.kind \in {"open", "paginate"} THEN reply.from ELSE token
      /\ UNCHANGED <<serverVars, syncVars, view>>
  BY DEF EmitReply
<1>2. /\ LogInv /\ Len(log) \in Nat /\ token \in 0..Len(log)
      /\ Len(log) <= MaxEvents /\ MaxEvents \in Nat
  BY LogFacts, TimelineAssumption DEF Inv, Typed, LogInv
<1>3. PICK late : late = (reply.at < synced)
  OBVIOUS
<1>4. PICK ops : ops = ReplyOps
  OBVIOUS
<1>5. PICK touched : touched = IF late THEN IdsOf(ops) ELSE {}
  OBVIOUS
<1>6. PICK more : more = IF reply.kind = "open" /\ late THEN {"late"}
                         ELSE IF reply.kind = "paginate" /\ reply.to = reply.at THEN {"wrapped"}
                         ELSE {}
  OBVIOUS
<1>7. PICK passed : passed = IF reply.kind = "paginate" THEN reply.from ELSE Passed(token')
  OBVIOUS
<1>8. Emit(ops, touched, more, passed)
  BY <1>3, <1>4, <1>5, <1>6, <1>7 DEF EmitReply
<1>9. PICK known : known = spoilt \cup touched
  OBVIOUS
<1>10. more \subseteq Weaknesses
  BY <1>6 DEF Weaknesses
<1>11. /\ ops \in Seq(Ops) /\ InLog(ops) /\ passed \in Nat
       /\ token' \in 0..Len(log) /\ passed <= Passed(token)'
       /\ ~late => Faithful(ops, known, synced)
       /\ InStep /\ more \subseteq {"silent"} =>
             Orderly(ops, passed, synced) /\ Present(buffer, ops, 0, passed, synced)
  <2>1. CASE reply.kind = "open"
    <3>1. passed = Passed(reply.from) /\ token' = reply.from
      BY <1>1, <1>7, <2>1
    <3>2. /\ ops \in Seq(Ops) /\ InLog(ops) /\ passed \in Nat
          /\ ~(reply.at < synced) =>
                 /\ \A all : Faithful(ops, all, synced)
                 /\ Orderly(ops, passed, synced)
                 /\ Present(buffer, ops, 0, passed, synced)
      BY ONLY Inv, <1>1, <1>4, <2>1, <3>1, OpenBrings
    <3>3. more \subseteq {"silent"} => ~late
      BY <1>6, <2>1
    <3>4. reply.from \in 0..Len(log)
      BY <1>1, <1>2, <2>1 DEF Inv, AnswerInv
    <3>5. passed = Passed(token)'
      BY <3>1 DEF Passed
    <3>6. ~late => ~(reply.at < synced)
      BY <1>3
    <3> QED
      BY <3>1, <3>2, <3>3, <3>4, <3>5, <3>6
  <2>2. CASE reply.kind = "paginate"
    <3>1. passed = reply.from /\ token' = reply.from
      BY <1>1, <1>7, <2>2
    <3>2. /\ ops \in Seq(Ops) /\ InLog(ops) /\ passed \in Nat
          /\ ~(reply.at < synced) => \A all : Faithful(ops, all, synced)
          /\ InStep /\ reply.to # reply.at =>
                 /\ Orderly(ops, passed, synced)
                 /\ Present(buffer, ops, 0, passed, synced)
      BY ONLY Inv, <1>1, <1>4, <2>2, <3>1, PaginateBrings
    <3>3. more \subseteq {"silent"} => reply.to # reply.at
      BY <1>6, <2>2
    <3>4. reply.from \in 0..Len(log)
      BY <1>1, <1>2, <2>2 DEF Inv, AnswerInv
    <3>5. passed <= Passed(token)'
      BY <1>2, <3>1, <3>4 DEF Passed
    <3>6. ~late => ~(reply.at < synced)
      BY <1>3
    <3> QED
      BY <3>1, <3>2, <3>3, <3>4, <3>5, <3>6
  <2>3. CASE reply.kind \in {"edit", "redact"}
    <3>1. passed = Passed(token') /\ token' = token
      BY <1>1, <1>7, <2>3
    <3>2. passed = Passed(token) /\ passed = Passed(token)' /\ passed \in Nat
      BY <3>1, PassedIs DEF Passed
    <3>3. /\ ops \in Seq(Ops) /\ InLog(ops)
          /\ \A all : Faithful(ops, all, synced)
          /\ \A above : Orderly(ops, above, synced)
      BY ONLY Inv, <1>1, <1>4, <2>3, OwnBrings
    <3>4. InStep => Present(buffer, ops, 0, passed, synced)
      <4>1. PICK items, upto : items = buffer /\ upto = synced
        OBVIOUS
      <4>2. InStep => Present(items, <<>>, 0, passed, upto)
        BY <3>2, <4>1 DEF Inv, OrderInv
      <4> QED
        BY <4>1, <4>2, MoreDue
    <3> QED
      BY <1>2, <3>1, <3>2, <3>3, <3>4
  <2>4. reply.kind \in {"open", "paginate", "edit", "redact"}
    BY <1>1 DEF Inv, AnswerInv
  <2> QED
    BY <2>1, <2>2, <2>3, <2>4
<1>12. touched \subseteq Ids
  BY <1>2, <1>5, <1>11, NamedEvents
<1>13. Faithful(ops, known, synced)
  <2>1. late => IdsOf(ops) \subseteq known
    BY <1>5, <1>9
  <2>2. PICK upto : upto = synced
    OBVIOUS
  <2>3. late => Faithful(ops, known, upto)
    BY <1>2, <1>11, <2>1, LateIsFaithful
  <2> QED
    BY <1>11, <2>2, <2>3
<1> QED
  BY <1>1, <1>8, <1>9, <1>10, <1>11, <1>12, <1>13, AnswerKeepsInv

-----------------------------------------------------------------------------
(* The desktop follows the buffer.                                         *)

\* The element sent last.
LastOf(s) == s[Len(s)]

\* The event that tells the desktop how things stand.
TellsAll(event) ==
    \/ event = Snapshot(buffer)
    \/ "silent" \in faults /\ event = LoggedOut

\* What the desktop shows once it has read everything.
ViewIsRight ==
    \/ view = DedupeAndTrim(buffer)
    \/ "silent" \in faults /\ view = <<>>

\* The inductive invariant: the events under way end in one that tells all, and
\* without any the view is right already.
StreamInv ==
    /\ \E S : stream \in Seq(S)
    /\ stream = <<>> => ViewIsRight
    /\ stream # <<>> => TellsAll(LastOf(stream))

-----------------------------------------------------------------------------

\* A broadcast channel of any positive capacity keeps the event sent last.
LEMMA SendKeepsNewest ==
    ASSUME NEW S, NEW s \in Seq(S), NEW e \in S
    PROVE  /\ Send(s, e) \in Seq(S)
           /\ Send(s, e) # <<>>
           /\ LastOf(Send(s, e)) = e
<1> DEFINE all == Append(s, e)
           from == Newest(Len(all), Capacity) + 1
<1>1. /\ all \in Seq(S)
      /\ Len(all) = Len(s) + 1
      /\ all[Len(all)] = e
  OBVIOUS
<1>2. from \in 1..Len(all)
  BY <1>1, TimelineAssumption DEF Newest
<1>3. Send(s, e) = SubSeq(all, from, Len(all))
  BY DEF Send
<1> DEFINE kept == SubSeq(all, from, Len(all))
<1> HIDE DEF all, from
<1>4. /\ kept \in Seq(S)
      /\ Len(kept) = Len(all) - from + 1
      /\ kept[Len(all) - from + 1] = all[Len(all)]
  BY <1>1, <1>2
<1> HIDE DEF kept
<1>5. Len(kept) >= 1
  BY <1>1, <1>2, <1>4
<1>6. kept # <<>>
  BY <1>4, <1>5
<1> QED
  BY <1>1, <1>3, <1>4, <1>6 DEF LastOf, kept

\* The same when nothing is known of what the channel holds.
LEMMA SendToAny ==
    ASSUME NEW s, \E S : s \in Seq(S), NEW e
    PROVE  /\ \E S : Send(s, e) \in Seq(S)
           /\ Send(s, e) # <<>>
           /\ LastOf(Send(s, e)) = e
<1>1. PICK S : s \in Seq(S)
  OBVIOUS
<1>2. s \in Seq(S \cup {e})
  BY <1>1
<1> QED
  BY <1>2, SendKeepsNewest

-----------------------------------------------------------------------------

\* Of no items nothing is left.
LEMMA NothingToShow == DedupeAndTrim(<<>>) = <<>>
<1>1. {k \in DOMAIN <<>> : \A l \in DOMAIN <<>> :
          <<>>[l].id = <<>>[k].id => l <= k} = {}
  OBVIOUS
<1>2. DedupeAndTrim(<<>>) = Trim([k \in 1..Cardinality({}) |-> <<>>[Nth({}, k)]])
  BY <1>1 DEF DedupeAndTrim
<1>3. [k \in 1..Cardinality({}) |-> <<>>[Nth({}, k)]] = <<>>
  <2>1. 1..Cardinality({}) = {}
    BY FS_EmptySet
  <2> QED
    BY <2>1
<1>4. Newest(0, MaxItems) = 0
  BY TimelineAssumption DEF Newest
<1>5. Trim(<<>>) = <<>>
  BY <1>4 DEF Trim
<1> QED
  BY <1>2, <1>3, <1>5

\* A delta relayed ends the stream in a snapshot of the new buffer; one that is
\* lost or empty changes neither stream nor buffer.
LEMMA EmitKeepsStream ==
    ASSUME StreamInv, NEW ops, NEW touched, NEW more, NEW passed, view' = view,
           Emit(ops, touched, more, passed)
    PROVE  StreamInv'
<1>1. CASE Relay(ops, touched, more, passed)
  <2>1. stream' = Send(Send(stream, Delta(ops)), Snapshot(buffer'))
    BY <1>1 DEF Relay
  <2>2. /\ \E S : stream' \in Seq(S)
        /\ stream' # <<>>
        /\ LastOf(stream') = Snapshot(buffer')
    BY <2>1, SendToAny DEF StreamInv
  <2> QED
    BY <2>2 DEF StreamInv, TellsAll
<1>2. CASE Lose(ops, touched)
  BY <1>2 DEF Lose, StreamInv, TellsAll, ViewIsRight
<1> QED
  BY <1>1, <1>2 DEF Emit

\* An empty delta is not sent.
LEMMA EmittedKeepsStream ==
    ASSUME StreamInv, NEW ops, NEW touched, NEW more, view' = view,
           Emitted(ops, touched, more)
    PROVE  StreamInv'
<1>1. CASE ops # <<>>
  BY <1>1, EmitKeepsStream DEF Emitted
<1>2. CASE ops = <<>>
  BY <1>2 DEF Emitted, StreamInv, TellsAll, ViewIsRight
<1> QED
  BY <1>1, <1>2

\* The desktop reads an event: the last one puts its view right.
LEMMA HandleEventKeepsStream ==
    ASSUME StreamInv, HandleEvent
    PROVE  StreamInv'
<1>1. PICK S : stream \in Seq(S)
  BY DEF StreamInv
<1>2. /\ stream # <<>> /\ stream' = Tail(stream)
      /\ buffer' = buffer /\ faults' = faults
  BY DEF HandleEvent
<1>3. Tail(stream) \in Seq(S)
  BY <1>1, <1>2
<1>4. CASE Len(stream) = 1
  <2>1. Tail(stream) = <<>> /\ Head(stream) = LastOf(stream)
    BY <1>1, <1>2, <1>4 DEF LastOf
  <2>2. TellsAll(Head(stream))
    BY <1>2, <2>1 DEF StreamInv
  <2>3. CASE Head(stream) = Snapshot(buffer)
    <3>1. view' = DedupeAndTrim(buffer)
      BY <2>3 DEF HandleEvent, Snapshot
    <3> QED
      BY <1>2, <1>3, <2>1, <3>1 DEF StreamInv, ViewIsRight
  <2>4. CASE "silent" \in faults /\ Head(stream) = LoggedOut
    <3>1. view' = <<>>
      BY <2>4 DEF HandleEvent, LoggedOut
    <3> QED
      BY <1>2, <1>3, <2>1, <2>4, <3>1 DEF StreamInv, ViewIsRight
  <2> QED
    BY <2>2, <2>3, <2>4 DEF TellsAll
<1>5. CASE Len(stream) # 1
  <2>1. /\ Tail(stream) # <<>>
        /\ Len(Tail(stream)) = Len(stream) - 1
        /\ Tail(stream)[Len(stream) - 1] = stream[Len(stream)]
    BY <1>1, <1>2, <1>5
  <2>2. LastOf(Tail(stream)) = LastOf(stream)
    BY <2>1 DEF LastOf
  <2> QED
    BY <1>2, <1>3, <2>1, <2>2 DEF StreamInv, TellsAll
<1> QED
  BY <1>4, <1>5

\* The inductive invariant holds for every value of the constants.
THEOREM StreamInvariant == Spec => []StreamInv
<1>1. Init => StreamInv
  <2> SUFFICES ASSUME Init PROVE StreamInv
    OBVIOUS
  <2>1. stream = <<>> /\ buffer = <<>> /\ view = <<>>
    BY DEF Init
  <2> QED
    BY <2>1, NothingToShow DEF StreamInv, ViewIsRight
<1>2. StreamInv /\ [Next]_vars => StreamInv'
  <2> SUFFICES ASSUME StreamInv, [Next]_vars PROVE StreamInv'
    OBVIOUS
  <2>1. CASE \/ Post \/ RefreshFails \/ SyncRestarts \/ OpenRoom \/ PaginateBack
             \/ OwnEdit \/ OwnRedact \/ UNCHANGED vars
    <3>1. UNCHANGED <<stream, buffer, faults, view>>
      BY <2>1 DEF Post, RefreshFails, SyncRestarts, OpenRoom, PaginateBack, OwnEdit,
                  OwnRedact, vars, adapterVars
    <3> QED
      BY <3>1 DEF StreamInv, TellsAll, ViewIsRight
  <2>2. ASSUME NEW from, NEW to, NEW withKeys, SyncBatch(from, to, withKeys)
        PROVE  StreamInv'
    BY <2>2, EmittedKeepsStream DEF SyncBatch
  <2>3. ASSUME NEW at, Refresh(at)
        PROVE  StreamInv'
    BY <2>3, EmittedKeepsStream DEF Refresh
  <2>4. CASE EmitReply
    BY <2>4, EmitKeepsStream DEF EmitReply
  <2>5. CASE Logout
    <3>1. stream' = Send(stream, LoggedOut) /\ "silent" \in faults'
      BY <2>5 DEF Logout
    <3>2. /\ \E S : stream' \in Seq(S)
          /\ stream' # <<>>
          /\ LastOf(stream') = LoggedOut
      BY <3>1, SendToAny DEF StreamInv
    <3> QED
      BY <3>1, <3>2 DEF StreamInv, TellsAll
  <2>6. CASE HandleEvent
    BY <2>6, HandleEventKeepsStream
  <2> QED
    BY <2>1, <2>2, <2>3, <2>4, <2>5, <2>6 DEF Next
<1> QED
  BY <1>1, <1>2, PTL DEF Spec

\* However far the desktop lags behind, it shows the adapter's buffer, or
\* nothing since a logout, once it has read what the stream still holds.
THEOREM ViewAlwaysFollows == Spec => []ViewFollowsBuffer
<1>1. StreamInv => ViewFollowsBuffer
  BY DEF StreamInv, ViewIsRight, ViewFollowsBuffer
<1> QED
  BY <1>1, StreamInvariant, PTL

-----------------------------------------------------------------------------
(* What the desktop shows.                                                 *)

\* What is shown is what the buffer has, once the stream is read.
LEMMA QuietShows ==
    ASSUME Inv, StreamInv, Quiet
    PROVE  \/ view = <<>>
           \/ /\ view \in Seq(Item) /\ synced = Len(log)
              /\ \E from :
                   /\ Kept(view, buffer, from)
                   /\ \A k \in 1..Len(view) : IsLast(buffer, from[k])
                   /\ \A k \in 1..Len(view), p \in DOMAIN buffer :
                         IsLast(buffer, p) /\ from[k] < p =>
                             \E l \in 1..Len(view) : from[l] = p
<1>1. view = DedupeAndTrim(buffer) \/ view = <<>>
  BY DEF Quiet, StreamInv, ViewIsRight
<1>2. CASE view = DedupeAndTrim(buffer)
  <2>1. PICK items \in Seq(Item) : items = buffer
    BY DEF Inv, Typed
  <2>2. PICK shown : shown = DedupeAndTrim(items)
    OBVIOUS
  <2>3. /\ shown \in Seq(Item)
        /\ \E from :
             /\ Kept(shown, items, from)
             /\ \A k \in 1..Len(shown) : IsLast(items, from[k])
             /\ \A k \in 1..Len(shown), p \in DOMAIN items :
                   IsLast(items, p) /\ from[k] < p =>
                       \E l \in 1..Len(shown) : from[l] = p
    BY <2>2, DedupeShows
  <2>4. shown = view
    BY <1>2, <2>1, <2>2
  <2> QED
    BY <2>1, <2>3, <2>4 DEF Quiet
<1> QED
  BY <1>1, <1>2

\* Every item has a last copy.
LEMMA LastCopy ==
    ASSUME NEW items \in Seq(Item), NEW k \in DOMAIN items
    PROVE  \E l \in DOMAIN items :
              l >= k /\ items[l].id = items[k].id /\ IsLast(items, l)
<1>1. Len(items) \in Nat /\ DOMAIN items = 1..Len(items)
  OBVIOUS
<1> DEFINE S == {Len(items) - l : l \in {m \in DOMAIN items : items[m].id = items[k].id}}
<1>2. S \in SUBSET Nat /\ S # {}
  BY <1>1
<1>3. PICK least \in S : \A n \in S : least <= n
  <2> HIDE DEF S
  <2> QED
    BY <1>2, LeastOf
<1>4. PICK l \in DOMAIN items : items[l].id = items[k].id /\ least = Len(items) - l
  BY <1>3
<1>5. \A m \in DOMAIN items : items[m].id = items[k].id => m <= l
  <2> SUFFICES ASSUME NEW m \in DOMAIN items, items[m].id = items[k].id PROVE m <= l
    OBVIOUS
  <2>1. Len(items) - l <= Len(items) - m
    BY <1>3, <1>4
  <2> QED
    BY <1>1, <2>1
<1>6. l >= k
  BY <1>1, <1>5
<1> QED
  BY <1>4, <1>5, <1>6 DEF IsLast

\* An ordered buffer is shown in order and without a gap.
LEMMA ShowsOrder ==
    ASSUME Inv, StreamInv
    PROVE  ShownInOrder /\ HistoryConnected
<1> SUFFICES ASSUME Quiet, InStep, view # <<>>
             PROVE  /\ \A k, l \in DOMAIN view :
                          k < l /\ {view[k].id, view[l].id} \subseteq Messages
                          => view[k].id < view[l].id
                    /\ \A k \in DOMAIN view, i \in Messages :
                          view[k].id < i => Has(view, i)
  BY DEF ShownInOrder, HistoryConnected
<1>1. /\ view \in Seq(Item) /\ synced = Len(log) /\ buffer \in Seq(Item)
      /\ Messages \subseteq Nat /\ \A i \in Messages : i <= synced
  <2>1. view \in Seq(Item) /\ synced = Len(log) /\ buffer \in Seq(Item) /\ LogInv
    BY QuietShows DEF Inv, Typed
  <2>2. Messages \subseteq 1..Len(log) /\ Len(log) \in Nat
    BY <2>1, LogFacts
  <2> QED
    BY <2>1, <2>2
<1>2. PICK from :
          /\ Kept(view, buffer, from)
          /\ \A k \in 1..Len(view) : IsLast(buffer, from[k])
          /\ \A k \in 1..Len(view), p \in DOMAIN buffer :
                IsLast(buffer, p) /\ from[k] < p => \E l \in 1..Len(view) : from[l] = p
  BY QuietShows
<1>3. /\ DOMAIN view = 1..Len(view) /\ DOMAIN buffer = 1..Len(buffer)
      /\ Len(view) \in Nat /\ Len(buffer) \in Nat
      /\ from \in [1..Len(view) -> 1..Len(buffer)]
      /\ \A k \in 1..Len(view) : view[k] = buffer[from[k]]
      /\ \A k, l \in 1..Len(view) : k < l => from[k] < from[l]
  BY <1>1, <1>2 DEF Kept
<1>4. \A k \in 1..Len(buffer), i \in Messages :
          buffer[k].id < i => \E l \in 1..Len(buffer) : l > k /\ buffer[l].id = i
  BY <1>1, <1>3, NothingComes DEF Inv, OrderInv, Following
<1>5. ASSUME NEW k \in 1..Len(view), NEW l \in 1..Len(view), k < l,
             view[k].id \in Messages, view[l].id \in Messages
      PROVE  view[k].id < view[l].id
  <2>1. PICK i \in Messages, j \in Messages : i = view[k].id /\ j = view[l].id
    BY <1>5
  <2>2. PICK p \in 1..Len(buffer), q \in 1..Len(buffer) :
            /\ p = from[k] /\ q = from[l] /\ p < q
            /\ buffer[p].id = i /\ buffer[q].id = j
            /\ IsLast(buffer, p) /\ IsLast(buffer, q)
    BY <1>2, <1>3, <1>5, <2>1
  <2>3. i # j
    BY <1>3, <2>2 DEF IsLast
  <2>4. ~(j < i)
    <3> SUFFICES ASSUME j < i PROVE FALSE
      OBVIOUS
    <3>1. PICK m \in 1..Len(buffer) : m > q /\ buffer[m].id = i
      BY <1>4, <2>2
    <3>2. m <= p
      BY <1>3, <2>2, <3>1 DEF IsLast
    <3> QED
      BY <2>2, <3>1, <3>2
  <2> QED
    BY <1>1, <2>1, <2>3, <2>4
<1>6. ASSUME NEW k \in 1..Len(view), NEW i \in Messages, view[k].id < i
      PROVE  \E l \in 1..Len(view) : view[l].id = i
  <2>1. PICK p \in 1..Len(buffer) : p = from[k] /\ buffer[p].id = view[k].id
    BY <1>3
  <2>2. PICK m \in 1..Len(buffer) : m > p /\ buffer[m].id = i
    BY <1>4, <1>6, <2>1
  <2>3. PICK items \in Seq(Item) : items = buffer
    BY <1>1
  <2>4. PICK n \in DOMAIN items : n >= m /\ items[n].id = items[m].id /\ IsLast(items, n)
    BY <1>3, <2>2, <2>3, LastCopy
  <2>5. n \in DOMAIN buffer /\ IsLast(buffer, n) /\ buffer[n].id = i /\ from[k] < n
    BY <1>3, <2>1, <2>2, <2>3, <2>4
  <2>6. PICK l \in 1..Len(view) : from[l] = n
    BY <1>2, <2>5
  <2> QED
    BY <1>3, <2>5, <2>6
<1> QED
  BY <1>3, <1>5, <1>6 DEF Has

\* A buffer that is right is shown right.
LEMMA ShowsRight ==
    ASSUME Inv, StreamInv
    PROVE  ShownRight
<1> SUFFICES ASSUME Quiet, NEW k \in DOMAIN view, NEW i, i = view[k].id,
                    ~view[k].sealed, i \notin spoilt, \A j \in Edits(i) : ~log[j].sealed
             PROVE  /\ i \in Messages
                    /\ view[k].body \in Edits(i) \cup {0}
                    /\ \A j \in Edits(i) : j <= view[k].body
  BY DEF ShownRight
<1>1. view # <<>>
  OBVIOUS
<1>2. /\ view \in Seq(Item) /\ synced = Len(log) /\ buffer \in Seq(Item) /\ LogInv
      /\ \E from : Kept(view, buffer, from)
  BY <1>1, QuietShows DEF Inv, Typed
<1>3. PICK p \in DOMAIN buffer : view[k] = buffer[p]
  BY <1>2 DEF Kept
<1>4. PICK item : item = view[k] /\ item = buffer[p] /\ item.id = i
  BY <1>3
<1>5. Plain(i)
  BY DEF Plain
<1>6. Current(item, <<>>, 0, synced)
  <2>1. Right(buffer, spoilt, <<>>, 0, synced)
    BY DEF Inv, RightInv
  <2>2. buffer[p].id \notin spoilt /\ Plain(buffer[p].id)
    BY <1>4, <1>5
  <2>3. Current(buffer[p], <<>>, 0, synced)
    BY <2>1, <2>2 DEF Right
  <2> QED
    BY <1>4, <2>3
<1>7. \A j \in Edits(i) : j <= synced
  BY <1>2, LogFacts
<1>8. /\ item.body \in Edits(i) \cup {0}
      /\ \A j \in Edits(i) : j <= item.body
      /\ i \in DOMAIN log /\ log[i].type = "message" /\ ~Redacted(i, synced)
  BY <1>4, <1>6, <1>7, NothingComes DEF Current
<1> QED
  BY <1>2, <1>4, <1>8 DEF Messages

-----------------------------------------------------------------------------
(* The theorems.                                                           *)

\* At first there is nothing.
LEMMA InitInv == Init => Inv
<1> SUFFICES ASSUME Init PROVE Inv
  OBVIOUS
<1>1. /\ log = <<>> /\ keys = FALSE /\ synced = 0 /\ signatures = <<>>
      /\ refreshing = FALSE /\ reply = None /\ token = 0
      /\ buffer = <<>> /\ stream = <<>> /\ view = <<>>
      /\ spoilt = {} /\ faults = {} /\ turns = 0
  BY DEF Init
<1>2. /\ <<>> \in Seq(Event) /\ <<>> \in Seq(Item) /\ <<>> \in Seq(StreamEvents)
      /\ Len(<<>>) = 0 /\ DOMAIN <<>> = {} /\ MaxEvents \in Nat /\ MaxItems \in Nat
      /\ Capacity \in Nat /\ MaxTurns \in Nat
  BY TimelineAssumption
<1>3. LogInv
  BY <1>1, <1>2 DEF LogInv
<1>4. Typed
  <2>1. Signed(<<>>, 0)
    BY <1>2 DEF Signed
  <2>2. 0 \in 0..Len(<<>>) /\ 0 \in 0..MaxTurns /\ 0 <= MaxItems /\ 0 <= Capacity
    BY <1>2
  <2>3. keys \in BOOLEAN /\ refreshing \in BOOLEAN
    BY <1>1
  <2>4. spoilt \subseteq Ids /\ faults \subseteq Weaknesses
    BY <1>1
  <2>5. /\ synced \in 0..Len(log) /\ token \in 0..Len(log) /\ turns \in 0..MaxTurns
        /\ Signed(signatures, synced)
    BY <1>1, <2>1, <2>2
  <2>6. /\ buffer \in Seq(Item) /\ Len(buffer) <= MaxItems
        /\ view \in Seq(Item) /\ Len(view) <= MaxItems
        /\ stream \in Seq(StreamEvents) /\ Len(stream) <= Capacity
    BY <1>1, <1>2, <2>2
  <2> QED
    BY <1>3, <2>3, <2>4, <2>5, <2>6 DEF Typed
<1>5. AnswerInv
  BY <1>1 DEF AnswerInv
<1>6. OrderInv /\ RightInv
  <2>1. Messages = {}
    BY <1>1, <1>2 DEF Messages
  <2> QED
    BY <1>1, <1>2, <2>1 DEF OrderInv, RightInv, Following, Present, Right
<1> QED
  BY <1>4, <1>5, <1>6 DEF Inv

\* The inductive invariant holds for every value of the constants.
THEOREM TimelineInvariant == Spec => []Inv
<1>1. Init => Inv
  BY InitInv
<1>2. Inv /\ [Next]_vars => Inv'
  <2> SUFFICES ASSUME Inv, [Next]_vars PROVE Inv'
    OBVIOUS
  <2>1. CASE Post
    BY <2>1, PostKeepsInv
  <2>2. ASSUME NEW from \in synced..Len(log), NEW to \in synced..Len(log),
               NEW withKeys \in BOOLEAN, from <= to, SyncBatch(from, to, withKeys)
        PROVE  Inv'
    BY <2>2, SyncBatchKeepsInv
  <2>3. ASSUME NEW at \in synced..Len(log), Refresh(at)
        PROVE  Inv'
    BY <2>3, RefreshKeepsInv
  <2>4. CASE RefreshFails
    BY <2>4, RefreshFailsKeepsInv
  <2>5. CASE SyncRestarts
    BY <2>5, SyncRestartsKeepsInv
  <2>6. CASE OpenRoom
    BY <2>6, OpenRoomKeepsInv
  <2>7. CASE PaginateBack
    BY <2>7, PaginateBackKeepsInv
  <2>8. CASE OwnEdit
    BY <2>8, OwnEditKeepsInv
  <2>9. CASE OwnRedact
    BY <2>9, OwnRedactKeepsInv
  <2>10. CASE EmitReply
    BY <2>10, EmitReplyKeepsInv
  <2>11. CASE Logout
    BY <2>11, LogoutKeepsInv
  <2>12. CASE HandleEvent
    BY <2>12, HandleEventKeepsInv
  <2>13. CASE UNCHANGED vars
    <3>1. UNCHANGED <<log, buffer, spoilt, faults, synced, token>>
      BY <2>13 DEF vars, serverVars, syncVars, runtimeVars, adapterVars
    <3>2. LogInv' /\ OrderInv' /\ RightInv'
      BY <3>1, BufferStays
    <3>3. Typed' /\ AnswerInv'
      BY <2>13, <3>2 DEF vars, serverVars, syncVars, runtimeVars, adapterVars, Inv,
                         Typed, Signed, AnswerInv
    <3> QED
      BY <3>2, <3>3 DEF Inv
  <2> QED
    BY <2>1, <2>2, <2>3, <2>4, <2>5, <2>6, <2>7, <2>8, <2>9, <2>10, <2>11, <2>12, <2>13
       DEF Next
<1> QED
  BY <1>1, <1>2, PTL DEF Spec

\* Every state is well formed.
THEOREM TypeCorrect == Spec => []TypeOK
<1>1. Inv => TypeOK
  <2> SUFFICES ASSUME Inv PROVE TypeOK
    OBVIOUS
  <2>1. Typed /\ LogInv
    BY DEF Inv, Typed
  <2>2. DOMAIN signatures \subseteq Ids
    <3>1. \A i \in 1..synced : i \in 1..Len(log)
      BY <2>1, LogFacts DEF Typed
    <3> QED
      BY <2>1, <3>1, LogFacts DEF Typed, Signed
  <2> QED
    BY <2>1, <2>2 DEF TypeOK, Typed, LogInv, Signed, Weaknesses
<1> QED
  BY <1>1, TimelineInvariant, PTL

\* For every size of room, page, buffer and stream: messages not redacted are
\* shown in the room's order, unless the timeline fell out of step.
THEOREM OrderIsShown == Spec => []ShownInOrder
<1>1. Inv /\ StreamInv => ShownInOrder
  BY ShowsOrder
<1> QED
  BY <1>1, TimelineInvariant, StreamInvariant, PTL

\* For every size: no message is missing between the oldest message shown and the
\* newest, unless the timeline fell out of step.
THEOREM HistoryIsConnected == Spec => []HistoryConnected
<1>1. Inv /\ StreamInv => HistoryConnected
  BY ShowsOrder
<1> QED
  BY <1>1, TimelineInvariant, StreamInvariant, PTL

\* For every size: a readable message shown that no named weakness touched is one
\* that is not redacted, with the text of its last edit.
THEOREM RightIsShown == Spec => []ShownRight
<1>1. Inv /\ StreamInv => ShownRight
  BY ShowsRight
<1> QED
  BY <1>1, TimelineInvariant, StreamInvariant, PTL
=============================================================================
