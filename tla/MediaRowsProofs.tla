--------------------------- MODULE MediaRowsProofs ---------------------------
(***************************************************************************)
(* What the images of MediaRows owe to the disk cache, the downloads and   *)
(* the controller of the GIFs, for every set of sources and rooms, every   *)
(* size and every limit.                                                   *)
(*                                                                         *)
(* Total is never expanded: the bound of the cache is a matter of when the *)
(* loop of evict_if_needed stops, not of how sizes are added.              *)
(***************************************************************************)
EXTENDS MediaRows, FiniteSetTheorems, TLAPS

MediaStatus == {"missing", "downloading", "ready", "failed"}
Answers == [of : Sources, ok : BOOLEAN]

\* The disk cache by itself: a torn file is known to be gone, the entries fit
\* and every file has one.
CacheInv(c) ==
    /\ c \in Cache
    /\ \A s \in Sources \ c.gone : c.file[s] # "torn"
    /\ Cardinality(c.index.has) > 1 /\ ~c.full => Fits(c.index.has)
    /\ OnDisk(c) \ c.orphans \subseteq c.index.has

Typed ==
    /\ room \subseteq Sources
    /\ status \in [Sources -> MediaStatus]
    /\ path \subseteq Sources /\ inFlight \subseteq Sources
    /\ requests \in Seq(Sources) /\ acks \in Seq(Answers) /\ lost \subseteq Sources
    /\ offered \subseteq Sources /\ attached \subseteq Sources /\ rows \subseteq Sources
    /\ age \in [Sources -> 0..(Stale + 1)]
    /\ playing \subseteq Sources

\* The inductive invariant.
MediaInv ==
    /\ Typed
    /\ CacheInv(cache)
    /\ DownloadingIsAwaited
    /\ ReadyHasFile
    /\ PlayingIsBounded

-----------------------------------------------------------------------------
(* Sequences.                                                              *)

LEMMA SetOfAppend ==
    ASSUME NEW S, NEW q \in Seq(S), NEW e \in S
    PROVE  Append(q, e) \in Seq(S) /\ ToSet(Append(q, e)) = ToSet(q) \cup {e}
<1>1. /\ Append(q, e) \in Seq(S) /\ Len(q) \in Nat
      /\ DOMAIN Append(q, e) = 1..(Len(q) + 1) /\ DOMAIN q = 1..Len(q)
      /\ Append(q, e)[Len(q) + 1] = e
      /\ \A i \in 1..Len(q) : Append(q, e)[i] = q[i]
  OBVIOUS
<1>2. 1..(Len(q) + 1) = (1..Len(q)) \cup {Len(q) + 1}
  BY <1>1
<1> DEFINE r == Append(q, e)
<1>3. r \in Seq(S) /\ DOMAIN r = (1..Len(q)) \cup {Len(q) + 1}
  BY <1>1, <1>2
<1>4. r[Len(q) + 1] = e /\ \A i \in 1..Len(q) : r[i] = q[i]
  BY <1>1
<1> HIDE DEF r
<1>5. ToSet(r) = ToSet(q) \cup {e}
  BY <1>1, <1>3, <1>4, Zenon DEF ToSet
<1>6. QED BY <1>3, <1>5 DEF r

LEMMA SetOfTail ==
    ASSUME NEW S, NEW q \in Seq(S), q # <<>>
    PROVE  /\ Tail(q) \in Seq(S) /\ Head(q) \in S
           /\ ToSet(q) = ToSet(Tail(q)) \cup {Head(q)}
<1>1. /\ Tail(q) \in Seq(S) /\ Head(q) = q[1] /\ Head(q) \in S
      /\ DOMAIN Tail(q) = 1..(Len(q) - 1) /\ Len(q) \in Nat /\ Len(q) >= 1
      /\ \A i \in 1..(Len(q) - 1) : Tail(q)[i] = q[i + 1]
  OBVIOUS
<1>2. ASSUME NEW x \in ToSet(q) PROVE x \in ToSet(Tail(q)) \cup {Head(q)}
  <2>1. PICK i \in 1..Len(q) : x = q[i]
    BY DEF ToSet
  <2>2. CASE i = 1
    BY <1>1, <2>1, <2>2
  <2>3. CASE i # 1
    <3>1. i - 1 \in 1..(Len(q) - 1) /\ Tail(q)[i - 1] = x
      BY <1>1, <2>1, <2>3
    <3>2. QED BY <1>1, <3>1 DEF ToSet
  <2>4. QED BY <2>2, <2>3
<1>3. ASSUME NEW x \in ToSet(Tail(q)) PROVE x \in ToSet(q)
  <2>1. PICK i \in 1..(Len(q) - 1) : x = Tail(q)[i]
    BY <1>1 DEF ToSet
  <2>2. x = q[i + 1] /\ i + 1 \in 1..Len(q)
    BY <1>1, <2>1
  <2>3. QED BY <2>2 DEF ToSet
<1>4. Head(q) \in ToSet(q)
  BY <1>1 DEF ToSet
<1>5. QED BY <1>1, <1>2, <1>3, <1>4

LEMMA SetOfConcat ==
    ASSUME NEW S, NEW p \in Seq(S), NEW q \in Seq(S)
    PROVE  p \o q \in Seq(S) /\ ToSet(p \o q) = ToSet(p) \cup ToSet(q)
<1>1. /\ p \o q \in Seq(S) /\ Len(p \o q) = Len(p) + Len(q)
      /\ Len(p) \in Nat /\ Len(q) \in Nat
      /\ \A i \in 1..Len(p) : (p \o q)[i] = p[i]
      /\ \A i \in 1..Len(q) : (p \o q)[Len(p) + i] = q[i]
  OBVIOUS
<1>2. ASSUME NEW x \in ToSet(p \o q) PROVE x \in ToSet(p) \cup ToSet(q)
  <2>1. PICK i \in 1..(Len(p) + Len(q)) : x = (p \o q)[i]
    BY <1>1 DEF ToSet
  <2>2. CASE i <= Len(p)
    BY <1>1, <2>1, <2>2 DEF ToSet
  <2>3. CASE i > Len(p)
    <3>1. i - Len(p) \in 1..Len(q) /\ Len(p) + (i - Len(p)) = i
      BY <1>1, <2>1, <2>3
    <3>2. x = q[i - Len(p)]
      BY <1>1, <2>1, <3>1
    <3>3. QED BY <3>1, <3>2 DEF ToSet
  <2>4. QED BY <1>1, <2>1, <2>2, <2>3
<1>3. ASSUME NEW x \in ToSet(p) PROVE x \in ToSet(p \o q)
  BY <1>1 DEF ToSet
<1>4. ASSUME NEW x \in ToSet(q) PROVE x \in ToSet(p \o q)
  <2>1. PICK i \in 1..Len(q) : x = q[i]
    BY DEF ToSet
  <2>2. Len(p) + i \in 1..Len(p \o q) /\ (p \o q)[Len(p) + i] = x
    BY <1>1, <2>1
  <2>3. QED BY <1>1, <2>2 DEF ToSet
<1>5. QED BY <1>1, <1>2, <1>3, <1>4

LEMMA SetOfFront ==
    ASSUME NEW S, NEW q \in Seq(S), q # <<>>
    PROVE  ToSet(q) = ToSet(Front(q)) \cup {Last(q)} /\ Last(q) \in S
<1>1. /\ Len(q) \in Nat /\ Len(q) >= 1 /\ DOMAIN q = 1..Len(q)
      /\ Last(q) = q[Len(q)] /\ Last(q) \in S
  BY DEF Last
<1>2. DOMAIN Front(q) = 1..(Len(q) - 1) /\ \A i \in 1..(Len(q) - 1) : Front(q)[i] = q[i]
  BY <1>1 DEF Front
<1>3. 1..Len(q) = (1..(Len(q) - 1)) \cup {Len(q)}
  BY <1>1
<1>4. QED
  BY <1>1, <1>2, <1>3, Zenon DEF ToSet

\* An order of a finite set is a sequence of its elements, all of them.
LEMMA OrderFacts ==
    ASSUME NEW S, IsFiniteSet(S), NEW q \in SetToSeqs(S)
    PROVE  /\ q \in Seq(S) /\ Len(q) = Cardinality(S) /\ ToSet(q) = S
           /\ \A i, j \in 1..Len(q) : q[i] = q[j] => i = j
<1>1. Cardinality(S) \in Nat
  BY FS_CardinalityType
<1> DEFINE n == Cardinality(S)
<1>2. q \in [1..n -> S] /\ \A i, j \in 1..n : i # j => q[i] # q[j]
  BY DEF SetToSeqs
<1>3. q \in Seq(S) /\ Len(q) = n /\ DOMAIN q = 1..n
  BY <1>1, <1>2
<1>4. q \in Injection(1..n, S)
  BY <1>2 DEF Injection, IsInjective
<1>5. Cardinality(1..n) = n
  BY <1>1, FS_Interval
<1>6. q \in Surjection(1..n, S)
  BY <1>4, <1>5, FS_Injection
<1>7. \A x \in S : \E i \in 1..n : q[i] = x
  BY <1>6 DEF Surjection
<1>8. ToSet(q) = S
  BY <1>2, <1>3, <1>7 DEF ToSet
<1>9. QED BY <1>2, <1>3, <1>8

-----------------------------------------------------------------------------
(* The disk cache.                                                         *)

LEMMA IndexFacts ==
    ASSUME NEW index \in Index, NEW set \in SUBSET Sources
    PROVE  /\ Touch(index, set) \in Index
           /\ Touch(index, set).has = index.has \cup set
           /\ Only(index, set) \in Index
           /\ Only(index, set).has = set
           /\ NoEntries \in Index
BY DEF Index, Touch, Only, NoEntries

LEMMA SomeSources ==
    ASSUME NEW set \in SUBSET Sources
    PROVE  IsFiniteSet(set)
BY MediaAssumption, FS_Subset

\* What has gone at some moment of evict_if_needed are entries, none of keep.
LEMMA EvictionFacts ==
    ASSUME NEW index \in Index, NEW keep \in SUBSET Sources,
           NEW gone \in Evictions(index, keep)
    PROVE  gone \in Seq(Sources) /\ ToSet(gone) \subseteq index.has \ keep
<1>1. PICK set \in SUBSET (index.has \ keep) : gone \in SetToSeqs(set)
  BY DEF Evictions, SetToAllKPermutations
<1>2. set \in SUBSET Sources
  BY <1>1 DEF Index
<1>3. gone \in Seq(set) /\ ToSet(gone) = set
  BY <1>1, <1>2, SomeSources, OrderFacts
<1>4. QED
  BY <1>1, <1>2, <1>3

LEMMA EvictedFacts ==
    ASSUME NEW index \in Index, NEW keep \in SUBSET Sources,
           NEW dropped \in Evicted(index, keep)
    PROVE  /\ dropped \subseteq index.has \ keep
           /\ Fits(index.has \ dropped) \/ index.has \ dropped \subseteq keep
<1>1. PICK gone \in Evictions(index, keep) :
        /\ dropped = ToSet(gone)
        /\ LET left == index.has \ ToSet(gone) IN Fits(left) \/ left \subseteq keep
  BY DEF Evicted
<1>2. QED
  BY <1>1, EvictionFacts

LEMMA StoredFacts ==
    ASSUME NEW c \in Cache, NEW index \in Index, NEW s \in index.has,
           NEW dropped \in SUBSET (index.has \ {s}),
           NEW d, d = Stored(c, index, s, dropped)
    PROVE  /\ d \in Cache
           /\ d.index.has = index.has \ dropped
           /\ \A x \in Sources : d.file[x] = IF x = s THEN "whole"
                                             ELSE IF x \in dropped THEN "none" ELSE c.file[x]
           /\ d.gone = (c.gone \cup dropped) \ {s}
           /\ d.orphans = c.orphans \ {s}
           /\ ~d.full
<1>1. index.has \subseteq Sources
  BY DEF Index
<1>2. /\ Only(index, index.has \ dropped) \in Index
      /\ Only(index, index.has \ dropped).has = index.has \ dropped
  BY <1>1, IndexFacts
<1>3. QED
  BY <1>1, <1>2 DEF Stored, Cache

\* A cache that another one became of keeps what it says of the files of others.
KeepsOthers(c, d, s) ==
    \A x \in Sources \ {s} : x \notin d.gone => x \notin c.gone /\ d.file[x] = c.file[x]

LEMMA AtMostOne ==
    ASSUME NEW s, NEW set \in SUBSET {s}
    PROVE  Cardinality(set) <= 1 /\ Cardinality(set) \in Nat
<1>1. IsFiniteSet({s}) /\ Cardinality({s}) = 1
  BY FS_Singleton
<1>2. IsFiniteSet(set) /\ Cardinality(set) <= Cardinality({s})
  BY <1>1, FS_Subset
<1>3. QED BY <1>1, <1>2, FS_CardinalityType

LEMMA InsertedFacts ==
    ASSUME NEW c, CacheInv(c), NEW s \in Sources, NEW d \in Inserted(c, s)
    PROVE  CacheInv(d) /\ KeepsOthers(c, d, s) /\ d.file[s] = "whole"
<1> DEFINE index == Touch(c.index, {s})
<1>0. c \in Cache /\ c.index \in Index
  BY DEF CacheInv, Cache
<1>1. index \in Index /\ index.has = c.index.has \cup {s}
  BY <1>0, IndexFacts
<1>2. PICK dropped \in Evicted(index, {s}) : d = Stored(c, index, s, dropped)
  BY DEF Inserted
<1> HIDE DEF index
<1>3. /\ dropped \subseteq index.has \ {s}
      /\ Fits(index.has \ dropped) \/ index.has \ dropped \subseteq {s}
  BY <1>1, EvictedFacts
<1>9. s \in index.has /\ dropped \in SUBSET (index.has \ {s})
  BY <1>1, <1>3
<1>4. /\ d \in Cache
      /\ d.index.has = index.has \ dropped
      /\ \A x \in Sources : d.file[x] = IF x = s THEN "whole"
                                        ELSE IF x \in dropped THEN "none" ELSE c.file[x]
      /\ d.gone = (c.gone \cup dropped) \ {s}
      /\ d.orphans = c.orphans \ {s}
      /\ ~d.full
  BY <1>0, <1>1, <1>2, <1>9, StoredFacts
<1>5. \A x \in Sources \ d.gone : d.file[x] # "torn"
  BY <1>4 DEF CacheInv
<1>6. ASSUME Cardinality(d.index.has) > 1 PROVE Fits(d.index.has)
  <2>1. SUFFICES ASSUME index.has \ dropped \subseteq {s} PROVE FALSE
    BY <1>3, <1>4
  <2>2. Cardinality(index.has \ dropped) <= 1 /\ Cardinality(index.has \ dropped) \in Nat
    BY <2>1, AtMostOne
  <2>3. QED BY <1>4, <1>6, <2>2
<1>7. OnDisk(d) \ d.orphans \subseteq d.index.has
  BY <1>1, <1>3, <1>4 DEF CacheInv, OnDisk
<1>8. QED
  BY <1>4, <1>5, <1>6, <1>7 DEF CacheInv, KeepsOthers

LEMMA HalfInsertedFacts ==
    ASSUME NEW c, CacheInv(c), NEW s \in Sources, NEW d \in HalfInserted(c, s)
    PROVE  CacheInv(d) /\ KeepsOthers(c, d, s)
<1> DEFINE index == Touch(c.index, {s})
<1>0. c \in Cache /\ c.index \in Index
  BY DEF CacheInv, Cache
<1>1. index \in Index /\ index.has = c.index.has \cup {s} /\ NoEntries \in Index
  BY <1>0, IndexFacts
<1>2. CASE \E f \in {c.file[s], "torn"} : d = Unwritten(c, s, f)
  <2>1. PICK f \in {c.file[s], "torn"} : d = Unwritten(c, s, f)
    BY <1>2
  <2>2. /\ d \in Cache
        /\ d.index = c.index /\ d.full = c.full
        /\ d.file = [c.file EXCEPT ![s] = f]
        /\ d.gone = IF f = "torn" THEN c.gone \cup {s} ELSE c.gone
        /\ d.orphans = IF s \in c.index.has THEN c.orphans ELSE c.orphans \cup {s}
    BY <1>0, <2>1 DEF Cache, Unwritten
  <2>3. c.file \in [Sources -> {"none", "whole", "torn"}]
    BY <1>0 DEF Cache
  <2>4. KeepsOthers(c, d, s)
    BY <2>2, <2>3 DEF KeepsOthers
  <2>5. \A x \in Sources \ d.gone : d.file[x] # "torn"
    BY <2>1, <2>2, <2>3 DEF CacheInv
  <2>6. OnDisk(d) \ d.orphans \subseteq d.index.has
    BY <2>2, <2>3 DEF CacheInv, OnDisk
  <2>7. QED
    BY <2>2, <2>4, <2>5, <2>6 DEF CacheInv
<1>3. CASE \E gone \in Evictions(index, {s}) \ {<<>>} : d = Undeleted(c, index, s, gone)
  <2>1. PICK gone \in Evictions(index, {s}) \ {<<>>} : d = Undeleted(c, index, s, gone)
    BY <1>3
  <2> HIDE DEF index
  <2>2. gone \in Seq(Sources) /\ gone # <<>> /\ ToSet(gone) \subseteq index.has \ {s}
    BY <1>1, <2>1, EvictionFacts
  <2>3. /\ ToSet(gone) = ToSet(Front(gone)) \cup {Last(gone)}
        /\ Last(gone) \in Sources
    BY <2>2, SetOfFront
  <2> DEFINE front == ToSet(Front(gone))
             e == Stored(c, index, s, front)
  <2>4. front \in SUBSET (index.has \ {s}) /\ s \in index.has
    BY <1>1, <2>2, <2>3
  <2> HIDE DEF front
  <2>5. /\ e \in Cache
        /\ \A x \in Sources : e.file[x] = IF x = s THEN "whole"
                                          ELSE IF x \in front THEN "none" ELSE c.file[x]
        /\ e.gone = (c.gone \cup front) \ {s}
        /\ e.orphans = c.orphans \ {s}
    <3>1. e = Stored(c, index, s, front)
      OBVIOUS
    <3> HIDE DEF e
    <3>2. QED BY <1>0, <1>1, <2>4, <3>1, StoredFacts
  <2> HIDE DEF e
  <2>6. /\ Only(index, index.has \ ToSet(gone)) \in Index
        /\ Only(index, index.has \ ToSet(gone)).has = index.has \ ToSet(gone)
    BY <1>1, IndexFacts DEF Index
  <2>7. d = [e EXCEPT !.index = Only(index, index.has \ ToSet(gone)), !.saved = c.saved,
                      !.orphans = @ \cup {Last(gone)}, !.full = TRUE]
    BY <2>1 DEF e, front, Undeleted
  <2>8. /\ d \in Cache
        /\ d.index.has = index.has \ ToSet(gone) /\ d.full
        /\ d.file = e.file /\ d.gone = e.gone
        /\ d.orphans = (c.orphans \ {s}) \cup {Last(gone)}
    BY <1>0, <2>3, <2>5, <2>6, <2>7 DEF Cache
  <2>9. ToSet(gone) = front \cup {Last(gone)}
    BY <2>3 DEF front
  <2>10. KeepsOthers(c, d, s)
    BY <2>5, <2>8 DEF KeepsOthers
  <2>11. \A x \in Sources \ d.gone : d.file[x] # "torn"
    BY <2>5, <2>8 DEF CacheInv
  <2>12. OnDisk(d) \ d.orphans \subseteq d.index.has
    BY <1>1, <2>2, <2>5, <2>8, <2>9 DEF CacheInv, OnDisk
  <2>13. QED
    BY <2>8, <2>10, <2>11, <2>12 DEF CacheInv
<1>4. CASE \E i \in Inserted(c, s), f \in {c.saved, NoEntries} : d = Unsaved(i, f)
  <2>1. PICK i \in Inserted(c, s), f \in {c.saved, NoEntries} : d = Unsaved(i, f)
    BY <1>4
  <2>2. CacheInv(i) /\ KeepsOthers(c, i, s)
    BY <2>1, InsertedFacts
  <2>3. i \in Cache /\ f \in Index
    BY <1>0, <1>1, <2>1, <2>2 DEF CacheInv, Cache
  <2>4. /\ d \in Cache
        /\ d.index = i.index /\ d.file = i.file /\ d.gone = i.gone
        /\ d.orphans = i.orphans /\ d.full = i.full
    BY <2>1, <2>3 DEF Cache, Unsaved
  <2>5. QED
    BY <2>2, <2>4 DEF CacheInv, KeepsOthers, OnDisk
<1>5. \/ \E f \in {c.file[s], "torn"} : d = Unwritten(c, s, f)
      \/ \E gone \in Evictions(index, {s}) \ {<<>>} : d = Undeleted(c, index, s, gone)
      \/ \E i \in Inserted(c, s), f \in {c.saved, NoEntries} : d = Unsaved(i, f)
  <2> DEFINE A == {Unwritten(c, s, file) : file \in {c.file[s], "torn"}}
             B == {Undeleted(c, index, s, gone) : gone \in Evictions(index, {s}) \ {<<>>}}
             C == {Unsaved(i, saved) : i \in Inserted(c, s), saved \in {c.saved, NoEntries}}
  <2>1. HalfInserted(c, s) = A \cup B \cup C
    BY DEF HalfInserted
  <2>2. d \in A => \E f \in {c.file[s], "torn"} : d = Unwritten(c, s, f)
    OBVIOUS
  <2>3. d \in B =>
          \E gone \in Evictions(index, {s}) \ {<<>>} : d = Undeleted(c, index, s, gone)
    OBVIOUS
  <2>4. d \in C =>
          \E i \in Inserted(c, s), f \in {c.saved, NoEntries} : d = Unsaved(i, f)
    OBVIOUS
  <2> HIDE DEF A, B, C
  <2>5. d \in A \cup B \cup C
    BY <2>1
  <2>6. QED BY <2>2, <2>3, <2>4, <2>5
<1>6. QED
  BY <1>2, <1>3, <1>4, <1>5

LEMMA ReopenedFacts ==
    ASSUME NEW c, CacheInv(c), NEW d \in Reopened(c)
    PROVE  CacheInv(d)
<1> DEFINE index == Only(c.saved, c.saved.has \cap OnDisk(c))
<1>0. c \in Cache /\ c.saved \in Index /\ c.file \in [Sources -> {"none", "whole", "torn"}]
  BY DEF CacheInv, Cache
<1>1. index \in Index /\ index.has = c.saved.has \cap OnDisk(c)
  BY <1>0, IndexFacts DEF OnDisk
<1> DEFINE Kept(dropped) == Only(index, index.has \ dropped)
           File(dropped) == [s \in Sources |-> IF s \in dropped THEN "none" ELSE c.file[s]]
<1>2. PICK dropped \in Evicted(index, {}) :
        d = [c EXCEPT !.index = Kept(dropped), !.saved = Kept(dropped),
                      !.file = File(dropped), !.rootGone = FALSE,
                      !.gone = {s \in Sources : File(dropped)[s] = "torn"},
                      !.orphans = {s \in Sources : File(dropped)[s] # "none"}
                                    \ Kept(dropped).has,
                      !.full = FALSE]
  BY DEF Reopened
<1> HIDE DEF index
<1>3. /\ dropped \subseteq index.has
      /\ Fits(index.has \ dropped) \/ index.has \ dropped \subseteq {}
  <2>1. {} \in SUBSET Sources
    OBVIOUS
  <2>2. /\ dropped \subseteq index.has \ {}
        /\ Fits(index.has \ dropped) \/ index.has \ dropped \subseteq {}
    BY <1>1, <1>2, <2>1, EvictedFacts
  <2>3. QED BY <2>2
<1> DEFINE kept == Kept(dropped)
           file == File(dropped)
<1>4. kept \in Index /\ kept.has = index.has \ dropped
  <2>1. index.has \ dropped \in SUBSET Sources
    BY <1>1 DEF Index
  <2>2. QED BY <1>1, <2>1, IndexFacts
<1>5. file \in [Sources -> {"none", "whole", "torn"}]
  BY <1>0
<1> DEFINE torn == {s \in Sources : file[s] = "torn"}
           orphans == {s \in Sources : file[s] # "none"} \ kept.has
<1>6. torn \subseteq Sources /\ orphans \subseteq Sources
  OBVIOUS
<1>7. d = [c EXCEPT !.index = kept, !.saved = kept, !.file = file, !.rootGone = FALSE,
                    !.gone = torn, !.orphans = orphans, !.full = FALSE]
  BY <1>2
<1>8. torn = {s \in Sources : file[s] = "torn"}
      /\ orphans = {s \in Sources : file[s] # "none"} \ kept.has
  OBVIOUS
<1> HIDE DEF kept, file, torn, orphans
<1>9. /\ d \in Cache /\ d.index = kept /\ d.file = file /\ d.gone = torn
      /\ d.orphans = orphans /\ ~d.full
  BY <1>0, <1>4, <1>5, <1>6, <1>7 DEF Cache
<1>10. ASSUME Cardinality(d.index.has) > 1 PROVE Fits(d.index.has)
  <2>1. d.index.has = index.has \ dropped
    BY <1>4, <1>9
  <2>2. CASE index.has \ dropped \subseteq {}
    <3>1. d.index.has = {}
      BY <2>1, <2>2
    <3>2. Cardinality(d.index.has) = 0
      BY <3>1, FS_EmptySet
    <3>3. QED BY <1>10, <3>2
  <2>3. QED BY <1>3, <2>1, <2>2
<1>11. QED
  BY <1>8, <1>9, <1>10 DEF CacheInv, OnDisk

-----------------------------------------------------------------------------
(* Downloads.                                                              *)

\* What Lazy needs of the state an event left behind.
Left(st, pa, fl, c) ==
    /\ st \in [Sources -> MediaStatus] /\ pa \subseteq Sources /\ fl \subseteq Sources
    /\ CacheInv(c)
    /\ \A s \in Sources \ c.gone : st[s] = "ready" => s \in pa /\ c.file[s] = "whole"

LEMMA LazyFacts ==
    ASSUME NEW st, NEW pa, NEW fl, NEW c, Left(st, pa, fl, c),
           room \subseteq Sources, requests \in Seq(Sources), Lazy(st, pa, fl, c)
    PROVE  /\ status' \in [Sources -> MediaStatus]
           /\ path' \subseteq Sources /\ inFlight' \subseteq Sources
           /\ requests' \in Seq(Sources)
           /\ CacheInv(cache')
           /\ ReadyHasFile'
           /\ ToSet(requests) \subseteq ToSet(requests')
           /\ \A s \in Sources : status'[s] = "downloading" =>
                st[s] = "downloading" \/ s \in ToSet(requests')
<1> DEFINE todo == {s \in room : st[s] = "missing" /\ s \notin fl}
           hits == {s \in todo : s \in c.index.has /\ c.file[s] # "none"}
           asks == todo \ hits
           used == IF hits = {} THEN c.index ELSE Touch(c.index, hits)
<1>1. /\ status' = [s \in Sources |-> IF s \in hits THEN "ready"
                                      ELSE IF s \in asks THEN "downloading" ELSE st[s]]
      /\ path' = pa \cup hits
      /\ inFlight' = fl \cup asks
      /\ \E order \in SetToSeqs(asks) : requests' = requests \o order
      /\ cache' = [c EXCEPT !.index = used, !.saved = IF hits = {} THEN @ ELSE used]
  BY DEF Lazy
<1>2. /\ hits \subseteq Sources /\ asks \subseteq Sources /\ hits \subseteq c.index.has
      /\ \A s \in hits : c.file[s] # "none"
  OBVIOUS
<1>3. /\ st \in [Sources -> MediaStatus] /\ pa \subseteq Sources /\ fl \subseteq Sources
      /\ c \in Cache /\ c.index \in Index /\ c.saved \in Index
      /\ c.file \in [Sources -> {"none", "whole", "torn"}]
      /\ \A s \in Sources \ c.gone : c.file[s] # "torn"
      /\ \A s \in Sources \ c.gone : st[s] = "ready" => s \in pa /\ c.file[s] = "whole"
  BY DEF Left, CacheInv, Cache
<1>4. used \in Index /\ used.has = c.index.has
  <2> HIDE DEF hits
  <2>1. CASE hits = {}
    BY <1>3, <2>1
  <2>2. CASE hits # {}
    <3>1. hits \in SUBSET Sources /\ used = Touch(c.index, hits)
      BY <1>2, <2>2
    <3>2. used \in Index /\ used.has = c.index.has \cup hits
      BY <1>3, <3>1, IndexFacts
    <3>3. QED BY <1>2, <3>2
  <2>3. QED BY <2>1, <2>2
<1> HIDE DEF hits, asks, used
<1>5. PICK order \in SetToSeqs(asks) : requests' = requests \o order
  BY <1>1
<1>6. order \in Seq(Sources) /\ ToSet(order) = asks
  <2>1. IsFiniteSet(asks)
    BY <1>2, SomeSources
  <2>2. order \in Seq(asks) /\ ToSet(order) = asks
    BY <1>5, <2>1, OrderFacts
  <2>3. QED BY <1>2, <2>2
<1>7. requests' \in Seq(Sources) /\ ToSet(requests') = ToSet(requests) \cup asks
  BY <1>5, <1>6, SetOfConcat
<1>8. status' \in [Sources -> MediaStatus]
  <2>1. \A s \in Sources : (IF s \in hits THEN "ready"
                            ELSE IF s \in asks THEN "downloading" ELSE st[s]) \in MediaStatus
    BY <1>3 DEF MediaStatus
  <2>2. QED BY <1>1, <2>1
<1>9. /\ cache' \in Cache /\ cache'.index = used /\ cache'.file = c.file
      /\ cache'.gone = c.gone /\ cache'.orphans = c.orphans /\ cache'.full = c.full
  BY <1>1, <1>3, <1>4 DEF Cache
<1>10. CacheInv(cache')
  BY <1>4, <1>9 DEF CacheInv, Left, OnDisk
<1>11. ASSUME NEW s \in Sources, s \notin cache'.gone, status'[s] = "ready"
       PROVE  s \in path' /\ cache'.file[s] = "whole"
  <2>1. s \notin c.gone /\ c.file[s] \in {"none", "whole"}
    BY <1>3, <1>9, <1>11
  <2>2. CASE s \in hits
    BY <1>1, <1>2, <1>9, <2>1, <2>2
  <2>3. CASE s \notin hits
    <3>1. st[s] = "ready"
      BY <1>1, <1>11, <2>3
    <3>2. QED BY <1>1, <1>3, <1>9, <2>1, <3>1
  <2>4. QED BY <2>2, <2>3
<1>12. ReadyHasFile'
  BY <1>11 DEF ReadyHasFile
<1>13. \A s \in Sources : status'[s] = "downloading" => st[s] = "downloading" \/ s \in asks
  BY <1>1
<1>14. QED
  BY <1>1, <1>2, <1>3, <1>7, <1>8, <1>10, <1>12, <1>13

LEMMA OtherKeepsInv == MediaInv /\ HandleOther => MediaInv'
<1> SUFFICES ASSUME MediaInv, HandleOther PROVE MediaInv'
  OBVIOUS
<1> USE DEF MediaInv, Typed
<1>1. Lazy(status, path, inFlight, cache)
      /\ UNCHANGED <<room, acks, lost, playVars, turns>>
  BY DEF HandleOther
<1>2. Left(status, path, inFlight, cache)
  BY DEF Left, ReadyHasFile
<1>3. /\ status' \in [Sources -> MediaStatus]
      /\ path' \subseteq Sources /\ inFlight' \subseteq Sources
      /\ requests' \in Seq(Sources)
      /\ CacheInv(cache')
      /\ ReadyHasFile'
      /\ ToSet(requests) \subseteq ToSet(requests')
      /\ \A s \in Sources : status'[s] = "downloading" =>
           status[s] = "downloading" \/ s \in ToSet(requests')
  BY <1>1, <1>2, LazyFacts
<1>4. Typed'
  BY <1>1, <1>3 DEF playVars
<1>5. DownloadingIsAwaited'
  BY <1>1, <1>3 DEF DownloadingIsAwaited
<1>6. PlayingIsBounded'
  BY <1>1 DEF PlayingIsBounded, playVars
<1>7. QED BY <1>3, <1>4, <1>5, <1>6

LEMMA AnswerKeepsInv == MediaInv /\ HandleAnswer => MediaInv'
<1> SUFFICES ASSUME MediaInv, HandleAnswer PROVE MediaInv'
  OBVIOUS
<1> USE DEF MediaInv, Typed
<1> DEFINE s == Head(acks).of
           failed == [status EXCEPT ![s] = "failed"]
           flying == inFlight \ {s}
<1>1. /\ acks # <<>> /\ acks' = Tail(acks)
      /\ UNCHANGED <<room, lost, playVars>>
      /\ \/ \E c \in Inserted(cache, s) :
              Lazy([status EXCEPT ![s] = "ready"], path \cup {s}, flying, c)
         \/ \E c \in HalfInserted(cache, s) : Lazy(failed, path, flying, c)
         \/ Lazy(failed, path, flying, cache)
  BY DEF HandleAnswer
<1>2. /\ acks' \in Seq(Answers) /\ Head(acks) \in Answers
      /\ ToSet(acks) = ToSet(acks') \cup {Head(acks)}
  BY <1>1, SetOfTail
<1>3. s \in Sources
  BY <1>2 DEF Answers
<1> HIDE DEF s
<1>4. \E st, pa, c :
        /\ Left(st, pa, flying, c) /\ Lazy(st, pa, flying, c)
        /\ st[s] # "downloading" /\ \A x \in Sources \ {s} : st[x] = status[x]
  <2>0. failed \in [Sources -> MediaStatus] /\ failed[s] = "failed"
        /\ \A x \in Sources \ {s} : failed[x] = status[x]
    BY <1>3 DEF MediaStatus
  <2>1. CASE \E c \in Inserted(cache, s) :
               Lazy([status EXCEPT ![s] = "ready"], path \cup {s}, flying, c)
    <3> DEFINE ready == [status EXCEPT ![s] = "ready"]
    <3>1. PICK c \in Inserted(cache, s) : Lazy(ready, path \cup {s}, flying, c)
      BY <2>1
    <3>2. ready \in [Sources -> MediaStatus] /\ ready[s] = "ready"
          /\ \A x \in Sources \ {s} : ready[x] = status[x]
      BY <1>3 DEF MediaStatus
    <3>3. CacheInv(c) /\ KeepsOthers(cache, c, s) /\ c.file[s] = "whole"
      BY <1>3, <3>1, InsertedFacts
    <3> HIDE DEF ready
    <3>4. Left(ready, path \cup {s}, flying, c)
      BY <1>3, <3>2, <3>3 DEF Left, KeepsOthers, ReadyHasFile
    <3>5. QED BY <3>1, <3>2, <3>4
  <2>2. CASE \E c \in HalfInserted(cache, s) : Lazy(failed, path, flying, c)
    <3>1. PICK c \in HalfInserted(cache, s) : Lazy(failed, path, flying, c)
      BY <2>2
    <3>2. CacheInv(c) /\ KeepsOthers(cache, c, s)
      BY <1>3, <3>1, HalfInsertedFacts
    <3> HIDE DEF failed
    <3>3. Left(failed, path, flying, c)
      BY <1>3, <2>0, <3>2 DEF Left, KeepsOthers, ReadyHasFile
    <3>4. QED BY <3>1, <2>0, <3>3
  <2>3. CASE Lazy(failed, path, flying, cache)
    <3> HIDE DEF failed
    <3>1. Left(failed, path, flying, cache)
      BY <1>3, <2>0 DEF Left, ReadyHasFile
    <3>2. QED BY <2>0, <2>3, <3>1
  <2>4. QED BY <1>1, <2>1, <2>2, <2>3
<1>5. PICK st, pa, c :
        /\ Left(st, pa, flying, c) /\ Lazy(st, pa, flying, c)
        /\ st[s] # "downloading" /\ \A x \in Sources \ {s} : st[x] = status[x]
  BY <1>4
<1>6. /\ status' \in [Sources -> MediaStatus]
      /\ path' \subseteq Sources /\ inFlight' \subseteq Sources
      /\ requests' \in Seq(Sources)
      /\ CacheInv(cache')
      /\ ReadyHasFile'
      /\ ToSet(requests) \subseteq ToSet(requests')
      /\ \A x \in Sources : status'[x] = "downloading" =>
           st[x] = "downloading" \/ x \in ToSet(requests')
  BY <1>5, LazyFacts
<1>7. Typed'
  BY <1>1, <1>2, <1>6 DEF playVars
<1>8. ASSUME NEW x \in Sources \ lost', status'[x] = "downloading"
      PROVE  x \in ToSet(requests') \/ \E a \in ToSet(acks') : a.of = x
  <2>1. SUFFICES ASSUME st[x] = "downloading"
                 PROVE  x \in ToSet(requests') \/ \E a \in ToSet(acks') : a.of = x
    BY <1>6, <1>8
  <2>2. x # s /\ status[x] = "downloading" /\ x \in Sources \ lost
    BY <1>1, <1>5, <2>1
  <2>3. x \in ToSet(requests) \/ \E a \in ToSet(acks) : a.of = x
    BY <2>2 DEF DownloadingIsAwaited
  <2>4. QED BY <1>2, <1>6, <2>2, <2>3 DEF s
<1>9. DownloadingIsAwaited'
  BY <1>8 DEF DownloadingIsAwaited
<1>10. PlayingIsBounded'
  BY <1>1 DEF PlayingIsBounded, playVars
<1>11. QED BY <1>6, <1>7, <1>9, <1>10

LEMMA LogoutKeepsInv == MediaInv /\ HandleLogout => MediaInv'
<1> SUFFICES ASSUME MediaInv, HandleLogout PROVE MediaInv'
  OBVIOUS
<1> USE DEF MediaInv, Typed
<1> DEFINE nothing == [s \in Sources |-> "none"]
           wiped == {s \in Sources : status[s] = "ready"}
<1>1. /\ cache' = [cache EXCEPT !.file = nothing, !.rootGone = TRUE, !.saved = NoEntries,
                                !.gone = @ \cup wiped]
      /\ room' = {}
      /\ UNCHANGED <<downloadVars, queueVars, playVars, asked>>
  BY DEF HandleLogout
<1>2. /\ nothing \in [Sources -> {"none", "whole", "torn"}]
      /\ \A s \in Sources : nothing[s] = "none"
      /\ wiped \subseteq Sources
      /\ \A s \in Sources : status[s] = "ready" => s \in wiped
      /\ NoEntries \in Index
  BY DEF Index, NoEntries
<1> HIDE DEF nothing, wiped
<1>3. cache \in Cache
  BY DEF CacheInv
<1>4. /\ cache' \in Cache /\ cache'.index = cache.index /\ cache'.full = cache.full
      /\ cache'.file = nothing /\ cache'.gone = cache.gone \cup wiped
      /\ cache'.orphans = cache.orphans
  BY <1>1, <1>2, <1>3 DEF Cache
<1>5. CacheInv(cache')
  BY <1>2, <1>4 DEF CacheInv, OnDisk
<1>6. Typed'
  BY <1>1 DEF downloadVars, queueVars, playVars
<1>7. DownloadingIsAwaited'
  BY <1>1 DEF DownloadingIsAwaited, downloadVars, queueVars
<1>8. ReadyHasFile'
  BY <1>1, <1>2, <1>4 DEF ReadyHasFile, downloadVars
<1>9. PlayingIsBounded'
  BY <1>1 DEF PlayingIsBounded, playVars
<1>10. QED BY <1>5, <1>6, <1>7, <1>8, <1>9

LEMMA ServeKeepsInv == MediaInv /\ Serve => MediaInv'
<1> SUFFICES ASSUME MediaInv, Serve PROVE MediaInv'
  OBVIOUS
<1> USE DEF MediaInv, Typed
<1>1. /\ requests # <<>> /\ requests' = Tail(requests)
      /\ UNCHANGED <<room, downloadVars, cache, playVars, asked, turns>>
  BY DEF Serve
<1>2. PICK ok \in BOOLEAN :
        LET ack == [of |-> Head(requests), ok |-> ok] IN
        \/ /\ Len(acks) = EventCapacity
           /\ acks' = Append(Tail(acks), ack) /\ lost' = lost \cup {Head(acks).of}
        \/ Len(acks) # EventCapacity /\ acks' = Append(acks, ack) /\ lost' = lost
  BY DEF Serve
<1> DEFINE ack == [of |-> Head(requests), ok |-> ok]
<1>3. /\ requests' \in Seq(Sources) /\ Head(requests) \in Sources
      /\ ToSet(requests) = ToSet(requests') \cup {Head(requests)}
  BY <1>1, SetOfTail
<1>4. ack \in Answers /\ ack.of = Head(requests)
  BY <1>2, <1>3 DEF Answers
<1> HIDE DEF ack
<1>5. /\ acks' \in Seq(Answers) /\ lost \subseteq lost' /\ lost' \subseteq Sources
      /\ ack \in ToSet(acks')
      /\ \A a \in ToSet(acks) : a \in ToSet(acks') \/ a.of \in lost'
  <2>1. CASE Len(acks) = EventCapacity
    <3>1. acks' = Append(Tail(acks), ack) /\ lost' = lost \cup {Head(acks).of}
      BY <1>2, <2>1 DEF ack
    <3>2. acks # <<>>
      BY <2>1, MediaAssumption
    <3>3. /\ Tail(acks) \in Seq(Answers) /\ Head(acks) \in Answers
          /\ ToSet(acks) = ToSet(Tail(acks)) \cup {Head(acks)}
      BY <3>2, SetOfTail
    <3> DEFINE rest == Tail(acks)
    <3>4. rest \in Seq(Answers) /\ acks' = Append(rest, ack)
      BY <3>1, <3>3
    <3> HIDE DEF rest
    <3>5. Append(rest, ack) \in Seq(Answers)
          /\ ToSet(Append(rest, ack)) = ToSet(rest) \cup {ack}
      BY <1>4, <3>4, SetOfAppend
    <3>6. acks' \in Seq(Answers) /\ ToSet(acks') = ToSet(Tail(acks)) \cup {ack}
      BY <3>4, <3>5 DEF rest
    <3>7. Head(acks).of \in Sources
      BY <3>3 DEF Answers
    <3>8. QED BY <3>1, <3>3, <3>6, <3>7
  <2>2. CASE Len(acks) # EventCapacity
    <3>1. acks' = Append(acks, ack) /\ lost' = lost
      BY <1>2, <2>2 DEF ack
    <3>2. acks' \in Seq(Answers) /\ ToSet(acks') = ToSet(acks) \cup {ack}
      BY <1>4, <3>1, SetOfAppend
    <3>3. QED BY <3>1, <3>2
  <2>3. QED BY <2>1, <2>2
<1>6. Typed'
  BY <1>1, <1>3, <1>5 DEF downloadVars, playVars
<1>7. ASSUME NEW s \in Sources \ lost', status'[s] = "downloading"
      PROVE  s \in ToSet(requests') \/ \E a \in ToSet(acks') : a.of = s
  <2>1. s \in Sources \ lost /\ status[s] = "downloading"
    BY <1>1, <1>5, <1>7 DEF downloadVars
  <2>2. s \in ToSet(requests) \/ \E a \in ToSet(acks) : a.of = s
    BY <2>1 DEF DownloadingIsAwaited
  <2>3. CASE s \in ToSet(requests)
    BY <1>3, <1>4, <1>5, <2>3
  <2>4. CASE \E a \in ToSet(acks) : a.of = s
    BY <1>5, <1>7, <2>4
  <2>5. QED BY <2>2, <2>3, <2>4
<1>8. DownloadingIsAwaited'
  BY <1>7 DEF DownloadingIsAwaited
<1>9. ReadyHasFile' /\ PlayingIsBounded' /\ CacheInv(cache')
  BY <1>1 DEF ReadyHasFile, PlayingIsBounded, downloadVars, playVars
<1>10. QED BY <1>6, <1>8, <1>9

LEMMA RestartKeepsInv == MediaInv /\ Restart => MediaInv'
<1> SUFFICES ASSUME MediaInv, Restart PROVE MediaInv'
  OBVIOUS
<1>1. /\ room' = {}
      /\ status' = [s \in Sources |-> "missing"] /\ path' = {} /\ inFlight' = {}
      /\ requests' = <<>> /\ acks' = <<>> /\ lost' = {}
      /\ cache' \in Reopened(cache)
      /\ offered' = {} /\ attached' = {} /\ rows' = {}
      /\ age' = [s \in Sources |-> Stale + 1] /\ playing' = {}
  BY DEF Restart
<1>2. Stale \in Nat
  BY MediaAssumption
<1>3. CacheInv(cache')
  BY <1>1, ReopenedFacts DEF MediaInv
<1>4. Typed'
  BY <1>1, <1>2 DEF Typed, MediaStatus
<1>5. DownloadingIsAwaited' /\ ReadyHasFile'
  BY <1>1 DEF DownloadingIsAwaited, ReadyHasFile
<1>6. PlayingIsBounded'
  BY <1>1, FS_EmptySet, MediaAssumption DEF PlayingIsBounded
<1>7. QED BY <1>3, <1>4, <1>5, <1>6 DEF MediaInv

LEMMA InitEstablishes == Init => MediaInv
<1> SUFFICES ASSUME Init PROVE MediaInv
  OBVIOUS
<1> USE DEF Init
<1>1. Stale \in Nat /\ MaxPlaying \in Nat
  BY MediaAssumption
<1>2. Typed
  BY <1>1 DEF Typed, MediaStatus
<1>3. NoEntries \in Index /\ NoEntries.has = {}
  BY DEF Index, NoEntries
<1>4. cache \in Cache
  BY <1>3 DEF Cache
<1>5. CacheInv(cache)
  <2>1. /\ cache.index.has = {} /\ cache.orphans = {}
        /\ \A s \in Sources : cache.file[s] = "none"
    BY <1>3
  <2>2. ~ (Cardinality(cache.index.has) > 1)
    BY <2>1, FS_EmptySet
  <2> HIDE DEF Init
  <2>3. QED
    BY <1>4, <2>1, <2>2 DEF CacheInv, OnDisk
<1>6. DownloadingIsAwaited /\ ReadyHasFile
  BY DEF DownloadingIsAwaited, ReadyHasFile
<1>7. PlayingIsBounded
  BY <1>1, FS_EmptySet DEF PlayingIsBounded
<1>8. QED BY <1>2, <1>5, <1>6, <1>7 DEF MediaInv

-----------------------------------------------------------------------------
(* The interface thread.                                                   *)

LEMMA RetryKeepsInv ==
    ASSUME MediaInv, NEW s \in Sources, Retry(s)
    PROVE  MediaInv'
<1> USE DEF MediaInv, Typed
<1>1. /\ status' = [status EXCEPT ![s] = "downloading"]
      /\ inFlight' = inFlight \cup {s}
      /\ requests' = Append(requests, s)
      /\ UNCHANGED <<room, path, acks, lost, cache, playVars, turns>>
  BY DEF Retry
<1>2. /\ status' \in [Sources -> MediaStatus] /\ status'[s] = "downloading"
      /\ \A x \in Sources \ {s} : status'[x] = status[x]
  BY <1>1 DEF MediaStatus
<1>3. requests' \in Seq(Sources) /\ ToSet(requests') = ToSet(requests) \cup {s}
  BY <1>1, SetOfAppend
<1>4. Typed'
  BY <1>1, <1>2, <1>3 DEF playVars
<1>5. DownloadingIsAwaited'
  BY <1>1, <1>2, <1>3 DEF DownloadingIsAwaited
<1>6. ReadyHasFile'
  <2>1. ASSUME NEW x \in Sources \ cache'.gone, status'[x] = "ready"
        PROVE  x \in path' /\ cache'.file[x] = "whole"
    <3>1. x # s
      BY <1>2, <2>1
    <3>2. status[x] = "ready" /\ x \notin cache.gone
      BY <1>1, <1>2, <2>1, <3>1
    <3>3. QED BY <1>1, <3>2 DEF ReadyHasFile
  <2>2. QED BY <2>1 DEF ReadyHasFile
<1>7. PlayingIsBounded' /\ CacheInv(cache')
  BY <1>1 DEF PlayingIsBounded, playVars
<1>8. QED BY <1>4, <1>5, <1>6, <1>7

LEMMA DrawKeepsInv == MediaInv /\ Draw => MediaInv'
<1> SUFFICES ASSUME MediaInv, Draw PROVE MediaInv'
  OBVIOUS
<1> USE DEF MediaInv, Typed
<1> DEFINE shown == room \cap path
           fresh == shown \ attached
<1>1. /\ offered' = {s \in room : status[s] = "failed"}
      /\ attached' = shown
      /\ rows' = rows \cup fresh
      /\ playing' = playing \ fresh
      /\ UNCHANGED <<room, downloadVars, queueVars, cache, age, asked, turns>>
  BY DEF Draw
<1>2. Typed'
  BY <1>1 DEF downloadVars, queueVars
<1>3. DownloadingIsAwaited' /\ ReadyHasFile' /\ CacheInv(cache')
  BY <1>1 DEF DownloadingIsAwaited, ReadyHasFile, downloadVars, queueVars
<1>4. PlayingIsBounded'
  <2>1. Cardinality(playing') <= Cardinality(playing)
        /\ Cardinality(playing) \in Nat /\ Cardinality(playing') \in Nat
    BY <1>1, SomeSources, FS_Subset, FS_CardinalityType
  <2>2. MaxPlaying \in Nat /\ Cardinality(playing) <= MaxPlaying
    BY MediaAssumption DEF PlayingIsBounded
  <2>3. Cardinality(playing') <= MaxPlaying
    BY <2>1, <2>2
  <2>4. \A s \in playing' : s \in rows' /\ age'[s] <= Stale
    BY <1>1 DEF PlayingIsBounded
  <2>5. QED BY <2>3, <2>4 DEF PlayingIsBounded
<1>5. QED BY <1>2, <1>3, <1>4

LEMMA PingKeepsInv ==
    ASSUME MediaInv, NEW s \in Sources, Ping(s)
    PROVE  MediaInv'
<1> USE DEF MediaInv, Typed
<1>1. /\ age' = [age EXCEPT ![s] = 0]
      /\ UNCHANGED <<room, downloadVars, queueVars, cache, offered, attached, rows,
                     decoded, playing, asked, turns>>
  BY DEF Ping
<1>2. Stale \in Nat
  BY MediaAssumption
<1>3. age' \in [Sources -> 0..(Stale + 1)]
  BY <1>1, <1>2
<1>4. Typed'
  BY <1>1, <1>3 DEF downloadVars, queueVars
<1>5. DownloadingIsAwaited' /\ ReadyHasFile' /\ CacheInv(cache')
  BY <1>1 DEF DownloadingIsAwaited, ReadyHasFile, downloadVars, queueVars
<1>6. \A x \in Sources : age'[x] = IF x = s THEN 0 ELSE age[x]
  BY <1>1
<1>7. PlayingIsBounded'
  BY <1>1, <1>2, <1>6 DEF PlayingIsBounded
<1>8. QED BY <1>4, <1>5, <1>7

LEMMA LeastOfTwo ==
    ASSUME NEW m \in Nat, NEW n \in Nat
    PROVE  Min({m, n}) \in {m, n} /\ Min({m, n}) <= m /\ Min({m, n}) <= n
<1>1. \E x \in {m, n} : \A y \in {m, n} : x <= y
  <2>1. CASE m <= n
    BY <2>1
  <2>2. CASE ~(m <= n)
    BY <2>2
  <2>3. QED BY <2>1, <2>2
<1>2. Min({m, n}) \in {m, n} /\ \A y \in {m, n} : Min({m, n}) <= y
  BY <1>1 DEF Min
<1>3. QED BY <1>2

\* The rows that are let play are able to, and not too many.
LEMMA CandidateFacts ==
    ASSUME MediaInv, NEW ages, NEW first \in Candidates(ages)
    PROVE  /\ \A s \in ToSet(first) : s \in rows /\ ages[s] <= Stale
           /\ Cardinality(ToSet(first)) <= MaxPlaying
<1> DEFINE able == {s \in rows : /\ ages[s] <= Stale
                                 /\ \E e \in ToSet(decoded) : e.of = s /\ e.gif}
<1>1. PICK q \in SetToSeqs(able) : first = SubSeq(q, 1, Min({Len(q), MaxPlaying}))
  BY DEF Candidates
<1>2. /\ able \in SUBSET Sources
      /\ \A s \in able : s \in rows /\ ages[s] <= Stale
  BY DEF MediaInv, Typed
<1> HIDE DEF able
<1>3. q \in Seq(able)
  BY <1>1, <1>2, SomeSources, OrderFacts
<1>4. Len(q) \in Nat /\ MaxPlaying \in Nat
  BY <1>3, MediaAssumption
<1> DEFINE n == Min({Len(q), MaxPlaying})
<1>5. n \in Nat /\ n <= Len(q) /\ n <= MaxPlaying
  BY <1>4, LeastOfTwo
<1>6. first = SubSeq(q, 1, n)
  BY <1>1
<1> HIDE DEF n
<1>7. first \in Seq(able) /\ Len(first) = n
  BY <1>3, <1>4, <1>5, <1>6
<1>8. first \in Surjection(1..n, ToSet(first))
  BY <1>5, <1>7 DEF Surjection, ToSet
<1>9. IsFiniteSet(1..n) /\ Cardinality(1..n) = n
  BY <1>5, FS_Interval
<1>10. /\ Cardinality(ToSet(first)) <= n
       /\ IsFiniteSet(ToSet(first))
  BY <1>8, <1>9, FS_Surjection
<1>11. Cardinality(ToSet(first)) <= MaxPlaying
  BY <1>4, <1>5, <1>10, FS_CardinalityType
<1>12. ToSet(first) \subseteq able
  BY <1>7 DEF ToSet
<1>13. QED BY <1>2, <1>11, <1>12

LEMMA TickKeepsInv == MediaInv /\ Tick => MediaInv'
<1> SUFFICES ASSUME MediaInv, Tick PROVE MediaInv'
  OBVIOUS
<1>1. PICK ages \in {[s \in Sources |-> IF age[s] > Stale THEN age[s] ELSE age[s] + 1]} :
        \E first \in Candidates(ages) :
          /\ age' = ages
          /\ playing' = Chosen(ages, first)
          /\ UNCHANGED <<room, downloadVars, queueVars, cache, offered, attached, rows,
                         asked, turns>>
  BY DEF Tick
<1>2. PICK first \in Candidates(ages) :
          /\ age' = ages
          /\ playing' = ToSet(first)
          /\ UNCHANGED <<room, downloadVars, queueVars, cache, offered, attached, rows,
                         asked, turns>>
  BY <1>1 DEF Chosen
<1>3. /\ \A s \in playing' : s \in rows /\ ages[s] <= Stale
      /\ Cardinality(playing') <= MaxPlaying
  BY <1>2, CandidateFacts
<1>4. PlayingIsBounded'
  BY <1>2, <1>3 DEF PlayingIsBounded
<1>5. age' \in [Sources -> 0..(Stale + 1)]
  <2>1. Stale \in Nat /\ age \in [Sources -> 0..(Stale + 1)]
    BY MediaAssumption DEF MediaInv, Typed
  <2>2. \A s \in Sources :
          (IF age[s] > Stale THEN age[s] ELSE age[s] + 1) \in 0..(Stale + 1)
    BY <2>1
  <2>3. QED BY <1>1, <1>2, <2>2
<1>6. Typed'
  BY <1>2, <1>3, <1>5 DEF MediaInv, Typed, downloadVars, queueVars
<1>7. DownloadingIsAwaited' /\ ReadyHasFile' /\ CacheInv(cache')
  BY <1>2 DEF MediaInv, DownloadingIsAwaited, ReadyHasFile, downloadVars, queueVars
<1>8. QED BY <1>4, <1>6, <1>7 DEF MediaInv

LEMMA SelectKeepsInv == MediaInv /\ SelectRoom => MediaInv'
<1> SUFFICES ASSUME MediaInv, SelectRoom PROVE MediaInv'
  OBVIOUS
<1>1. /\ room' \in Rooms
      /\ UNCHANGED <<downloadVars, queueVars, cache, playVars, asked, turns>>
  BY DEF SelectRoom
<1>2. room' \subseteq Sources
  BY <1>1, MediaAssumption
<1>3. QED
  BY <1>1, <1>2 DEF MediaInv, Typed, DownloadingIsAwaited, ReadyHasFile,
                    PlayingIsBounded, downloadVars, queueVars, playVars

LEMMA NextKeeps == MediaInv /\ [Next]_vars => MediaInv'
<1> SUFFICES ASSUME MediaInv, [Next]_vars PROVE MediaInv'
  OBVIOUS
<1>1. CASE HandleOther
  BY <1>1, OtherKeepsInv
<1>2. CASE HandleAnswer
  BY <1>2, AnswerKeepsInv
<1>3. CASE HandleLogout
  BY <1>3, LogoutKeepsInv
<1>4. CASE Serve
  BY <1>4, ServeKeepsInv
<1>5. CASE Restart
  BY <1>5, RestartKeepsInv
<1>6. CASE SelectRoom
  BY <1>6, SelectKeepsInv
<1>7. CASE Draw
  BY <1>7, DrawKeepsInv
<1>8. CASE Tick
  BY <1>8, TickKeepsInv
<1>9. CASE \E s \in Sources : Retry(s) \/ Ping(s)
  BY <1>9, RetryKeepsInv, PingKeepsInv
<1>10. CASE UNCHANGED vars
  BY <1>10 DEF vars, MediaInv, Typed, DownloadingIsAwaited, ReadyHasFile,
               PlayingIsBounded, downloadVars, queueVars, playVars
<1>11. QED
  BY <1>1, <1>2, <1>3, <1>4, <1>5, <1>6, <1>7, <1>8, <1>9, <1>10 DEF Next

-----------------------------------------------------------------------------

\* The downloads, the disk cache and the playback of images keep what they owe
\* each other in every reachable state of the desktop app.
THEOREM MediaInvariant == Spec => []MediaInv
<1>1. Init => MediaInv
  BY InitEstablishes
<1>2. MediaInv /\ [Next]_vars => MediaInv'
  BY NextKeeps
<1>3. QED BY <1>1, <1>2, PTL DEF Spec

\* A row that says it is downloading and offers no retry has a request or an
\* answer under way, whoever asked for it, unless the event stream dropped an
\* answer of its image.
THEOREM DownloadingAlwaysAwaited == Spec => []DownloadingIsAwaited
<1>1. MediaInv => DownloadingIsAwaited
  BY DEF MediaInv
<1>2. QED BY <1>1, MediaInvariant, PTL

\* A row that is ready has a file, and a whole one, until its image is evicted,
\* wiped or torn: failing writes, deletions and savings of the index, restarts
\* and evictions of other images leave it alone.
THEOREM ReadyAlwaysHasFile == Spec => []ReadyHasFile
<1>1. MediaInv => ReadyHasFile
  BY DEF MediaInv
<1>2. QED BY <1>1, MediaInvariant, PTL

\* The entries of the disk cache fit its capacity or are one, and its files
\* have entries, whatever the sizes are and in whatever order images are used,
\* but for what a failed operation of the file system left behind.
THEOREM CacheAlwaysBounded == Spec => []CacheBounded
<1>1. MediaInv => CacheBounded
  BY DEF MediaInv, CacheInv, CacheBounded
<1>2. QED BY <1>1, MediaInvariant, PTL

\* GifPlaybackController lets at most MaxPlaying rows play, all of them with a
\* source and seen lately.
THEOREM PlayingAlwaysBounded == Spec => []PlayingIsBounded
<1>1. MediaInv => PlayingIsBounded
  BY DEF MediaInv
<1>2. QED BY <1>1, MediaInvariant, PTL
=============================================================================
