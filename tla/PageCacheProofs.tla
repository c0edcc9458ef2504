---------------------------- MODULE PageCacheProofs ----------------------------
(***************************************************************************)
(* The page cache keeps its books, the pages somebody holds and its budget *)
(* for any number of threads and files, any sizes of pages and files and   *)
(* any budget.                                                             *)
(*                                                                         *)
(* The inductive invariant IInv adds to the invariants of the run what a   *)
(* thread holds at each place (PlacesFit), what the loop under the mutex   *)
(* has passed (LoopPosition, PassedBehind) and, for the budget, that the   *)
(* pages a loop leaves over the budget are pinned, or are no more than the *)
(* one page per thread that BlobFile::copy holds (Excused).                *)
(***************************************************************************)
EXTENDS PageCache, FiniteSetTheorems, TLAPS

\* Only a copy holds a page in hand or has pages to read, all of an open
\* file, and only a query or a copy within it has pins.
PlacesFit ==
  \A t \in Threads :
    /\ pc[t] \in {"idle", "trim"} => pins[t] = {}
    /\ pc[t] # "copy" => hand[t] = None /\ left[t] = <<>>
    /\ \A i \in 1..Len(left[t]) : status[left[t][i][1]] = "open"

\* A loop is within the list or at an end of it; forget runs over closed files
\* while nobody holds a page, and has dropped all pages of its file so far.
LoopPosition ==
  /\ lock.owner = None => lock = Unlocked
  /\ lock.owner # None => lock.at \in 1..(Len(lru) + 1)
  /\ lock.drop # None =>
       /\ status[lock.drop] = "gone"
       /\ \A t \in Threads : pins[t] = {} /\ hand[t] = None
       /\ \A i \in 1..(lock.at - 1) : lru[i][1] # lock.drop

InTrim == lock.owner # None /\ lock.drop = None

\* What a trimming loop left is held, or was released by a thread that trims
\* after it.
PassedBehind ==
  InTrim => \A i \in lock.at..Len(lru) :
              Held(lru[i]) \/ \E t \in Threads \ {lock.owner} : pc[t] \in {"copy", "trim"}

\* A thread that is certain to trim.
PinsOrTrims == \E t \in Threads : pins[t] # {} \/ pc[t] = "trim"

\* S is covered by one page per thread, the page in its hand if there is one.
OnePerThread(S) == \E e \in [Threads -> Pages \cup {None}] : S \subseteq {e[t] : t \in Threads}
OneInHand(S) == \E e \in [Threads -> Pages \cup {None}] :
                  /\ S \subseteq {e[t] : t \in Threads}
                  /\ \A t \in Threads : hand[t] # None => e[t] = hand[t]

Excused ==
  PinsOrTrims \/ IF InTrim THEN OneInHand({lru[i] : i \in lock.at..Len(lru)})
                 ELSE resident <= Budget \/ OnePerThread(index)

Books == IndexMatchesList /\ Accounting

IInv ==
  /\ TypeOK /\ Books /\ ForgottenIsGone /\ HeldPagesStayCached
  /\ PlacesFit /\ LoopPosition /\ PassedBehind /\ Excused

-----------------------------------------------------------------------------
(* What the operators on lists and pages do.                               *)

PagesIn(s) == {s[i] : i \in 1..Len(s)}
NoneTwice(s) == \A i, j \in 1..Len(s) : s[i] = s[j] => i = j

\* Moving one element to the front keeps the elements, each once.
LEMMA ToFrontKeeps ==
  ASSUME NEW S, NEW s \in Seq(S), NEW k \in 1..Len(s)
  PROVE  /\ ToFront(s, k) \in Seq(S) /\ Len(ToFront(s, k)) = Len(s)
         /\ PagesIn(ToFront(s, k)) = PagesIn(s)
         /\ NoneTwice(s) => NoneTwice(ToFront(s, k))
<1> DEFINE w == ToFront(s, k)
<1>1. Len(s) \in Nat /\ \A i \in 1..Len(s) : s[i] \in S
  OBVIOUS
<1>2. w \in [1..Len(s) -> S]
  BY <1>1 DEF ToFront
<1>3. w \in Seq(S) /\ Len(w) = Len(s)
  BY <1>1, <1>2
<1>4. \A i \in 1..Len(s) : w[i] = IF i = 1 THEN s[k] ELSE IF i <= k THEN s[i - 1] ELSE s[i]
  BY DEF ToFront
<1> HIDE DEF w
<1>5. ASSUME NEW i \in 1..Len(s) PROVE \E j \in 1..Len(s) : w[j] = s[i]
  <2>1. CASE i = k
    BY <2>1, <1>1, <1>4
  <2>2. CASE i < k
    <3>1. i + 1 \in 1..Len(s) /\ i + 1 # 1 /\ i + 1 <= k /\ (i + 1) - 1 = i
      BY <2>2, <1>1
    <3> QED
      BY <3>1, <1>4
  <2>3. CASE i > k
    BY <2>3, <1>1, <1>4
  <2> QED
    BY <2>1, <2>2, <2>3, <1>1
<1>6. ASSUME NEW i \in 1..Len(s) PROVE \E j \in 1..Len(s) : w[i] = s[j]
  BY <1>1, <1>4
<1>7. PagesIn(w) = PagesIn(s)
  <2>1. ASSUME NEW p \in PagesIn(w) PROVE p \in PagesIn(s)
    BY <2>1, <1>3, <1>6 DEF PagesIn
  <2>2. ASSUME NEW p \in PagesIn(s) PROVE p \in PagesIn(w)
    BY <2>2, <1>3, <1>5 DEF PagesIn
  <2> QED
    BY <2>1, <2>2
<1>8. NoneTwice(s) => NoneTwice(w)
  BY <1>1, <1>3, <1>4, SMTT(30) DEF NoneTwice
<1> QED
  BY <1>3, <1>7, <1>8 DEF w

\* A new element in front.
LEMMA ConsKeeps ==
  ASSUME NEW S, NEW s \in Seq(S), NEW x \in S
  PROVE  /\ <<x>> \o s \in Seq(S) /\ Len(<<x>> \o s) = Len(s) + 1
         /\ PagesIn(<<x>> \o s) = PagesIn(s) \cup {x}
         /\ NoneTwice(s) /\ x \notin PagesIn(s) => NoneTwice(<<x>> \o s)
<1> DEFINE w == <<x>> \o s
<1>1. w \in Seq(S) /\ Len(w) = Len(s) + 1 /\ Len(s) \in Nat
  OBVIOUS
<1>2. \A i \in 1..Len(w) : w[i] = IF i = 1 THEN x ELSE s[i - 1]
  OBVIOUS
<1> HIDE DEF w
<1>3. ASSUME NEW i \in 1..Len(s) PROVE \E j \in 1..Len(w) : w[j] = s[i]
  <2>1. i + 1 \in 1..Len(w) /\ i + 1 # 1 /\ (i + 1) - 1 = i
    BY <1>1
  <2> QED
    BY <2>1, <1>2
<1>4. ASSUME NEW i \in 1..Len(w), i # 1 PROVE i - 1 \in 1..Len(s) /\ w[i] = s[i - 1]
  BY <1>1, <1>2, <1>4
<1>5. 1 \in 1..Len(w) /\ w[1] = x
  BY <1>1, <1>2
<1>6. PagesIn(w) = PagesIn(s) \cup {x}
  <2>1. ASSUME NEW p \in PagesIn(w) PROVE p \in PagesIn(s) \cup {x}
    BY <2>1, <1>4, <1>5 DEF PagesIn
  <2>2. ASSUME NEW p \in PagesIn(s) \cup {x} PROVE p \in PagesIn(w)
    BY <2>2, <1>3, <1>5 DEF PagesIn
  <2> QED
    BY <2>1, <2>2
<1>7. ASSUME NoneTwice(s), x \notin PagesIn(s) PROVE NoneTwice(w)
  <2> SUFFICES ASSUME NEW i \in 1..Len(w), NEW j \in 1..Len(w), w[i] = w[j] PROVE i = j
    BY DEF NoneTwice
  <2> QED
    BY <1>1, <1>4, <1>5, <1>7, SMTT(30) DEF NoneTwice, PagesIn
<1> QED
  BY <1>1, <1>6, <1>7 DEF w

\* A list without one of its elements, which are different.
LEMMA WithoutAtKeeps ==
  ASSUME NEW S, NEW s \in Seq(S), NEW k \in 1..Len(s)
  PROVE  /\ WithoutAt(s, k) \in Seq(S) /\ Len(WithoutAt(s, k)) = Len(s) - 1
         /\ \A i \in 1..(Len(s) - 1) : WithoutAt(s, k)[i] = IF i < k THEN s[i] ELSE s[i + 1]
         /\ NoneTwice(s) => PagesIn(WithoutAt(s, k)) = PagesIn(s) \ {s[k]} /\ NoneTwice(WithoutAt(s, k))
<1> DEFINE w == WithoutAt(s, k)
<1>1. Len(s) \in Nat \ {0} /\ \A i \in 1..Len(s) : s[i] \in S
  OBVIOUS
<1>2. w \in [1..(Len(s) - 1) -> S]
  BY <1>1 DEF WithoutAt
<1>3. w \in Seq(S) /\ Len(w) = Len(s) - 1
  BY <1>1, <1>2
<1>4. \A i \in 1..(Len(s) - 1) : w[i] = IF i < k THEN s[i] ELSE s[i + 1]
  BY DEF WithoutAt
<1> HIDE DEF w
<1>5. ASSUME NEW i \in 1..Len(s), i # k PROVE \E j \in 1..Len(w) : w[j] = s[i]
  <2>1. CASE i < k
    BY <2>1, <1>1, <1>3, <1>4
  <2>2. CASE i > k
    <3>1. i - 1 \in 1..Len(w) /\ ~(i - 1 < k) /\ (i - 1) + 1 = i
      BY <2>2, <1>1, <1>3
    <3> QED
      BY <3>1, <1>3, <1>4
  <2> QED
    BY <2>1, <2>2, <1>1, <1>5
<1>6. ASSUME NEW i \in 1..Len(w) PROVE \E j \in 1..Len(s) : j # k /\ w[i] = s[j]
  <2>1. CASE i < k
    BY <2>1, <1>1, <1>3, <1>4
  <2>2. CASE ~(i < k)
    <3>1. i + 1 \in 1..Len(s) /\ i + 1 # k
      BY <2>2, <1>1, <1>3
    <3> QED
      BY <3>1, <2>2, <1>3, <1>4
  <2> QED
    BY <2>1, <2>2
<1>7. NoneTwice(s) => PagesIn(w) = PagesIn(s) \ {s[k]}
  BY <1>5, <1>6, SMTT(30) DEF PagesIn, NoneTwice
<1>8. NoneTwice(s) => NoneTwice(w)
  BY <1>1, <1>3, <1>4 DEF NoneTwice
<1> QED
  BY <1>3, <1>4, <1>7, <1>8 DEF w

\* A page is of a file and has between one byte and PageBytes.
LEMMA PageFacts ==
  ASSUME NEW p \in Pages
  PROVE  p[1] \in Files /\ KindOf[p[1]] \in Kinds /\ SizeOf(p) \in 1..PageBytes
<1>1. PICK f \in Files : p \in PagesOf(f)
  BY DEF Pages
<1>2. PICK i \in 0..FileSize[f] : i * PageBytes < FileSize[f] /\ p = <<f, i>>
  BY <1>1 DEF PagesOf
<1>3. FileSize[f] \in Nat /\ PageBytes \in Nat \ {0} /\ KindOf[f] \in Kinds
  BY CacheAssumption
<1>4. FileSize[f] - i * PageBytes \in Nat \ {0}
  BY <1>2, <1>3
<1> QED
  BY <1>2, <1>3, <1>4 DEF SizeOf

\* A list has finitely many pages.
LEMMA ListIsFinite ==
  ASSUME NEW S, NEW s \in Seq(S)
  PROVE  IsFiniteSet(PagesIn(s))
<1> DEFINE f == [i \in 1..Len(s) |-> s[i]]
<1>1. IsFiniteSet(1..Len(s))
  BY FS_Interval
<1>2. f \in Surjection(1..Len(s), PagesIn(s))
  BY DEF Surjection, PagesIn
<1> QED
  BY <1>1, <1>2, FS_Surjection

\* The bytes of finitely many pages are finite, and no more than PageBytes of
\* each page.
LEMMA BytesBounded ==
  ASSUME NEW S \in SUBSET Pages, IsFiniteSet(S)
  PROVE  IsFiniteSet(BytesOf(S)) /\ Cardinality(BytesOf(S)) <= Cardinality(S) * PageBytes
<1>1. PageBytes \in Nat \ {0}
  BY CacheAssumption
<1>2. IsFiniteSet(1..PageBytes) /\ Cardinality(1..PageBytes) = PageBytes
  <2>1. Cardinality(1..PageBytes) = IF 1 > PageBytes THEN 0 ELSE PageBytes - 1 + 1
    BY <1>1, FS_Interval
  <2>2. IsFiniteSet(1..PageBytes)
    BY <1>1, FS_Interval
  <2> QED
    BY <1>1, <2>1, <2>2
<1>3. IsFiniteSet(S \X (1..PageBytes)) /\ Cardinality(S \X (1..PageBytes)) = Cardinality(S) * PageBytes
  BY <1>2, FS_Product
<1>4. BytesOf(S) \subseteq S \X (1..PageBytes)
  <2> SUFFICES ASSUME NEW p \in S, NEW b \in 1..SizeOf(p) PROVE b \in 1..PageBytes
    BY DEF BytesOf
  <2> QED
    BY <1>1, PageFacts
<1> QED
  BY <1>3, <1>4, FS_Subset

\* One page more adds its size.
LEMMA BytesOfOneMore ==
  ASSUME NEW S \in SUBSET Pages, IsFiniteSet(S), NEW p \in Pages \ S
  PROVE  Cardinality(BytesOf(S \cup {p})) = Cardinality(BytesOf(S)) + SizeOf(p)
<1> DEFINE own == {p} \X (1..SizeOf(p))
<1>1. SizeOf(p) \in Nat \ {0}
  BY PageFacts, CacheAssumption
<1>2. IsFiniteSet(1..SizeOf(p)) /\ Cardinality(1..SizeOf(p)) = SizeOf(p)
  <2>1. Cardinality(1..SizeOf(p)) = IF 1 > SizeOf(p) THEN 0 ELSE SizeOf(p) - 1 + 1
    BY <1>1, FS_Interval
  <2>2. IsFiniteSet(1..SizeOf(p))
    BY <1>1, FS_Interval
  <2> QED
    BY <1>1, <2>1, <2>2
<1>3. IsFiniteSet({p}) /\ Cardinality({p}) = 1
  BY FS_Singleton
<1>4. IsFiniteSet(own) /\ Cardinality(own) = SizeOf(p)
  <2>1. IsFiniteSet(own) /\ Cardinality(own) = Cardinality({p}) * Cardinality(1..SizeOf(p))
    BY <1>2, <1>3, FS_Product
  <2> QED
    BY <2>1, <1>1, <1>2, <1>3
<1>5. IsFiniteSet(BytesOf(S))
  BY BytesBounded
<1>6. BytesOf(S) \cap own = {}
  BY DEF BytesOf
<1>7. BytesOf(S \cup {p}) = BytesOf(S) \cup own
  BY DEF BytesOf
<1>8. Cardinality(BytesOf(S \cup {p})) = Cardinality(BytesOf(S)) + Cardinality(own) - Cardinality(BytesOf(S) \cap own)
  BY <1>4, <1>5, <1>7, FS_Union
<1>9. Cardinality(BytesOf(S)) \in Nat
  BY <1>5, FS_CardinalityType
<1>10. Cardinality(BytesOf(S) \cap own) = 0
  BY <1>6, FS_EmptySet
<1> HIDE DEF own
<1> QED
  BY <1>1, <1>4, <1>8, <1>9, <1>10

\* One page less takes its size away.
LEMMA BytesOfOneLess ==
  ASSUME NEW S \in SUBSET Pages, IsFiniteSet(S), NEW p \in S
  PROVE  /\ Cardinality(BytesOf(S \ {p})) = Cardinality(BytesOf(S)) - SizeOf(p)
         /\ Cardinality(BytesOf(S \ {p})) \in Nat
<1>1. S \ {p} \in SUBSET Pages /\ p \in Pages \ (S \ {p}) /\ (S \ {p}) \cup {p} = S
  OBVIOUS
<1>2. IsFiniteSet(S \ {p})
  BY FS_RemoveElement
<1>3. Cardinality(BytesOf(S)) = Cardinality(BytesOf(S \ {p})) + SizeOf(p)
  BY <1>1, <1>2, BytesOfOneMore
<1>4. Cardinality(BytesOf(S \ {p})) \in Nat
  BY <1>2, BytesBounded, FS_CardinalityType
<1>5. SizeOf(p) \in Nat
  BY PageFacts, CacheAssumption
<1> QED
  BY <1>3, <1>4, <1>5

-----------------------------------------------------------------------------
(* What the steps that change the cache keep.                              *)

CacheTyped == lru \in Seq(Pages) /\ index \in SUBSET Pages /\ resident \in Nat /\ bytes \in [Kinds -> Nat]
CacheOK == CacheTyped /\ Books
RestTyped ==
  /\ status \in [Files -> {"new", "open", "gone"}]
  /\ lock \in [owner : Threads \cup {None}, drop : Files \cup {None}, at : Nat]
  /\ pc \in [Threads -> {"idle", "query", "copy", "unwind", "trim"}]
  /\ pins \in [Threads -> SUBSET Pages]
  /\ hand \in [Threads -> Pages \cup {None}]
  /\ left \in [Threads -> Seq(Pages)]

LEMMA IndexIsFinite == CacheOK => IsFiniteSet(index)
BY ListIsFinite DEF CacheOK, CacheTyped, Books, IndexMatchesList, PagesIn

LEMMA HitKeeps ==
  ASSUME CacheOK, NEW p \in index, GetHit(p)
  PROVE  CacheOK' /\ Len(lru') = Len(lru)
<1>1. PositionOf(p) \in 1..Len(lru)
  BY DEF PositionOf, CacheOK, Books, IndexMatchesList
<1>2. lru \in Seq(Pages) /\ PagesIn(lru) = index /\ NoneTwice(lru)
  BY DEF CacheOK, CacheTyped, Books, IndexMatchesList, PagesIn, NoneTwice
<1>3. lru' = ToFront(lru, PositionOf(p))
  BY DEF GetHit
<1> HIDE DEF ToFront, PositionOf
<1>4. lru' \in Seq(Pages) /\ Len(lru') = Len(lru) /\ PagesIn(lru') = index /\ NoneTwice(lru')
  BY <1>1, <1>2, <1>3, ToFrontKeeps
<1>5. IndexMatchesList'
  BY <1>4 DEF IndexMatchesList, PagesIn, NoneTwice, GetHit
<1>6. CacheTyped' /\ Accounting'
  BY <1>4 DEF GetHit, CacheOK, CacheTyped, Books, Accounting, CachedOf
<1> QED
  BY <1>4, <1>5, <1>6 DEF CacheOK, Books

LEMMA MissKeeps ==
  ASSUME CacheOK, NEW t \in Threads, NEW p \in Pages, GetMiss(t, p)
  PROVE  CacheOK' /\ Len(lru') = Len(lru) + 1
<1>1. lru \in Seq(Pages) /\ PagesIn(lru) = index /\ NoneTwice(lru) /\ p \notin index
  BY DEF CacheOK, CacheTyped, Books, IndexMatchesList, PagesIn, NoneTwice, GetMiss
<1>2. lru' = <<p>> \o lru /\ index' = index \cup {p} /\ resident' = resident + SizeOf(p)
  BY DEF GetMiss
<1>3. lru' \in Seq(Pages) /\ Len(lru') = Len(lru) + 1 /\ PagesIn(lru') = index \cup {p} /\ NoneTwice(lru')
  BY <1>1, <1>2, ConsKeeps
<1>4. IndexMatchesList'
  BY <1>2, <1>3 DEF IndexMatchesList, PagesIn, NoneTwice
<1>5. SizeOf(p) \in Nat /\ KindOf[p[1]] \in Kinds
  BY PageFacts, CacheAssumption
<1>6. bytes \in [Kinds -> Nat] /\ resident \in Nat /\ bytes' = [bytes EXCEPT ![KindOf[p[1]]] = @ + SizeOf(p)]
  BY DEF CacheOK, CacheTyped, GetMiss
<1>7. CacheTyped'
  BY <1>1, <1>2, <1>3, <1>5, <1>6 DEF CacheOK, CacheTyped
<1>8. resident' = Cardinality(BytesOf(index'))
  <2>1. Cardinality(BytesOf(index \cup {p})) = Cardinality(BytesOf(index)) + SizeOf(p)
    BY <1>1, IndexIsFinite, BytesOfOneMore DEF CacheOK, CacheTyped
  <2> QED
    BY <2>1, <1>2 DEF CacheOK, Books, Accounting
<1>9. ASSUME NEW k \in Kinds PROVE bytes'[k] = Cardinality(BytesOf({q \in index' : KindOf[q[1]] = k}))
  <2> DEFINE S == {q \in index : KindOf[q[1]] = k}
  <2>1. S \in SUBSET Pages /\ p \in Pages \ S
    BY <1>1 DEF CacheOK, CacheTyped
  <2>2. IsFiniteSet(S)
    BY IndexIsFinite, FS_Subset
  <2>3. bytes[k] = Cardinality(BytesOf(S))
    BY DEF CacheOK, Books, Accounting, CachedOf
  <2>4. CASE KindOf[p[1]] = k
    <3>1. {q \in index' : KindOf[q[1]] = k} = S \cup {p}
      BY <2>4, <1>2
    <3>2. Cardinality(BytesOf(S \cup {p})) = Cardinality(BytesOf(S)) + SizeOf(p)
      BY <2>1, <2>2, BytesOfOneMore
    <3>3. bytes'[k] = bytes[k] + SizeOf(p)
      BY <2>4, <1>6
    <3> QED
      BY <3>1, <3>2, <3>3, <2>3
  <2>5. CASE KindOf[p[1]] # k
    <3>1. {q \in index' : KindOf[q[1]] = k} = S
      BY <2>5, <1>2
    <3>2. bytes'[k] = bytes[k]
      BY <2>5, <1>6
    <3> QED
      BY <3>1, <3>2, <2>3
  <2> QED
    BY <2>4, <2>5
<1>10. Accounting'
  BY <1>8, <1>9 DEF Accounting, CachedOf
<1> QED
  BY <1>3, <1>4, <1>7, <1>10 DEF CacheOK, Books

LEMMA DropKeeps ==
  ASSUME CacheOK, NEW k \in 1..Len(lru), DropAt(k)
  PROVE  CacheOK' /\ Len(lru') = Len(lru) - 1 /\ lru[k] \in index /\ resident' <= resident
<1> DEFINE p == lru[k]
<1>1. lru \in Seq(Pages) /\ PagesIn(lru) = index /\ NoneTwice(lru) /\ p \in index /\ p \in Pages
  BY DEF CacheOK, CacheTyped, Books, IndexMatchesList, PagesIn, NoneTwice
<1>2. lru' = WithoutAt(lru, k) /\ index' = index \ {p} /\ resident' = resident - SizeOf(p)
  BY DEF DropAt
<1>3. bytes \in [Kinds -> Nat] /\ resident \in Nat /\ bytes' = [bytes EXCEPT ![KindOf[p[1]]] = @ - SizeOf(p)]
  BY DEF CacheOK, CacheTyped, DropAt
<1> HIDE DEF p, WithoutAt
<1>4. lru' \in Seq(Pages) /\ Len(lru') = Len(lru) - 1 /\ PagesIn(lru') = index \ {p} /\ NoneTwice(lru')
  BY <1>1, <1>2, WithoutAtKeeps DEF p
<1>5. IndexMatchesList'
  BY <1>2, <1>4 DEF IndexMatchesList, PagesIn, NoneTwice
<1>6. SizeOf(p) \in Nat /\ KindOf[p[1]] \in Kinds
  BY <1>1, PageFacts, CacheAssumption
<1>7. resident' = Cardinality(BytesOf(index')) /\ resident' \in Nat
  <2>1. /\ Cardinality(BytesOf(index \ {p})) = Cardinality(BytesOf(index)) - SizeOf(p)
        /\ Cardinality(BytesOf(index \ {p})) \in Nat
    BY <1>1, IndexIsFinite, BytesOfOneLess DEF CacheOK, CacheTyped
  <2> QED
    BY <2>1, <1>2 DEF CacheOK, Books, Accounting
<1>8. ASSUME NEW j \in Kinds
      PROVE  bytes'[j] = Cardinality(BytesOf({q \in index' : KindOf[q[1]] = j})) /\ bytes'[j] \in Nat
  <2> DEFINE S == {q \in index : KindOf[q[1]] = j}
  <2>1. S \in SUBSET Pages
    BY <1>1 DEF CacheOK, CacheTyped
  <2>2. IsFiniteSet(S)
    BY IndexIsFinite, FS_Subset
  <2>3. bytes[j] = Cardinality(BytesOf(S))
    BY DEF CacheOK, Books, Accounting, CachedOf
  <2>4. CASE KindOf[p[1]] = j
    <3>1. {q \in index' : KindOf[q[1]] = j} = S \ {p} /\ p \in S
      BY <2>4, <1>1, <1>2
    <3>2. /\ Cardinality(BytesOf(S \ {p})) = Cardinality(BytesOf(S)) - SizeOf(p)
          /\ Cardinality(BytesOf(S \ {p})) \in Nat
      BY <3>1, <2>1, <2>2, BytesOfOneLess
    <3>3. bytes'[j] = bytes[j] - SizeOf(p)
      BY <2>4, <1>3
    <3> QED
      BY <3>1, <3>2, <3>3, <2>3
  <2>5. CASE KindOf[p[1]] # j
    <3>1. {q \in index' : KindOf[q[1]] = j} = S
      BY <2>5, <1>2
    <3>2. bytes'[j] = bytes[j] /\ bytes[j] \in Nat
      BY <2>5, <1>3
    <3> QED
      BY <3>1, <3>2, <2>3
  <2> QED
    BY <2>4, <2>5
<1>9. bytes' \in [Kinds -> Nat]
  BY <1>3, <1>8
<1>10. CacheTyped'
  BY <1>1, <1>2, <1>4, <1>7, <1>9 DEF CacheOK, CacheTyped
<1>11. Accounting'
  BY <1>7, <1>8 DEF Accounting, CachedOf
<1> QED
  BY <1>1, <1>2, <1>3, <1>4, <1>5, <1>6, <1>10, <1>11 DEF CacheOK, Books, p

-----------------------------------------------------------------------------
(* Every step keeps the invariant.                                         *)

\* The invariant, before and after a step, in the parts the lemmas are about.
LEMMA Parts ==
  /\ IInv <=> /\ CacheOK /\ RestTyped /\ ForgottenIsGone /\ HeldPagesStayCached
              /\ PlacesFit /\ LoopPosition /\ PassedBehind /\ Excused
  /\ IInv' <=> /\ CacheOK' /\ RestTyped' /\ ForgottenIsGone' /\ HeldPagesStayCached'
               /\ PlacesFit' /\ LoopPosition' /\ PassedBehind' /\ Excused'
BY DEF TypeOK, CacheTyped, RestTyped, IInv, CacheOK

\* What only depends on the cache, the lock and the files.
LEMMA CacheStays ==
  ASSUME CacheOK, UNCHANGED cache PROVE CacheOK'
<1>1. CacheTyped'
  BY DEF CacheOK, CacheTyped, cache
<1>2. IndexMatchesList'
  BY DEF CacheOK, Books, IndexMatchesList, cache
<1>3. Accounting'
  BY DEF CacheOK, Books, Accounting, CachedOf, cache
<1> QED
  BY <1>1, <1>2, <1>3 DEF CacheOK, Books

\* A step that neither takes pages in hand nor touches cache and lock, and after
\* which somebody is still going to trim if somebody was.
LEMMA ExcusedStays ==
  ASSUME Excused, UNCHANGED <<cache, lock>>, PinsOrTrims => PinsOrTrims',
         \A t \in Threads : hand'[t] \in {hand[t], None}
  PROVE  Excused'
<1>1. CASE PinsOrTrims
  BY <1>1 DEF Excused
<1>2. CASE ~PinsOrTrims /\ InTrim
  <2> DEFINE S == {lru[i] : i \in lock.at..Len(lru)}
  <2>1. PICK e \in [Threads -> Pages \cup {None}] :
          /\ S \subseteq {e[t] : t \in Threads}
          /\ \A t \in Threads : hand[t] # None => e[t] = hand[t]
    BY <1>2 DEF Excused, OneInHand
  <2>2. \A t \in Threads : hand'[t] # None => e[t] = hand'[t]
    BY <2>1
  <2>3. S' = S /\ InTrim'
    BY <1>2 DEF cache, InTrim
  <2> HIDE DEF S
  <2>4. OneInHand(S)'
    BY <2>1, <2>2, <2>3 DEF OneInHand
  <2> QED
    BY <2>3, <2>4 DEF Excused, S
<1>3. CASE ~PinsOrTrims /\ ~InTrim
  <2>1. resident' = resident /\ index' = index /\ ~InTrim'
    BY <1>3 DEF cache, InTrim
  <2> QED
    BY <1>3, <2>1 DEF Excused, OnePerThread
<1> QED
  BY <1>1, <1>2, <1>3

LEMMA Initially == Init => IInv
<1> SUFFICES ASSUME Init PROVE IInv
  OBVIOUS
<1> USE DEF Init
<1>1. CacheTyped /\ RestTyped /\ IndexMatchesList
  BY DEF CacheTyped, RestTyped, IndexMatchesList, Unlocked
<1>2. Accounting
  <2>1. BytesOf({}) = {} /\ \A k \in Kinds : CachedOf(k) = {}
    BY DEF BytesOf, CachedOf
  <2> QED
    BY <2>1, FS_EmptySet DEF Accounting
<1>3. ForgottenIsGone /\ HeldPagesStayCached /\ PlacesFit /\ LoopPosition /\ PassedBehind
  BY DEF ForgottenIsGone, HeldPagesStayCached, PlacesFit, LoopPosition, PassedBehind, InTrim, Unlocked
<1>4. Excused
  BY CacheAssumption DEF Excused, InTrim, Unlocked
<1> QED
  BY <1>1, <1>2, <1>3, <1>4, Parts DEF CacheOK, Books

\* What get keeps, and where it leaves the loop.
LEMMA GetKeeps ==
  ASSUME IInv, NEW t \in Threads, NEW p \in Pages, status[p[1]] = "open",
         GetHit(p) \/ GetMiss(t, p), UNCHANGED status
  PROVE  /\ CacheOK' /\ ForgottenIsGone' /\ index \subseteq index' /\ p \in index'
         /\ lock' \in [owner : Threads \cup {None}, drop : Files \cup {None}, at : Nat]
         /\ LoopPosition' /\ PassedBehind'
         /\ \/ lock' = Unlocked /\ index' = index /\ resident' = resident
            \/ InTrim' /\ {lru'[i] : i \in lock'.at..Len(lru')} = {}
<1>1. CacheOK /\ ForgottenIsGone /\ LoopPosition /\ None \notin Threads /\ None \notin Files
  BY Parts, CacheAssumption
<1>2. CASE GetHit(p)
  <2>1. CacheOK' /\ p \in index
    BY <1>1, <1>2, HitKeeps DEF GetHit
  <2>2. lock' = Unlocked /\ index' = index /\ resident' = resident
    BY <1>2 DEF GetHit, Free
  <2> QED
    BY <1>1, <1>2, <2>1, <2>2
       DEF ForgottenIsGone, LoopPosition, PassedBehind, InTrim, Unlocked, GetHit, Free
<1>3. CASE GetMiss(t, p)
  <2>1. CacheOK' /\ Len(lru') = Len(lru) + 1
    BY <1>1, <1>3, MissKeeps
  <2>2. lock' = [owner |-> t, drop |-> None, at |-> Len(lru) + 2] /\ index' = index \cup {p} /\ lock = Unlocked
    BY <1>3 DEF GetMiss, Trimming, Free
  <2>3. Len(lru) \in Nat
    BY <1>1 DEF CacheOK, CacheTyped
  <2>4. ForgottenIsGone'
    BY <1>1, <2>2 DEF ForgottenIsGone, Unlocked
  <2>5. LoopPosition' /\ PassedBehind'
    BY <1>1, <2>1, <2>2, <2>3 DEF LoopPosition, PassedBehind, InTrim
  <2>6. InTrim' /\ {lru'[i] : i \in lock'.at..Len(lru')} = {}
    BY <1>1, <2>1, <2>2, <2>3 DEF InTrim
  <2> QED
    BY <2>1, <2>2, <2>3, <2>4, <2>5, <2>6
<1> QED
  BY <1>2, <1>3

LEMMA PinKeeps ==
  ASSUME IInv, NEW t \in Threads, NEW p \in Pages, Pin(t, p) PROVE IInv'
<1>1. /\ RestTyped /\ HeldPagesStayCached /\ PlacesFit
      /\ pins' = [pins EXCEPT ![t] = @ \cup {p}] /\ UNCHANGED <<status, pc, hand, left>> /\ pc[t] = "query"
  BY Parts DEF Pin
<1>2. /\ CacheOK' /\ ForgottenIsGone' /\ index \subseteq index' /\ p \in index'
      /\ lock' \in [owner : Threads \cup {None}, drop : Files \cup {None}, at : Nat]
      /\ LoopPosition' /\ PassedBehind'
  BY GetKeeps DEF Pin
<1>3. RestTyped' /\ PlacesFit' /\ HeldPagesStayCached'
  BY <1>1, <1>2 DEF RestTyped, PlacesFit, HeldPagesStayCached
<1>4. PinsOrTrims'
  BY <1>1 DEF PinsOrTrims, RestTyped
<1> QED
  BY <1>2, <1>3, <1>4, Parts DEF Excused

LEMMA CopyGetKeeps ==
  ASSUME IInv, NEW t \in Threads, CopyGet(t) PROVE IInv'
<1> DEFINE p == Head(left[t])
<1>1. /\ RestTyped /\ HeldPagesStayCached /\ PlacesFit /\ LoopPosition /\ Excused
      /\ hand' = [hand EXCEPT ![t] = p] /\ left' = [left EXCEPT ![t] = Tail(@)]
      /\ UNCHANGED <<status, pc, pins>> /\ pc[t] = "copy" /\ hand[t] = None /\ left[t] # <<>>
  BY Parts DEF CopyGet
<1>2. left[t] \in Seq(Pages) /\ Tail(left[t]) \in Seq(Pages) /\ p \in Pages /\ p = left[t][1] /\ 1 \in 1..Len(left[t])
  BY <1>1 DEF RestTyped
<1>3. /\ Len(Tail(left[t])) = Len(left[t]) - 1 /\ Len(left[t]) \in Nat \ {0}
      /\ \A i \in 1..Len(Tail(left[t])) : Tail(left[t])[i] = left[t][i + 1]
  BY <1>2
<1>4. status[p[1]] = "open" /\ (GetHit(p) \/ GetMiss(t, p)) /\ UNCHANGED status
  BY <1>1, <1>2 DEF PlacesFit, CopyGet
<1> HIDE DEF p
<1>5. /\ CacheOK' /\ ForgottenIsGone' /\ index \subseteq index' /\ p \in index'
      /\ lock' \in [owner : Threads \cup {None}, drop : Files \cup {None}, at : Nat]
      /\ LoopPosition' /\ PassedBehind'
      /\ \/ lock' = Unlocked /\ index' = index /\ resident' = resident
         \/ InTrim' /\ {lru'[i] : i \in lock'.at..Len(lru')} = {}
  BY <1>2, <1>4, GetKeeps
<1>6. RestTyped' /\ HeldPagesStayCached'
  BY <1>1, <1>2, <1>5 DEF RestTyped, HeldPagesStayCached
<1>7. PlacesFit'
  BY <1>1, <1>2, <1>3 DEF PlacesFit, RestTyped
<1>8. Excused'
  <2>1. CASE lock' = Unlocked /\ index' = index /\ resident' = resident
    <3>1. ~InTrim /\ ~InTrim'
      BY <2>1, <1>4 DEF GetHit, GetMiss, Free, InTrim, Unlocked
    <3> QED
      BY <3>1, <2>1, <1>1 DEF Excused, PinsOrTrims, OnePerThread
  <2>2. CASE InTrim' /\ {lru'[i] : i \in lock'.at..Len(lru')} = {}
    BY <2>2, <1>6 DEF Excused, OneInHand, RestTyped
  <2> QED
    BY <2>1, <2>2, <1>5
<1> QED
  BY <1>5, <1>6, <1>7, <1>8, Parts

\* A read that fails: get has changed nothing, and the loops do not run.
LEMMA ThrowKeeps ==
  ASSUME IInv, NEW t \in Threads, (\E p \in Pages : PinThrows(t, p)) \/ CopyThrows(t) PROVE IInv'
<1>1. /\ CacheOK /\ RestTyped /\ ForgottenIsGone /\ HeldPagesStayCached /\ PlacesFit /\ Excused
      /\ UNCHANGED <<status, cache, lock, pins, hand>> /\ lock = Unlocked
      /\ pc[t] \in {"query", "copy"} /\ hand[t] = None
      /\ pc' = [pc EXCEPT ![t] = "unwind"]
      /\ left' = [left EXCEPT ![t] = <<>>]
  BY Parts DEF PinThrows, CopyThrows, GetThrows, Free, PlacesFit, RestTyped
<1>2. CacheOK'
  BY <1>1, CacheStays
<1>3. RestTyped' /\ ForgottenIsGone' /\ HeldPagesStayCached'
  BY <1>1 DEF RestTyped, cache, ForgottenIsGone, HeldPagesStayCached
<1>4. PlacesFit' /\ LoopPosition' /\ PassedBehind'
  BY <1>1, CacheAssumption DEF PlacesFit, RestTyped, LoopPosition, PassedBehind, InTrim, Unlocked, cache
<1>5. Excused'
  <2>1. PinsOrTrims => PinsOrTrims'
    BY <1>1 DEF PinsOrTrims, RestTyped
  <2>2. \A u \in Threads : hand'[u] \in {hand[u], None}
    BY <1>1 DEF RestTyped
  <2> QED
    BY <1>1, <2>1, <2>2, ExcusedStays
<1> QED
  BY <1>2, <1>3, <1>4, <1>5, Parts

LEMMA BeginQueryKeeps ==
  ASSUME IInv, NEW t \in Threads, BeginQuery(t) PROVE IInv'
<1>1. /\ CacheOK /\ RestTyped /\ ForgottenIsGone /\ HeldPagesStayCached
      /\ PlacesFit /\ LoopPosition /\ PassedBehind /\ Excused
      /\ UNCHANGED <<status, cache, lock, pins, hand, left>>
      /\ pc[t] = "idle" /\ pc' = [pc EXCEPT ![t] = "query"]
  BY Parts DEF BeginQuery
<1>2. CacheOK'
  BY <1>1, CacheStays
<1>3. RestTyped' /\ ForgottenIsGone' /\ HeldPagesStayCached'
  BY <1>1 DEF RestTyped, cache, ForgottenIsGone, HeldPagesStayCached
<1>4. PlacesFit' /\ LoopPosition'
  BY <1>1 DEF PlacesFit, RestTyped, LoopPosition, cache
<1>5. PassedBehind'
  BY <1>1 DEF PassedBehind, InTrim, Held, RestTyped, cache
<1>6. Excused'
  <2>1. PinsOrTrims => PinsOrTrims'
    BY <1>1 DEF PinsOrTrims, RestTyped
  <2>2. \A u \in Threads : hand'[u] \in {hand[u], None}
    BY <1>1 DEF RestTyped
  <2> QED
    BY <1>1, <2>1, <2>2, ExcusedStays
<1> QED
  BY <1>2, <1>3, <1>4, <1>5, <1>6, Parts

LEMMA ProductsGrow ==
  ASSUME NEW i \in Nat, NEW j \in Nat, NEW n \in Nat, i <= j PROVE i * n <= j * n
<1>1. j - i \in Nat /\ (j - i) * n \in Nat
  OBVIOUS
<1>2. j * n = i * n + (j - i) * n
  OBVIOUS
<1>3. i * n \in Nat
  OBVIOUS
<1> QED
  BY <1>1, <1>2, <1>3

LEMMA BeginCopyKeeps ==
  ASSUME IInv, NEW t \in Threads, NEW f \in Files, NEW a \in 0..FileSize[f], NEW b \in 0..FileSize[f],
         BeginCopy(t, f, a, b)
  PROVE  IInv'
<1> DEFINE s == [i \in 1..(b - a + 1) |-> <<f, a + i - 1>>]
<1>1. /\ CacheOK /\ RestTyped /\ ForgottenIsGone /\ HeldPagesStayCached
      /\ PlacesFit /\ LoopPosition /\ PassedBehind /\ Excused
      /\ UNCHANGED <<status, cache, lock, pins, hand>>
      /\ pc[t] = "query" /\ pc' = [pc EXCEPT ![t] = "copy"]
      /\ left' = [left EXCEPT ![t] = s] /\ status[f] = "open" /\ a <= b /\ <<f, b>> \in PagesOf(f)
  BY Parts DEF BeginCopy
<1>2. FileSize[f] \in Nat /\ PageBytes \in Nat /\ a \in Nat /\ b \in Nat /\ b * PageBytes < FileSize[f]
  BY <1>1, CacheAssumption DEF PagesOf
<1>3. ASSUME NEW i \in 1..(b - a + 1) PROVE <<f, a + i - 1>> \in Pages
  <2>1. a + i - 1 \in 0..FileSize[f] /\ a + i - 1 \in Nat /\ a + i - 1 <= b
    BY <1>2
  <2>2. (a + i - 1) * PageBytes <= b * PageBytes
    BY <2>1, <1>2, ProductsGrow
  <2>3. (a + i - 1) * PageBytes < FileSize[f]
    BY <2>1, <2>2, <1>2
  <2> QED
    BY <2>1, <2>3 DEF Pages, PagesOf
<1>4. s \in Seq(Pages) /\ Len(s) = b - a + 1 /\ \A i \in 1..Len(s) : s[i][1] = f
  <2>1. b - a + 1 \in Nat
    BY <1>1, <1>2
  <2>2. s \in [1..(b - a + 1) -> Pages]
    BY <1>3
  <2> QED
    BY <2>1, <2>2
<1> HIDE DEF s
<1>5. CacheOK'
  BY <1>1, CacheStays
<1>6. RestTyped' /\ ForgottenIsGone' /\ HeldPagesStayCached'
  BY <1>1, <1>4 DEF RestTyped, cache, ForgottenIsGone, HeldPagesStayCached
<1>7. PlacesFit' /\ LoopPosition'
  BY <1>1, <1>4 DEF PlacesFit, RestTyped, LoopPosition, cache
<1>8. PassedBehind'
  BY <1>1 DEF PassedBehind, InTrim, Held, RestTyped, cache
<1>9. Excused'
  <2>1. PinsOrTrims => PinsOrTrims'
    BY <1>1 DEF PinsOrTrims, RestTyped
  <2>2. \A u \in Threads : hand'[u] \in {hand[u], None}
    BY <1>1 DEF RestTyped
  <2> QED
    BY <1>1, <2>1, <2>2, ExcusedStays
<1> QED
  BY <1>5, <1>6, <1>7, <1>8, <1>9, Parts

\* A page leaves a hand while a loop may run: the thread still excuses it.
LEMMA CopyReleaseKeeps ==
  ASSUME IInv, NEW t \in Threads, CopyRelease(t) PROVE IInv'
<1>1. /\ CacheOK /\ RestTyped /\ ForgottenIsGone /\ HeldPagesStayCached
      /\ PlacesFit /\ LoopPosition /\ PassedBehind /\ Excused
      /\ UNCHANGED <<status, cache, lock, pins, pc, left>>
      /\ lock.owner # t /\ hand[t] # None /\ pc[t] = "copy" /\ hand' = [hand EXCEPT ![t] = None]
  BY Parts DEF CopyRelease, Running, PlacesFit
<1>2. CacheOK'
  BY <1>1, CacheStays
<1>3. RestTyped' /\ ForgottenIsGone' /\ HeldPagesStayCached'
  BY <1>1 DEF RestTyped, cache, ForgottenIsGone, HeldPagesStayCached
<1>4. PlacesFit' /\ LoopPosition'
  BY <1>1 DEF PlacesFit, RestTyped, LoopPosition, cache
<1>5. PassedBehind'
  BY <1>1 DEF PassedBehind, InTrim, cache, Held, RestTyped
<1>6. Excused'
  <2>1. PinsOrTrims => PinsOrTrims'
    BY <1>1 DEF PinsOrTrims, RestTyped
  <2>2. \A u \in Threads : hand'[u] \in {hand[u], None}
    BY <1>1 DEF RestTyped
  <2> QED
    BY <1>1, <2>1, <2>2, ExcusedStays
<1> QED
  BY <1>2, <1>3, <1>4, <1>5, <1>6, Parts

LEMMA EndQueryKeeps ==
  ASSUME IInv, NEW t \in Threads, EndQuery(t) PROVE IInv'
<1>1. /\ CacheOK /\ RestTyped /\ ForgottenIsGone /\ HeldPagesStayCached
      /\ PlacesFit /\ LoopPosition /\ PassedBehind /\ Excused
      /\ UNCHANGED <<status, cache, lock, hand, left>>
      /\ lock.owner # t /\ pc[t] \in {"query", "unwind"}
      /\ pins' = [pins EXCEPT ![t] = {}]
      /\ pc' = [pc EXCEPT ![t] = IF pins[t] = {} THEN "idle" ELSE "trim"]
  BY Parts DEF EndQuery, Running
<1>2. CacheOK'
  BY <1>1, CacheStays
<1>3. RestTyped' /\ ForgottenIsGone' /\ HeldPagesStayCached'
  BY <1>1 DEF RestTyped, cache, ForgottenIsGone, HeldPagesStayCached
<1>4. PlacesFit' /\ LoopPosition'
  BY <1>1 DEF PlacesFit, RestTyped, LoopPosition, cache
<1>5. PassedBehind'
  <2>1. CASE pins[t] = {}
    <3>1. pins' = pins /\ \A u \in Threads : pc[u] \in {"copy", "trim"} => pc'[u] \in {"copy", "trim"}
      BY <1>1, <2>1 DEF RestTyped
    <3> QED
      BY <1>1, <3>1 DEF PassedBehind, InTrim, Held, cache
  <2>2. CASE pins[t] # {}
    <3>1. t \in Threads \ {lock'.owner} /\ pc'[t] = "trim"
      BY <1>1, <2>2 DEF RestTyped
    <3> QED
      BY <3>1 DEF PassedBehind
  <2> QED
    BY <2>1, <2>2
<1>6. Excused'
  <2>1. PinsOrTrims => PinsOrTrims'
    BY <1>1 DEF PinsOrTrims, RestTyped
  <2>2. \A u \in Threads : hand'[u] \in {hand[u], None}
    BY <1>1
  <2> QED
    BY <1>1, <2>1, <2>2, ExcusedStays
<1> QED
  BY <1>2, <1>3, <1>4, <1>5, <1>6, Parts

\* copy and the end of a query take the lock and trim from the end of the list.
LEMMA BeginTrimKeeps ==
  ASSUME IInv, NEW t \in Threads, CopyTrim(t) \/ EndTrim(t) PROVE IInv'
<1>1. /\ CacheOK /\ RestTyped /\ ForgottenIsGone /\ HeldPagesStayCached /\ PlacesFit
      /\ UNCHANGED <<status, cache, pins, hand, left>> /\ lock = Unlocked
      /\ lock' = [owner |-> t, drop |-> None, at |-> Len(lru) + 1]
      /\ \/ pc[t] = "copy" /\ hand[t] = None /\ left[t] = <<>> /\ pc' = [pc EXCEPT ![t] = "query"]
         \/ pc[t] = "trim" /\ pc' = [pc EXCEPT ![t] = "idle"]
  BY Parts DEF CopyTrim, EndTrim, Free, Trimming
<1>2. CacheOK' /\ lru' = lru /\ Len(lru) \in Nat /\ None \notin Threads
  BY <1>1, CacheStays, CacheAssumption DEF cache, CacheOK, CacheTyped
<1>3. RestTyped' /\ ForgottenIsGone' /\ HeldPagesStayCached'
  <2>1. RestTyped'
    <3>1. lock' \in [owner : Threads \cup {None}, drop : Files \cup {None}, at : Nat]
      BY <1>1, <1>2
    <3>2. pc' \in [Threads -> {"idle", "query", "copy", "unwind", "trim"}]
      BY <1>1 DEF RestTyped
    <3> QED
      BY <1>1, <3>1, <3>2 DEF RestTyped
  <2>2. ForgottenIsGone' /\ HeldPagesStayCached'
    BY <1>1 DEF cache, ForgottenIsGone, HeldPagesStayCached, Unlocked
  <2> QED
    BY <2>1, <2>2
<1>4. PlacesFit'
  BY <1>1 DEF PlacesFit, RestTyped
<1>5. InTrim' /\ LoopPosition' /\ {lru'[i] : i \in lock'.at..Len(lru')} = {}
  BY <1>1, <1>2 DEF LoopPosition, InTrim
<1>6. PassedBehind'
  BY <1>1, <1>2 DEF PassedBehind
<1>7. Excused'
  BY <1>3, <1>5 DEF Excused, OneInHand, RestTyped
<1> QED
  BY <1>2, <1>3, <1>4, <1>5, <1>6, <1>7, Parts

LEMMA OpenFileKeeps ==
  ASSUME IInv, NEW f \in Files, OpenFile(f) PROVE IInv'
<1>1. /\ CacheOK /\ RestTyped /\ ForgottenIsGone /\ HeldPagesStayCached /\ PlacesFit /\ Excused
      /\ UNCHANGED <<cache, lock, pc, pins, hand, left>> /\ lock = Unlocked
      /\ \A t \in Threads : pc[t] = "idle"
      /\ status' = [status EXCEPT ![f] = "open"]
  BY Parts DEF OpenFile, Quiet, Free
<1>2. CacheOK'
  BY <1>1, CacheStays
<1>3. RestTyped' /\ HeldPagesStayCached'
  BY <1>1 DEF RestTyped, cache, HeldPagesStayCached
<1>4. ForgottenIsGone'
  BY <1>1, PageFacts DEF ForgottenIsGone, RestTyped, cache, CacheOK, CacheTyped
<1>5. PlacesFit' /\ LoopPosition' /\ PassedBehind'
  BY <1>1, CacheAssumption DEF PlacesFit, LoopPosition, PassedBehind, InTrim, Unlocked
<1>6. Excused'
  BY <1>1, ExcusedStays DEF PinsOrTrims
<1> QED
  BY <1>2, <1>3, <1>4, <1>5, <1>6, Parts

LEMMA CloseFileKeeps ==
  ASSUME IInv, NEW t \in Threads, NEW f \in Files, CloseFile(t, f) PROVE IInv'
<1>1. /\ CacheOK /\ RestTyped /\ ForgottenIsGone /\ HeldPagesStayCached /\ PlacesFit /\ Excused
      /\ UNCHANGED <<cache, pc, pins, hand, left>> /\ lock = Unlocked
      /\ \A u \in Threads : pc[u] = "idle"
      /\ status' = [status EXCEPT ![f] = "gone"]
      /\ lock' = [owner |-> t, drop |-> f, at |-> 1]
  BY Parts DEF CloseFile, Quiet, Free
<1>2. CacheOK'
  BY <1>1, CacheStays
<1>3. RestTyped' /\ HeldPagesStayCached'
  BY <1>1 DEF RestTyped, cache, HeldPagesStayCached
<1>4. \A p \in index : p[1] \in Files /\ p[1] # None
  BY <1>1, PageFacts, CacheAssumption DEF CacheOK, CacheTyped
<1>5. ForgottenIsGone'
  BY <1>1, <1>4 DEF ForgottenIsGone, RestTyped, cache, Unlocked
<1>6. \A u \in Threads : pins[u] = {} /\ hand[u] = None /\ left[u] = <<>>
  BY <1>1 DEF PlacesFit
<1>7. PlacesFit'
  BY <1>1, <1>6 DEF PlacesFit
<1>8. LoopPosition' /\ PassedBehind' /\ ~InTrim' /\ ~InTrim
  BY <1>1, <1>6, CacheAssumption DEF LoopPosition, PassedBehind, InTrim, Unlocked, cache, CacheOK, CacheTyped, RestTyped
<1>9. Excused'
  BY <1>1, <1>8 DEF Excused, PinsOrTrims, OnePerThread, cache
<1> QED
  BY <1>2, <1>3, <1>5, <1>7, <1>8, <1>9, Parts

-----------------------------------------------------------------------------
(* The loops.                                                              *)

\* What every iteration leaves alone.
LEMMA SweepFacts ==
  ASSUME IInv, Sweep
  PROVE  /\ CacheOK /\ RestTyped /\ ForgottenIsGone /\ HeldPagesStayCached
         /\ PlacesFit /\ LoopPosition /\ PassedBehind /\ Excused
         /\ UNCHANGED <<status, pc, pins, hand, left>>
         /\ lru \in Seq(Pages) /\ Len(lru) \in Nat /\ None \notin Threads /\ None \notin Files
         /\ index = {lru[i] : i \in 1..Len(lru)}
BY Parts, CacheAssumption DEF Sweep, CacheOK, CacheTyped, Books, IndexMatchesList

\* A held page is passed.
LEMMA TrimSkipKeeps ==
  ASSUME IInv, Sweep, TrimSkip PROVE IInv'
<1> DEFINE k == lock.at - 1
<1>1. /\ InTrim /\ lock.at \in 1..(Len(lru) + 1) /\ k \in 1..Len(lru) /\ Held(lru[k])
      /\ UNCHANGED cache /\ lock' = [lock EXCEPT !.at = k]
  BY SweepFacts DEF TrimSkip, TrimGoesOn, InTrim, LoopPosition
<1>2. lock'.at = k /\ lock'.owner = lock.owner /\ lock'.drop = None /\ InTrim'
  BY <1>1, SweepFacts DEF RestTyped, InTrim
<1>3. CacheOK' /\ RestTyped' /\ ForgottenIsGone' /\ HeldPagesStayCached' /\ PlacesFit'
  <2>1. CacheOK'
    BY <1>1, SweepFacts, CacheStays
  <2>2. RestTyped' /\ PlacesFit'
    BY <1>1, SweepFacts, SMTT(30) DEF RestTyped, PlacesFit
  <2>3. ForgottenIsGone' /\ HeldPagesStayCached'
    BY <1>1, <1>2, SweepFacts DEF ForgottenIsGone, HeldPagesStayCached, cache, InTrim
  <2> QED
    BY <2>1, <2>2, <2>3
<1>4. LoopPosition'
  BY <1>1, <1>2, SweepFacts DEF LoopPosition, InTrim, cache
<1>5. \A i \in k..Len(lru) : i = k \/ i \in lock.at..Len(lru)
  BY <1>1, SweepFacts
<1>6. PassedBehind'
  BY <1>1, <1>2, <1>5, SweepFacts DEF PassedBehind, InTrim, Held, cache
<1>7. ASSUME ~PinsOrTrims PROVE OneInHand({lru[i] : i \in k..Len(lru)})
  <2>1. PICK e \in [Threads -> Pages \cup {None}] :
          /\ {lru[i] : i \in lock.at..Len(lru)} \subseteq {e[t] : t \in Threads}
          /\ \A t \in Threads : hand[t] # None => e[t] = hand[t]
    BY <1>1, <1>7, SweepFacts DEF Excused, OneInHand
  <2>2. PICK t \in Threads : hand[t] = lru[k]
    BY <1>1, <1>7 DEF Held, PinsOrTrims
  <2>3. lru[k] # None
    BY <1>1, SweepFacts, NoneIsNoPage
  <2>4. lru[k] \in {e[u] : u \in Threads}
    BY <2>1, <2>2, <2>3
  <2>5. {lru[i] : i \in k..Len(lru)} \subseteq {e[u] : u \in Threads}
    BY <1>5, <2>1, <2>4
  <2> QED
    BY <2>1, <2>5 DEF OneInHand
<1> HIDE DEF k
<1>8. ~PinsOrTrims' => OneInHand({lru[i] : i \in lock.at..Len(lru)})'
  <2>1. ~PinsOrTrims' => ~PinsOrTrims
    BY SweepFacts DEF PinsOrTrims
  <2>2. {lru[i] : i \in lock.at..Len(lru)}' = {lru[i] : i \in k..Len(lru)} /\ hand' = hand
    BY <1>1, <1>2, SweepFacts DEF cache
  <2> QED
    BY <2>1, <2>2, <1>7 DEF OneInHand
<1>9. Excused'
  BY <1>2, <1>8 DEF Excused
<1> QED
  BY <1>3, <1>4, <1>6, <1>9, Parts

\* A page nobody holds goes; those behind it stay behind the loop.
LEMMA TrimDropKeeps ==
  ASSUME IInv, Sweep, TrimDrop PROVE IInv'
<1> DEFINE k == lock.at - 1
<1>1. /\ InTrim /\ lock.at \in 1..(Len(lru) + 1) /\ k \in 1..Len(lru) /\ ~Held(lru[k])
      /\ DropAt(k) /\ lock' = [lock EXCEPT !.at = k]
  BY SweepFacts DEF TrimDrop, TrimGoesOn, InTrim, LoopPosition
<1>2. lock'.at = k /\ lock'.owner = lock.owner /\ lock'.drop = None /\ InTrim'
  BY <1>1, SweepFacts DEF RestTyped, InTrim
<1> HIDE DEF k
<1>3. CacheOK' /\ Len(lru') = Len(lru) - 1 /\ index' = index \ {lru[k]}
  BY <1>1, SweepFacts, DropKeeps DEF DropAt
<1>4. RestTyped' /\ PlacesFit'
  <2>1. k \in Nat
    BY <1>1, SweepFacts
  <2>2. lock' \in [owner : Threads \cup {None}, drop : Files \cup {None}, at : Nat]
    BY <2>1, <1>1, SweepFacts DEF RestTyped
  <2>3. RestTyped'
    BY <2>2, SweepFacts DEF RestTyped
  <2> QED
    BY <2>3, SweepFacts DEF PlacesFit
<1>5. ForgottenIsGone'
  BY <1>1, <1>2, <1>3, SweepFacts DEF ForgottenIsGone, InTrim
<1>6. HeldPagesStayCached'
  <2> SUFFICES ASSUME NEW t \in Threads
               PROVE  pins[t] \subseteq index \ {lru[k]} /\ (hand[t] # None => hand[t] \in index \ {lru[k]})
    BY <1>3, SweepFacts DEF HeldPagesStayCached
  <2> QED
    BY <1>1, SweepFacts DEF HeldPagesStayCached, Held
<1>7. LoopPosition'
  BY <1>1, <1>2, <1>3, SweepFacts DEF LoopPosition, InTrim
<1>8. ASSUME NEW i \in k..Len(lru')
      PROVE  i + 1 \in lock.at..Len(lru) /\ lru'[i] = lru[i + 1]
  <2>1. lru' = WithoutAt(lru, k) /\ i \in 1..(Len(lru) - 1) /\ ~(i < k)
    BY <1>1, <1>3, SweepFacts DEF DropAt
  <2>2. lru'[i] = lru[i + 1]
    BY <2>1, <1>1, SweepFacts, WithoutAtKeeps
  <2> QED
    BY <2>2, <1>1, <1>3, SweepFacts DEF k
<1>9. PassedBehind'
  BY <1>1, <1>2, <1>8, SweepFacts DEF PassedBehind, Held
<1>10. Excused'
  <2>1. PinsOrTrims' <=> PinsOrTrims
    BY SweepFacts DEF PinsOrTrims
  <2>2. {lru[i] : i \in lock.at..Len(lru)}' \subseteq {lru[i] : i \in lock.at..Len(lru)}
    BY <1>2, <1>8
  <2>3. ASSUME ~PinsOrTrims PROVE OneInHand({lru[i] : i \in lock.at..Len(lru)})'
    <3>1. OneInHand({lru[i] : i \in lock.at..Len(lru)})
      BY <2>3, <1>1, SweepFacts DEF Excused
    <3> QED
      BY <2>2, <3>1, SweepFacts DEF OneInHand
  <2> QED
    BY <2>1, <2>3, <1>2 DEF Excused
<1> QED
  BY <1>3, <1>4, <1>5, <1>6, <1>7, <1>9, <1>10, Parts

LEMMA ForgetDropKeeps ==
  ASSUME IInv, Sweep, ForgetDrop PROVE IInv'
<1> DEFINE k == lock.at
<1>1. /\ ~InTrim /\ lock.drop # None /\ k \in 1..Len(lru) /\ DropAt(k) /\ UNCHANGED lock
      /\ status[lock.drop] = "gone" /\ \A t \in Threads : pins[t] = {} /\ hand[t] = None
      /\ \A i \in 1..(k - 1) : lru[i][1] # lock.drop
  BY SweepFacts DEF ForgetDrop, ForgetGoesOn, InTrim, LoopPosition
<1> HIDE DEF k
<1>2. CacheOK' /\ Len(lru') = Len(lru) - 1 /\ index' = index \ {lru[k]} /\ resident' <= resident
  BY <1>1, SweepFacts, DropKeeps DEF DropAt
<1>3. RestTyped' /\ PlacesFit' /\ ForgottenIsGone' /\ HeldPagesStayCached'
  BY <1>1, <1>2, SweepFacts DEF RestTyped, PlacesFit, ForgottenIsGone, HeldPagesStayCached
<1>4. \A i \in 1..(k - 1) : lru'[i] = lru[i]
  <2>1. lru' = WithoutAt(lru, k) /\ \A i \in 1..(k - 1) : i \in 1..(Len(lru) - 1) /\ i < k
    BY <1>1, SweepFacts DEF DropAt
  <2>2. \A i \in 1..(Len(lru) - 1) : WithoutAt(lru, k)[i] = IF i < k THEN lru[i] ELSE lru[i + 1]
    BY <1>1, SweepFacts, WithoutAtKeeps
  <2> HIDE DEF WithoutAt
  <2> QED
    BY <2>1, <2>2
<1>5. LoopPosition' /\ PassedBehind' /\ ~InTrim'
  BY <1>1, <1>2, <1>4, SweepFacts DEF LoopPosition, PassedBehind, InTrim, k
<1>6. Excused'
  <2>1. PinsOrTrims' <=> PinsOrTrims
    BY SweepFacts DEF PinsOrTrims
  <2>2. resident' <= Budget \/ OnePerThread(index)' \/ PinsOrTrims
    <3>1. PinsOrTrims \/ resident <= Budget \/ OnePerThread(index)
      BY <1>1, SweepFacts DEF Excused
    <3>2. OnePerThread(index) => OnePerThread(index)'
      BY <1>2 DEF OnePerThread
    <3>3. resident \in Nat /\ resident' \in Nat /\ Budget \in Nat
      BY <1>2, SweepFacts, CacheAssumption DEF CacheOK, CacheTyped
    <3> QED
      BY <3>1, <3>2, <3>3, <1>2
  <2> QED
    BY <2>1, <2>2, <1>5 DEF Excused
<1> QED
  BY <1>2, <1>3, <1>5, <1>6, Parts

LEMMA ForgetPassKeeps ==
  ASSUME IInv, Sweep, ForgetPass PROVE IInv'
<1>1. /\ ~InTrim /\ lock.owner # None /\ lock.drop # None
      /\ lock.at \in 1..Len(lru) /\ lru[lock.at][1] # lock.drop
      /\ UNCHANGED cache /\ lock' = [lock EXCEPT !.at = lock.at + 1]
      /\ status[lock.drop] = "gone" /\ \A t \in Threads : pins[t] = {} /\ hand[t] = None
      /\ \A i \in 1..(lock.at - 1) : lru[i][1] # lock.drop
  BY SweepFacts DEF ForgetPass, ForgetGoesOn, InTrim, LoopPosition
<1>2. lock'.at = lock.at + 1 /\ lock'.owner = lock.owner /\ lock'.drop = lock.drop
  BY <1>1, SweepFacts DEF RestTyped
<1>3. CacheOK'
  BY <1>1, SweepFacts, CacheStays
<1>4. RestTyped' /\ PlacesFit'
  <2>1. lock.at + 1 \in Nat
    BY <1>1, SweepFacts
  <2>2. lock' \in [owner : Threads \cup {None}, drop : Files \cup {None}, at : Nat]
    BY <2>1, <1>1, SweepFacts DEF RestTyped
  <2>3. RestTyped'
    BY <2>2, SweepFacts DEF RestTyped
  <2> QED
    BY <2>3, SweepFacts DEF PlacesFit
<1>5. ForgottenIsGone' /\ HeldPagesStayCached'
  BY <1>1, <1>2, SweepFacts DEF ForgottenIsGone, HeldPagesStayCached, cache
<1>6. LoopPosition' /\ PassedBehind' /\ ~InTrim'
  <2>1. \A i \in 1..((lock.at + 1) - 1) : lru[i][1] # lock.drop
    <3>1. \A i \in 1..((lock.at + 1) - 1) : i = lock.at \/ i \in 1..(lock.at - 1)
      BY <1>1, SweepFacts
    <3> QED
      BY <3>1, <1>1
  <2>2. lock.at + 1 \in 1..(Len(lru) + 1)
    BY <1>1, SweepFacts
  <2>3. UNCHANGED <<lru, status, pins, hand>>
    BY <1>1, SweepFacts DEF cache
  <2>4. /\ lock'.owner # None /\ lock'.at \in 1..(Len(lru') + 1) /\ status'[lock'.drop] = "gone"
        /\ \A t \in Threads : pins'[t] = {} /\ hand'[t] = None
        /\ \A i \in 1..(lock'.at - 1) : lru'[i][1] # lock'.drop
    <3>1. lock'.at - 1 = (lock.at + 1) - 1
      BY <1>2
    <3>2. \A i \in 1..(lock'.at - 1) : lru'[i][1] # lock'.drop
      BY <2>1, <2>3, <1>2, <3>1
    <3> QED
      BY <2>2, <2>3, <3>2, <1>1, <1>2
  <2>5. LoopPosition'
    BY <2>4 DEF LoopPosition
  <2> QED
    BY <2>5, <1>1, <1>2 DEF PassedBehind, InTrim
<1>7. Excused'
  BY <1>1, <1>6, SweepFacts DEF Excused, PinsOrTrims, OnePerThread, cache
<1> QED
  BY <1>3, <1>4, <1>5, <1>6, <1>7, Parts

\* The loop has come to its end, or the cache is within its budget.
LEMMA UnlockKeeps ==
  ASSUME IInv, Sweep, Unlock PROVE IInv'
<1>1. /\ lock.owner # None /\ ~TrimGoesOn /\ ~ForgetGoesOn /\ UNCHANGED cache
      /\ lock' = Unlocked /\ lock.at \in 1..(Len(lru) + 1)
  BY SweepFacts DEF Unlock, LoopPosition
<1>2. CacheOK'
  BY <1>1, SweepFacts, CacheStays
<1>3. RestTyped' /\ PlacesFit' /\ HeldPagesStayCached'
  BY <1>1, SweepFacts DEF RestTyped, PlacesFit, HeldPagesStayCached, Unlocked, cache
<1>4. ~InTrim' /\ LoopPosition' /\ PassedBehind'
  BY <1>1, SweepFacts DEF InTrim, LoopPosition, PassedBehind, Unlocked
<1>5. ForgottenIsGone'
  <2> SUFFICES ASSUME NEW p \in index PROVE status[p[1]] = "open"
    BY <1>1, SweepFacts DEF ForgottenIsGone, cache
  <2>1. p[1] \in Files
    BY SweepFacts, PageFacts DEF CacheOK, CacheTyped
  <2>2. lock.drop # None => p[1] # lock.drop
    BY <1>1, SweepFacts DEF LoopPosition, ForgetGoesOn
  <2> QED
    BY <2>1, <2>2, SweepFacts DEF ForgottenIsGone
<1>6. Excused'
  <2>1. PinsOrTrims' <=> PinsOrTrims
    BY SweepFacts DEF PinsOrTrims
  <2>2. ASSUME ~PinsOrTrims PROVE resident <= Budget \/ OnePerThread(index)
    <3>1. CASE InTrim /\ lock.at = 1
      BY <2>2, <3>1, SweepFacts DEF Excused, OneInHand, OnePerThread
    <3>2. CASE InTrim /\ lock.at # 1
      <4>1. resident \in Nat /\ Budget \in Nat
        BY SweepFacts, CacheAssumption DEF CacheOK, CacheTyped
      <4> QED
        BY <3>2, <4>1, <1>1, SweepFacts DEF TrimGoesOn, InTrim
    <3>3. CASE ~InTrim
      BY <2>2, <3>3, SweepFacts DEF Excused
    <3> QED
      BY <3>1, <3>2, <3>3
  <2> QED
    BY <2>1, <2>2, <1>1, <1>4 DEF Excused, OnePerThread, cache
<1> QED
  BY <1>2, <1>3, <1>4, <1>5, <1>6, Parts

LEMMA SweepKeeps == IInv /\ Sweep => IInv'
BY TrimSkipKeeps, TrimDropKeeps, ForgetDropKeeps, ForgetPassKeeps, UnlockKeeps DEF Sweep

LEMMA QueryKeeps ==
  ASSUME IInv, NEW t \in Threads, Query(t) PROVE IInv'
BY BeginQueryKeeps, EndQueryKeeps, BeginTrimKeeps, PinKeeps, ThrowKeeps, BeginCopyKeeps, CopyGetKeeps,
   CopyReleaseKeeps DEF Query

LEMMA StutterKeeps == IInv /\ UNCHANGED vars => IInv'
<1> SUFFICES ASSUME IInv, UNCHANGED vars PROVE IInv'
  OBVIOUS
<1>1. UNCHANGED <<status, cache, lock, pc, pins, hand, left>>
  BY DEF vars, cache
<1>2. CacheOK'
  BY <1>1, Parts, CacheStays
<1>3. RestTyped' /\ ForgottenIsGone' /\ HeldPagesStayCached' /\ PlacesFit' /\ LoopPosition'
  BY <1>1, Parts DEF RestTyped, ForgottenIsGone, HeldPagesStayCached, PlacesFit, LoopPosition, cache
<1>4. PassedBehind'
  BY <1>1, Parts DEF PassedBehind, InTrim, Held, cache
<1>5. Excused'
  BY <1>1, Parts, ExcusedStays DEF PinsOrTrims
<1> QED
  BY <1>2, <1>3, <1>4, <1>5, Parts

\* The invariant holds in every reachable state.
THEOREM Inductive == Spec => []IInv
<1>1. Init => IInv
  BY Initially
<1>2. IInv /\ [Next]_vars => IInv'
  BY OpenFileKeeps, CloseFileKeeps, QueryKeeps, SweepKeeps, StutterKeeps DEF Next
<1> QED
  BY <1>1, <1>2, PTL DEF Spec

-----------------------------------------------------------------------------
(* What the invariant says of the runs' properties.                        *)

\* The list, the hash map, resident_ and the byte counters of get, trim_locked
\* and forget describe the same pages, all of open files.
THEOREM BooksCorrect == Spec => []BooksAgree
<1>1. IInv => BooksAgree
  BY DEF IInv, Books, BooksAgree
<1> QED
  BY <1>1, Inductive, PTL

\* A page that a query's BlobPins or BlobFile::copy holds is never dropped from
\* the cache.
THEOREM HeldStay == Spec => []HeldPagesStayCached
<1>1. IInv => HeldPagesStayCached
  BY DEF IInv
<1> QED
  BY <1>1, Inductive, PTL

\* Outside the mutex, once nobody holds a page or is going to trim, the cache is
\* within budget_bytes_ or holds at most one page per thread.
THEOREM BudgetBounded == Spec => []OverBudgetBounded
<1>1. IInv => OverBudgetBounded
  <2> SUFFICES ASSUME IInv, Free, \A t \in Threads : ~WillTrim(t), ~(resident <= Budget)
               PROVE  resident <= Cardinality(Threads) * PageBytes
    BY DEF OverBudgetBounded
  <2>1. ~InTrim /\ ~PinsOrTrims
    BY DEF Free, Unlocked, InTrim, PinsOrTrims, WillTrim
  <2>2. PICK e \in [Threads -> Pages \cup {None}] : index \subseteq {e[t] : t \in Threads}
    BY <2>1 DEF IInv, Excused, OnePerThread
  <2>3. IsFiniteSet(Threads) /\ PageBytes \in Nat
    BY CacheAssumption
  <2>4. IsFiniteSet({e[t] : t \in Threads}) /\ Cardinality({e[t] : t \in Threads}) <= Cardinality(Threads)
    <3>1. e \in Surjection(Threads, {e[t] : t \in Threads})
      BY <2>2 DEF Surjection
    <3> QED
      BY <2>3, <3>1, FS_Surjection
  <2>5. IsFiniteSet(index) /\ Cardinality(index) <= Cardinality({e[t] : t \in Threads})
    BY <2>2, <2>4, FS_Subset
  <2>6. /\ Cardinality(index) \in Nat /\ Cardinality(Threads) \in Nat
        /\ Cardinality({e[t] : t \in Threads}) \in Nat
    BY <2>3, <2>4, <2>5, FS_CardinalityType
  <2>7. Cardinality(index) <= Cardinality(Threads)
    BY <2>4, <2>5, <2>6
  <2>8. resident <= Cardinality(index) * PageBytes
    BY <2>5, BytesBounded DEF IInv, TypeOK, Books, Accounting
  <2>9. Cardinality(index) * PageBytes <= Cardinality(Threads) * PageBytes
    BY <2>3, <2>6, <2>7, ProductsGrow
  <2>10. /\ resident \in Nat /\ Cardinality(index) * PageBytes \in Nat
         /\ Cardinality(Threads) * PageBytes \in Nat
    BY <2>3, <2>6 DEF IInv, TypeOK
  <2> QED
    BY <2>8, <2>9, <2>10
<1> QED
  BY <1>1, Inductive, PTL

\* What trim_locked drops is in use by nobody and the oldest of that kind, but
\* for pages released behind the loop by a thread that trims after it.
THEOREM TrimsOldest == Spec => DropsOldestUnheld
<1> DEFINE Oldest ==
      lock.drop = None /\ index' # index /\ index' \subseteq index =>
        \E k \in 1..Len(lru) :
          /\ lru' = WithoutAt(lru, k) /\ ~Held(lru[k])
          /\ resident > Budget
          /\ \A i \in (k + 1)..Len(lru) :
               Held(lru[i]) \/ \E t \in Threads \ {lock.owner} : pc[t] \in {"copy", "trim"}
<1>1. ASSUME IInv, Next, lock.drop = None, index' # index, index' \subseteq index
      PROVE  Sweep /\ TrimDrop
  <2>1. ASSUME NEW p, GetHit(p) \/ GetThrows(p) PROVE FALSE
    BY <1>1, <2>1 DEF GetHit, GetThrows, cache
  <2>2. ASSUME NEW t, NEW p, GetMiss(t, p) PROVE FALSE
    BY <1>1, <2>2 DEF GetMiss
  <2>3. ASSUME NEW t \in Threads, Query(t) PROVE FALSE
    BY <1>1, <2>1, <2>2, <2>3 DEF Query, BeginQuery, EndQuery, EndTrim, Pin, PinThrows, BeginCopy,
       CopyGet, CopyThrows, CopyRelease, CopyTrim, cache
  <2>4. ASSUME NEW f \in Files, OpenFile(f) \/ \E t \in Threads : CloseFile(t, f) PROVE FALSE
    BY <1>1, <2>4 DEF OpenFile, CloseFile, cache
  <2>5. Sweep
    BY <1>1, <2>3, <2>4 DEF Next
  <2> QED
    BY <1>1, <2>5 DEF Sweep, TrimSkip, ForgetDrop, ForgetGoesOn, ForgetPass, Unlock, cache
<1>2. ASSUME IInv, Sweep, TrimDrop PROVE Oldest
  <2> DEFINE k == lock.at - 1
  <2>1. /\ InTrim /\ k \in 1..Len(lru) /\ ~Held(lru[k]) /\ resident > Budget
        /\ lru' = WithoutAt(lru, k) /\ k + 1 = lock.at
    BY <1>2, SweepFacts DEF TrimDrop, TrimGoesOn, DropAt, InTrim, LoopPosition
  <2>2. \A i \in (k + 1)..Len(lru) :
          Held(lru[i]) \/ \E t \in Threads \ {lock.owner} : pc[t] \in {"copy", "trim"}
    BY <2>1, <1>2, SweepFacts DEF PassedBehind
  <2> QED
    BY <2>1, <2>2
<1>3. IInv /\ [Next]_vars => [Oldest]_vars
  BY <1>1, <1>2
<1>4. Spec => [][Oldest]_vars
  BY <1>3, Inductive, PTL DEF Spec
<1> QED
  BY <1>4 DEF DropsOldestUnheld
================================================================================
