----------------------------- MODULE BloomFilter -----------------------------
(***************************************************************************)
(* hash::bloom: the filter that answers "unknown" before the hash table is *)
(* probed.  build_to_file gives each thread a range of words; every thread *)
(* scans every hash and writes the bits of its own words, with plain loads *)
(* and stores.  contains() then asks for the same bits.                    *)
(***************************************************************************)
EXTENDS Integers

CONSTANTS
    Hashes,      \* the hashes of hash_entries, as [lo |-> .., hi |-> ..]
    NumHashes,   \* bits per hash, 7 in the code
    NumBits,     \* a power of two that is a whole number of words
    WordBits,    \* 64 in the code
    Threads,     \* the pool's size
    MinRange     \* the words that make a range of its own worthwhile, 4096

Words == NumBits \div WordBits
ASSUME SizesAssumption ==
    /\ NumHashes \in Nat \ {0} /\ WordBits \in Nat \ {0} /\ MinRange \in Nat \ {0} /\ Threads \in Nat
    /\ NumBits \in Nat \ {0} /\ NumBits % WordBits = 0
    /\ \A h \in Hashes : h.lo \in Nat /\ h.hi \in Nat

AtMost(a, b) == IF a <= b THEN a ELSE b
AtLeast(a, b) == IF a >= b THEN a ELSE b

\* max(1, min(threads, words / 4096)); below 262144 hashes the code keeps to one
\* range, which Threads = 1 gives
NumRanges == AtLeast(1, AtMost(Threads, Words \div MinRange))
\* Faulty variant: the last words are in no range.
PerRangeDown == Words \div NumRanges
\* (words + ranges - 1) / ranges
PerRange == (Words + NumRanges - 1) \div NumRanges
Begin(r) == AtMost(r * PerRange, Words)
End(r) == AtMost(Begin(r) + PerRange, Words)
\* range 0 is the caller's; an empty range ends the loop
Ranges == {r \in 0..NumRanges - 1 : r = 0 \/ \A s \in 1..r : Begin(s) < End(s)}

Bit(h, k) == (h.lo + k * h.hi) % NumBits
WordOf(b) == b \div WordBits
Mine(r, b) == Begin(r) <= WordOf(b) /\ WordOf(b) < End(r)

VARIABLES
    bits,     \* the bits that are set
    todo,     \* range -> the <<hash, k>> it has still to look at
    loaded    \* range -> the word it has loaded and not yet stored, as
              \* [word, bits]: bits[word] |= .. is a load and a store
filter_vars == <<bits, todo, loaded>>

NoWord == [word |-> -1, held |-> {}, add |-> 0]

FilterInit ==
    /\ bits = {}
    /\ todo = [r \in Ranges |-> Hashes \X (0..NumHashes - 1)]
    /\ loaded = [r \in Ranges |-> NoWord]

\* a bit of another range's word
Skip(r, e) ==
    /\ loaded[r] = NoWord /\ e \in todo[r] /\ ~Mine(r, Bit(e[1], e[2]))
    /\ todo' = [todo EXCEPT ![r] = @ \ {e}]
    /\ UNCHANGED <<bits, loaded>>

Load(r, e) ==
    /\ loaded[r] = NoWord /\ e \in todo[r] /\ Mine(r, Bit(e[1], e[2]))
    /\ LET b == Bit(e[1], e[2])
       IN  loaded' = [loaded EXCEPT ![r] = [word |-> WordOf(b), add |-> b,
                                            held |-> {x \in bits : WordOf(x) = WordOf(b)}]]
    /\ todo' = [todo EXCEPT ![r] = @ \ {e}]
    /\ UNCHANGED bits

Store(r) ==
    /\ loaded[r] # NoWord
    /\ bits' = {x \in bits : WordOf(x) # loaded[r].word} \cup loaded[r].held \cup {loaded[r].add}
    /\ loaded' = [loaded EXCEPT ![r] = NoWord]
    /\ UNCHANGED todo

\* the scan's next element; in which order it comes changes nothing
First(r) == CHOOSE e \in todo[r] : TRUE
Step(r) == Store(r) \/ (todo[r] # {} /\ (Skip(r, First(r)) \/ Load(r, First(r))))
FilterNext == \E r \in Ranges : Step(r)

FilterSpec == FilterInit /\ [][FilterNext]_filter_vars

-----------------------------------------------------------------------------
Done == \A r \in Ranges : todo[r] = {} /\ loaded[r] = NoWord
\* contains() computes the positions again, from what load() found in the file
ReadBit(h, k) == (h.lo + k * h.hi) % NumBits
Contains(h) == \A k \in 0..NumHashes - 1 : ReadBit(h, k) \in bits

\* Threads that write without atomics never hold the same word.
WordsNotShared ==
    \A r, s \in Ranges : r # s /\ loaded[r] # NoWord => loaded[r].word # loaded[s].word

\* Once the build has joined its threads, no hash of the table is turned away:
\* the ranges cover every word and no store undoes another.
NoFalseNegatives == Done => \A h \in Hashes : Contains(h)

\* The split does not change the filter: the bits are those that one thread
\* would have set, and no others, so that unknown keys are still turned away.
SameBitsAsOneThread == Done => bits = {ReadBit(h, k) : h \in Hashes, k \in 0..NumHashes - 1}
=============================================================================
