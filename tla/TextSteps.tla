------------------------------- MODULE TextSteps -------------------------------
(***************************************************************************)
(* Text processors (tools/lib/steps.mjs): a processor holds variants, each *)
(* a list of steps; processText applies the processors in order, each to   *)
(* every text the ones before it produced.                                 *)
(*                                                                         *)
(* A text is a sequence of letters.  What the platform does to letters is  *)
(* given by constants: the case of a letter, the two letters a composed    *)
(* one decomposes into.  A pattern is modelled by the letters it matches.  *)
(***************************************************************************)
EXTENDS Integers, Sequences, FiniteSets, SequencesExt, TLC

CONSTANTS
    Lower, Upper,   \* toLowerCase and toUpperCase, by letter; other letters stay
    Decomposed,     \* by composed letter: the pair NFD writes for it
    CodePoint,      \* by letter: its code point
    Processors,     \* the lists of processors to run
    Inputs,         \* the texts to run them on
    MAX_PATTERN_REPEATS,
    Limits          \* the limits on the number of variants

VARIABLES
    processors,     \* a pack's lookup.preprocessors or postprocessors
    enabled,        \* the optional ones asked for
    source,         \* the text they began with
    limit,          \* how many variants are kept
    done,           \* how many processors have run
    variants        \* the variants there are: [text, steps] in order
textVars == <<processors, enabled, source, limit, done, variants>>

By(map, letter) == IF letter \in DOMAIN map THEN map[letter] ELSE letter
FirstOf(seq) == IF seq = <<>> THEN <<>> ELSE <<Head(seq)>>
LastOf(seq) == IF seq = <<>> THEN <<>> ELSE <<Last(seq)>>
StartsAt(text, key, i) == i + Len(key) - 1 <= Len(text) /\ SubSeq(text, i, i + Len(key) - 1) = key
\* the longest key that starts at i, the keys of one length in their order
KeyAt(keys, text, i) ==
    LET found == {k \in keys : StartsAt(text, k, i)}
    IN  IF found = {} THEN <<>> ELSE CHOOSE k \in found : \A other \in found : Len(other) <= Len(k)

-----------------------------------------------------------------------------
(* The steps.                                                              *)

Cased(map, text) == [i \in DOMAIN text |-> By(map, text[i])]
applyCase(mode, text) ==
    CASE mode = "lower" -> Cased(Lower, text)
      [] mode = "upper" -> Cased(Upper, text)
      [] mode = "upperFirst" -> Cased(Upper, FirstOf(text)) \o SubSeq(text, 2, Len(text))
      [] mode = "lowerFirst" -> Cased(Lower, FirstOf(text)) \o SubSeq(text, 2, Len(text))

NFD(text) == FlattenSeq([i \in DOMAIN text |-> IF text[i] \in DOMAIN Decomposed THEN Decomposed[text[i]] ELSE <<text[i]>>])
NFC(text) ==
    LET plain == NFD(text)
        joined(acc, letter) ==
            LET made == {c \in DOMAIN Decomposed : acc # <<>> /\ Decomposed[c] = <<Last(acc), letter>>}
            IN  IF made = {} THEN Append(acc, letter) ELSE Append(Front(acc), CHOOSE c \in made : TRUE)
    IN  FoldLeft(joined, <<>>, plain)
normalized(form, text) == IF form = "NFC" THEN NFC(text) ELSE NFD(text)
\* only the runs of letters within the class are normalized, each on its own
applyNormalize(form, within, text) ==
    LET add(acc, letter) ==
            IF letter \in within THEN [acc EXCEPT !.run = Append(@, letter)]
            ELSE [out |-> acc.out \o normalized(form, acc.run) \o <<letter>>, run |-> <<>>]
        end == FoldLeft(add, [out |-> <<>>, run |-> <<>>], text)
    IN  end.out \o normalized(form, end.run)

applyStrip(class, text) == SelectSeq(text, LAMBDA letter : letter \notin class)

\* non-overlapping matches from left to right, the longest key first
mapMatches(keys, text) ==
    LET look(acc, i) ==
            IF i < acc.next \/ KeyAt(keys, text, i) = <<>> THEN acc
            ELSE [next |-> i + Len(KeyAt(keys, text, i)),
                  matches |-> Append(acc.matches, [index |-> i, key |-> KeyAt(keys, text, i)])]
    IN  FoldLeft(look, [next |-> 1, matches |-> <<>>], [i \in DOMAIN text |-> i]).matches
Replaced(map, text, matches) ==
    LET put(acc, m) == [out |-> acc.out \o SubSeq(text, acc.last, m.index - 1) \o map[m.key],
                        last |-> m.index + Len(m.key)]
        end == FoldLeft(put, [out |-> <<>>, last |-> 1], matches)
    IN  end.out \o SubSeq(text, end.last, Len(text))
applyMap(map, place, text) ==
    LET matches == mapMatches(DOMAIN map, text)
        ends == {k \in DOMAIN map : Len(k) <= Len(text) /\ StartsAt(text, k, Len(text) - Len(k) + 1)}
        ending == CHOOSE k \in ends : \A other \in ends : Len(other) <= Len(k)
    IN  CASE place = "all" -> Replaced(map, text, matches)
          [] place = "first" -> Replaced(map, text, FirstOf(matches))
          [] place = "last" -> Replaced(map, text, LastOf(matches))
          [] place = "start" -> Replaced(map, text, SelectSeq(FirstOf(matches), LAMBDA m : m.index = 1))
          [] place = "end" -> IF ends = {} THEN text
                              ELSE SubSeq(text, 1, Len(text) - Len(ending)) \o map[ending]

\* one match or every match of the pattern, again while the text changes
applyPattern(step, text) ==
    LET once(t) == applyMap(step.pattern :> step.replace, IF step.global THEN "all" ELSE "first", t)
        times == IF step.repeat THEN MAX_PATTERN_REPEATS ELSE 1
        after[n \in 0..times] == IF n = 0 THEN text ELSE once(after[n - 1])
    IN  after[times]

\* every choice at every key, the first match varying slowest
applyAlternatives(step, text) ==
    LET matches == mapMatches(DOMAIN step.alternatives, NFC(text))
        choices(m) == <<m.key>> \o step.alternatives[m.key]
        pick(acc, m) == [texts |-> FlattenSeq([i \in DOMAIN acc.texts |->
                                      [c \in DOMAIN choices(m) |-> acc.texts[i]
                                          \o SubSeq(NFC(text), acc.last, m.index - 1) \o choices(m)[c]]]),
                         last |-> m.index + Len(m.key)]
        end == FoldLeft(pick, [texts |-> <<<<>>>>, last |-> 1], matches)
        all == [i \in DOMAIN end.texts |-> end.texts[i] \o SubSeq(NFC(text), end.last, Len(NFC(text)))]
    IN  SubSeq(all, 1, IF Len(all) < step.limit THEN Len(all) ELSE step.limit)

\* left out: the builtin steps, which these tools raise UnsupportedStepError
\* for, and the forms NFKC and NFKD, which only letters with one would change
applyStep(step, text) ==
    CASE step.kind = "case" -> <<applyCase(step.case, text)>>
      [] step.kind = "normalize" -> <<applyNormalize(step.normalize, step.within, text)>>
      [] step.kind = "strip" -> <<applyStrip(step.strip, text)>>
      [] step.kind = "map" -> <<applyMap(step.map, step.at, text)>>
      [] step.kind = "pattern" -> <<applyPattern(step, text)>>
      [] step.kind = "alternatives" -> applyAlternatives(step, text)
applyVariant(steps, text) ==
    FoldLeft(LAMBDA texts, step : FlattenSeq([i \in DOMAIN texts |-> applyStep(step, texts[i])]), <<text>>, steps)

-----------------------------------------------------------------------------
(* processText.                                                            *)

compareCodePoints(a, b) ==
    \/ Len(a) < Len(b) /\ SubSeq(b, 1, Len(a)) = a
    \/ \E i \in DOMAIN a \cap DOMAIN b : /\ SubSeq(a, 1, i - 1) = SubSeq(b, 1, i - 1)
                                         /\ CodePoint[a[i]] < CodePoint[b[i]]

\* Faulty variant: the first steps found for a text are kept.
addFirst(next, text, steps) ==
    IF \E i \in DOMAIN next : next[i].text = text THEN next
    ELSE IF Len(next) < limit THEN Append(next, [text |-> text, steps |-> steps]) ELSE next
\* a text is kept once, with the fewest steps; past the limit no new ones are
add(next, text, steps) ==
    LET known == {i \in DOMAIN next : next[i].text = text}
    IN  IF known # {}
        THEN [i \in DOMAIN next |-> IF i \in known /\ steps < next[i].steps
                                    THEN [next[i] EXCEPT !.steps = steps] ELSE next[i]]
        ELSE IF Len(next) < limit THEN Append(next, [text |-> text, steps |-> steps]) ELSE next

\* one variant through a processor: kept as it is, then what its lists of steps give
Process(processor, next, variant) ==
    LET kept == IF processor.keepInput THEN add(next, variant.text, variant.steps) ELSE next
        outputs == FlattenSeq([i \in DOMAIN processor.variants |-> applyVariant(processor.variants[i], variant.text)])
        steps(output) == IF output = variant.text THEN variant.steps ELSE variant.steps + 1
    IN  FoldLeft(LAMBDA all, output : add(all, output, steps(output)), kept, outputs)

TextInit ==
    /\ processors \in Processors /\ source \in Inputs /\ limit \in Limits
    /\ enabled \in SUBSET {processors[i].id : i \in {j \in DOMAIN processors : processors[j].optional}}
    /\ done = 0
    /\ variants = <<[text |-> source, steps |-> 0]>>

Skips(processor) == processor.optional /\ processor.id \notin enabled
NextProcessor ==
    /\ done < Len(processors)
    /\ done' = done + 1
    /\ UNCHANGED <<processors, enabled, source, limit>>

ProcessText ==
    /\ NextProcessor /\ ~Skips(processors[done + 1])
    /\ LET next == FoldLeft(LAMBDA all, v : Process(processors[done + 1], all, v), <<>>, variants)
       IN  variants' = SortSeq(next, LAMBDA a, b : compareCodePoints(a.text, b.text))
SkipProcessor == NextProcessor /\ Skips(processors[done + 1]) /\ UNCHANGED variants

TextNext == ProcessText \/ SkipProcessor

\* by number of processors, what they can make of the source: each text with
\* every number of steps it can be made in
Reachable ==
    LET made(p, v) == UNION {ToSet(applyVariant(p.variants[i], v.text)) : i \in DOMAIN p.variants}
        from(p, v) == (IF p.keepInput THEN {v} ELSE {})
                      \cup {[text |-> t, steps |-> v.steps + IF t = v.text THEN 0 ELSE 1] : t \in made(p, v)}
        after[n \in 0..done] ==
            IF n = 0 THEN {[text |-> source, steps |-> 0]}
            ELSE IF Skips(processors[n]) THEN after[n - 1]
            ELSE UNION {from(processors[n], v) : v \in after[n - 1]}
    IN  after

FewestSteps(makes) == {v \in makes : \A w \in makes : w.text = v.text => v.steps <= w.steps}
AreVariantsOf(reachable) ==
    /\ Len(variants) <= limit
    /\ \A i \in DOMAIN variants : \E v \in reachable[done] : v.text = variants[i].text /\ v.steps <= variants[i].steps
    /\ \A i \in 1..(Len(variants) - 1) : compareCodePoints(variants[i].text, variants[i + 1].text)
    /\ (\A n \in 0..done : Cardinality({v.text : v \in reachable[n]}) <= limit) =>
          ToSet(variants) = FewestSteps(reachable[done])

\* Whatever the processors do to each other's texts, each text is there once,
\* in the order of code points, with the fewest steps that lead to it; a text
\* is missing only when some processor gave more than the limit allows.
EachVariantOnce == AreVariantsOf(Reachable)
===============================================================================
