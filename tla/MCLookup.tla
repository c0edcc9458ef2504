------------------------------ MODULE MCLookup ------------------------------
\* A text of six code points over a small dictionary.  "abc" is a row of
\* references to x and then y, beside a row of its own; "abcde" is a key longer than any scan here
\* but the last, and "abcdef" one too long for the scan index; "abcd" is known only to metadata
\* dictionaries.  The processors may replace "ab", "abc" and "abcde".
EXTENDS Lookup

MCTextAt == <<"a", "ab", "abc", "abcd", "abcde", "abcdef">>

Entry(expr, tags, freq, key) ==
    [expr |-> expr, tags |-> tags, only_form_of |-> FALSE, freq |-> freq, rank |-> 0, score |-> 0, key |-> key]
MCInfo ==
    "ab" :> Entry("ab", {"n"}, 0, 1) @@ "abc" :> [Entry("abc", {}, 0, 2) EXCEPT !.only_form_of = TRUE]
    @@ "x" :> Entry("x", {"v"}, 0, 3) @@ "y" :> Entry("y", {"v"}, 0, 4) @@ "z" :> Entry("z", {"v", "n"}, 0, 5)
    @@ "own" :> Entry("abc", {}, 0, 9)
    @@ "key" :> Entry("abcde", {}, 1, 6) @@ "m1" :> Entry("abcd", {}, 0, 7) @@ "m2" :> Entry("abcd", {}, 0, 8)
    @@ "far" :> Entry("abcdef", {}, 0, 10)

MCForms == {MCTextAt[p] : p \in 1..6} \cup {"x", "y", "z"}
MCTermsAt ==
    "ab" :> <<"ab">> @@ "abc" :> <<"abc", "own">> @@ "abcde" :> <<"key">> @@ "abcdef" :> <<"far">>
    @@ "x" :> <<"x">> @@ "y" :> <<"y">> @@ "z" :> <<"z">> @@ [f \in MCForms |-> <<>>]

Row(tags, ignored, to) ==
    [tags |-> tags, ignored |-> ignored, references |-> [i \in DOMAIN to |-> [to |-> to[i], rules |-> 1]]]
MCRowsAt ==
    "abc" :> <<Row({}, FALSE, <<"x", "y">>)>>
    @@ "abcde" :> <<Row({}, FALSE, <<"abcde", "z">>)>>
    @@ "ab" :> <<Row({"n"}, TRUE, <<"x">>)>>
    @@ "z" :> <<Row({"v"}, FALSE, <<"ab">>)>>
    @@ "x" :> <<Row({}, FALSE, <<"y">>)>> @@ [f \in MCForms |-> <<>>]

Meta(named, itself) == [named |-> named, itself |-> itself]
MCMetaAt ==
    "abcd" :> Meta(<<"m1", "m2">>, <<>>) @@ "abc" :> Meta(<<>>, <<"abc">>) @@ "ab" :> Meta(<<"ab">>, <<>>)
    @@ [f \in MCForms |-> Meta(<<>>, <<>>)]

By(form, steps, depth, whole, conditions) ==
    [form |-> form, steps |-> steps, depth |-> depth, whole |-> whole, conditions |-> conditions]
Written(p) == By(MCTextAt[p], 0, 0, FALSE, {})
MCReadingsAt ==
    [p \in 1..6 |->
        CASE p = 2 -> {<<Written(2)>>, <<Written(2), By("x", 0, 1, FALSE, {"v"})>>, <<By("x", 1, 0, FALSE, {})>>}
          [] p = 3 -> {<<Written(3)>>, <<Written(3), By("y", 0, 1, FALSE, {"v"}), By("z", 0, 1, FALSE, {"v"})>>,
                       <<Written(3), By("x", 0, 2, FALSE, {"v"}), By("x", 0, 1, FALSE, {"v"})>>,
                       <<Written(3), By("z", 0, 2, TRUE, {}), By("z", 1, 0, FALSE, {})>>, <<By("y", 1, 0, FALSE, {})>>}
          [] p = 5 -> {<<Written(5)>>, <<Written(5), By("abc", 0, 1, FALSE, {"v"}), By("y", 0, 1, FALSE, {"n"})>>,
                       <<By("z", 0, 1, FALSE, {"v"})>>}
          [] OTHER -> {<<Written(p)>>}]
MCPrefixTexts == {{"ab"}, {"x"}, {"ab", "x"}}
MCPassesAt ==
    [p \in 1..6 |->
        CASE p = 3 -> {<<>>, <<By("z", 0, 1, FALSE, {})>>}
          [] p = 6 -> {<<>>, <<By("abc", 0, 1, FALSE, {}), By("ab", 0, 1, FALSE, {"n"})>>}
          [] OTHER -> {<<>>}]

Pack(follow, shortest, own_after, by_references) ==
    [follow |-> follow, shortest |-> shortest, own_after |-> own_after, by_references |-> by_references]
Packs == {Pack(FALSE, FALSE, FALSE, FALSE), Pack(TRUE, TRUE, TRUE, TRUE), Pack(TRUE, TRUE, FALSE, FALSE)}

\* where words end: after 1, 3 and 5, or only after 5
Words(ends) == [p \in 1..6 |-> p \notin ends]
Text(by_word, ends, scan_length, selected, long_key) ==
    [by_word |-> by_word, word |-> Words(ends), scan_length |-> scan_length, selected |-> selected,
     long_key |-> "ab" :> long_key @@ "x" :> 3 @@ [f \in MCForms |-> 0]]
All == DOMAIN MCInfo
Texts == {Text(FALSE, {}, 1, All, 5), Text(FALSE, {}, 3, All, 5), Text(FALSE, {}, 3, All \ {"key", "own"}, 0),
          Text(FALSE, {}, 2, All, 5), Text(FALSE, {}, 8, All, 5),
          Text(TRUE, {4}, 2, All, 5), Text(TRUE, {6}, 3, All, 5), Text(TRUE, {1, 4}, 2, All \ {"key"}, 4)}

Extras == {[passes |-> FALSE, metadata_only |-> FALSE, primary |-> {}, max_results |-> 8],
           [passes |-> TRUE, metadata_only |-> TRUE, primary |-> {}, max_results |-> 8],
           [passes |-> TRUE, metadata_only |-> TRUE, primary |-> {"ab", "m1"}, max_results |-> 3]}

MCTags == {"n", "v"}
MCRequests == {p @@ t @@ e : p \in Packs, t \in Texts, e \in Extras}
=============================================================================
