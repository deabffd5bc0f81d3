---------------------------- MODULE MCHostedDeck ----------------------------
(* HostedDeck for TLC: names and texts for each of its rules, and regions   *)
(* small enough for texts not to fit.                                       *)
EXTENDS HostedDeck

\* A name of one word and a name of two.
TwoNames == {<<"a", "b">>, <<"a", " ", "b">>}

Region(fill, entries, width, height, texts) ==
    [fill |-> fill, entries |-> entries, width |-> width, height |-> height, texts |-> texts]

\* Excerpts of the evidence: whole words and parts of words, on one line and on two,
\* with and without the marks between their words, with the name as the agent is told
\* to write it; text that is in none, and text without letters.
Titles == {
    <<"a", "b">>, <<"a", "b", "\n", "x", "a", "b">>, <<"x", " ", "a", " ", "b">>,
    <<"a", "\n", "b">>, <<"a", "-", "b">>, <<"b", " ", "1", "2">>, <<"2", ".", "3">>,
    <<"x", "\n", "-", "\n">>, <<"C">>, <<"C", "x">>, <<"S">>, <<"x">>, <<"x", "z">>, <<>> }

DisplayNames == TwoNames \union {<<"C">>, <<>>}

Entries == {<<"a", "b">>, <<"x", " ", "a", " ", "b">>, <<"x", "\n", "a">>, <<"C", "x">>, <<"z">>}

\* The name on the first slide, and a field with room for one short line.
FieldTemplate == [display |-> Region("display", 1, 9, 1, DisplayNames),
                  title |-> Region("field", 1, 5, 1, Titles)]

\* Three components on one line, with room for the shorter ones.
PillarsTemplate == [pillars |-> Region("bullets", 3, 23, 1, Entries)]

\* Two steps: with room for the shorter ones, and never with room for both.
StepsTemplate(height) == [steps |-> Region("numbers", 2, 8, height, Entries)]

\* Shapes are filled independently of each other: one after the other is enough.
EveryTemplate == {FieldTemplate, PillarsTemplate, StepsTemplate(2), StepsTemplate(1)}

\* The name is looked for in all words together: one part is enough.
LabelledTemplates == {FieldTemplate}

\* The name of one word twice, and inside a word; the name of two words, with a
\* blank and with a dash; the word customer; the word secret, also inside a word;
\* a decimal number.
MCEvidences == {
    <<"a", "b", " ", "x", "a", "b">>,
    <<"x", " ", "a", " ", "b", ".">>,
    <<"a", "-", "b", " ", "1", "2", ".", "3">>,
    <<"C", "x", " ", "a", "b">>,
    <<"x", "S", " ", "S">> }

\* The deck with other text in its editable shapes.
MCRewritings == {
    <<"x", " ", "a", "b">>, <<"a", "-", "b">>, <<"1", ".", " ", "x", "\n", "3", ".", " ", "C">>,
    <<"z">> }
=============================================================================
