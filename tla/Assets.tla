------------------------------- MODULE Assets -------------------------------
(***************************************************************************)
(* The assets of a checkout, which keeps each of them twice, at the root   *)
(* and under src: the template with the policy that describes it, written  *)
(* by km_agents/pptx_skill/template.py, and the text of the brand deck     *)
(* with the hash of that deck, written by                                  *)
(* scripts/extract_brand_guidelines.py.  A script may be interrupted       *)
(* between two files; designers replace the brand deck when they like.     *)
(***************************************************************************)
EXTENDS Integers

CONSTANTS
    MaxTemplates,   \* bound: times the slides of the template are changed
    MaxDecks        \* bound: times the brand deck is replaced

Copies == {"root", "src"}

VARIABLES
    step,           \* idle, or what the script in progress does next
    template,       \* the version of the template in each copy
    policy,         \* the version that the policy in each copy describes
    interrupted,    \* the pairs left by generations that were interrupted before the policy
    deck,           \* the version of the brand deck, in the root copy
    guidelines,     \* the markdown in each copy: version of its text, and of its hash
    markdown,       \* what the extraction in progress is going to write or compare
    raced,          \* a deck was replaced between an extraction's two reads of it
    checked         \* --check has succeeded and the deck was not replaced since it was read

pair == <<template, policy, interrupted>>
brand == <<deck, guidelines, markdown, raced, checked>>
vars == <<step, pair, brand>>

Markdown == [text : 0..MaxDecks, hash : 0..MaxDecks]

TypeOK ==
    /\ step \in {"idle", "policy", "hash", "root", "src", "check", "compare"}
    /\ template \in [Copies -> 0..MaxTemplates]
    /\ policy \in [Copies -> 0..MaxTemplates]
    /\ interrupted \subseteq (0..MaxTemplates) \X (0..MaxTemplates)
    /\ deck \in 0..MaxDecks
    /\ guidelines \in [Copies -> Markdown]
    /\ markdown \in Markdown
    /\ raced \in BOOLEAN /\ checked \in BOOLEAN

\* What is committed agrees: tests/test_brand_guidelines_extraction.py.
Init ==
    /\ step = "idle"
    /\ template = [c \in Copies |-> 0] /\ policy = [c \in Copies |-> 0]
    /\ interrupted = {}
    /\ deck = 0
    /\ guidelines = [c \in Copies |-> [text |-> 0, hash |-> 0]]
    /\ markdown = [text |-> 0, hash |-> 0]
    /\ raced = FALSE /\ checked = FALSE

----------------------------------------------------------------------------
(* The people. *)

\* The brand deck is replaced; nothing waits for a script to end.
ReplaceDeck ==
    /\ deck < MaxDecks
    /\ deck' = deck + 1
    /\ raced' = (raced \/ step = "hash")
    /\ checked' = FALSE
    /\ UNCHANGED <<step, pair, guidelines, markdown>>

\* No script copies template and policy to src: a developer does.
CopyTemplate ==
    /\ step = "idle"
    /\ template' = [template EXCEPT !["src"] = template["root"]]
    /\ policy' = [policy EXCEPT !["src"] = policy["root"]]
    /\ UNCHANGED <<step, interrupted, brand>>

----------------------------------------------------------------------------
(* create_template, of the slides as they were or of changed ones. *)

SaveTemplate ==
    /\ step = "idle"
    /\ \E v \in {template["root"], template["root"] + 1} \cap 0..MaxTemplates :
          template' = [template EXCEPT !["root"] = v]
    /\ step' = "policy"
    /\ UNCHANGED <<policy, interrupted, brand>>

\* Mutant: the policy is built before the new template is saved.
DescribedBefore == policy["root"]

\* build_policy opens the template that was saved.
Described == template["root"]

WritePolicy ==
    /\ step = "policy"
    /\ policy' = [policy EXCEPT !["root"] = Described]
    /\ step' = "idle"
    /\ UNCHANGED <<template, interrupted, brand>>

PolicyNotWritten ==
    /\ step = "policy"
    /\ interrupted' = interrupted \union {<<template["root"], policy["root"]>>}
    /\ step' = "idle"
    /\ UNCHANGED <<template, policy, brand>>

----------------------------------------------------------------------------
(* extract_brand_guidelines.py. *)

\* extract_markdown opens the deck for its text ...
ReadText ==
    /\ step = "idle"
    /\ markdown' = [markdown EXCEPT !.text = deck]
    /\ step' = "hash"
    /\ UNCHANGED <<pair, deck, guidelines, raced, checked>>

\* ... and reads it again for its hash.
ReadHash ==
    /\ step = "hash"
    /\ markdown' = [markdown EXCEPT !.hash = deck]
    /\ step' = "root"
    /\ UNCHANGED <<pair, deck, guidelines, raced, checked>>

\* The outputs, one after the other.
WriteMarkdown ==
    /\ step \in Copies
    /\ guidelines' = [guidelines EXCEPT ![step] = markdown]
    /\ step' = IF step = "root" THEN "src" ELSE "idle"
    /\ UNCHANGED <<pair, deck, markdown, raced, checked>>

\* The deck has no guidance slides, or the script is interrupted.
ExtractionFails ==
    /\ step \in {"hash", "check", "compare"} \union Copies
    /\ step' = "idle"
    /\ UNCHANGED <<pair, brand>>

\* Mutant: only the first output is looked at.
StaleFirst(c) == c = "root" /\ guidelines[c].hash # markdown.hash

\* The hash an output records is not the deck's.
Stale(c) == guidelines[c].hash # markdown.hash

\* --check writes nothing.  It extracts the markdown, which it does not use ...
StartCheck ==
    /\ step = "idle"
    /\ step' = "check"
    /\ UNCHANGED <<pair, brand>>

\* ... reads the deck once more for its hash ...
ReadCurrent ==
    /\ step = "check"
    /\ markdown' = [markdown EXCEPT !.hash = deck]
    /\ step' = "compare"
    /\ UNCHANGED <<pair, deck, guidelines, raced, checked>>

\* ... and fails if any output is stale.
Compare ==
    /\ step = "compare"
    /\ checked' = (markdown.hash = deck /\ \A c \in Copies : ~Stale(c))
    /\ step' = "idle"
    /\ UNCHANGED <<pair, deck, guidelines, markdown, raced>>

----------------------------------------------------------------------------
\* The first step of each script, and what follows it.
Begin == SaveTemplate \/ ReadText \/ StartCheck
Proceed ==
    \/ WritePolicy \/ PolicyNotWritten
    \/ ReadHash \/ WriteMarkdown \/ ExtractionFails
    \/ ReadCurrent \/ Compare
People == ReplaceDeck \/ CopyTemplate

Next == Begin \/ Proceed \/ People

Spec == Init /\ [][Next]_vars

----------------------------------------------------------------------------
(* Properties. *)

\* "Run --check ... to confirm the committed markdown still matches the current
\* brand deck" (extract_brand_guidelines.py:21): when it has succeeded, both copies
\* hold the text of the deck as it is, unless a deck was replaced between the two
\* reads of an extraction (lines 79 and 91).
CheckedTextIsCurrent ==
    checked /\ ~raced => \A c \in Copies : guidelines[c].text = deck

\* The same without the exception.  Violated: the text is of the old deck and the
\* hash of the new one, and --check, which compares hashes only, succeeds.
CheckedMeansCurrent == checked => \A c \in Copies : guidelines[c].text = deck
=============================================================================
