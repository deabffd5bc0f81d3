----------------------------- MODULE HostedDeck -----------------------------
(***************************************************************************)
(* The tools of the hosted case-study agent: generate_case_study_deck      *)
(* (case_study_generator/operations.py, pptx_skill/generation.py) keeps    *)
(* what the evidence says, redacts the customer's name and fits the text   *)
(* into the template's regions; validate_case_study_deck                   *)
(* (case_study_generator/validation.py, pptx_skill/validation.py) reads    *)
(* the deck back and decides whether it may be delivered.  The agent,      *)
(* a language model, chooses the content, is told to repair twice, and has *)
(* tools that write files.                                                 *)
(*                                                                         *)
(* A text is a sequence of characters.  Letter case is left out, and       *)
(* "customer", "evidence", "pending" and "secret" are one letter each.     *)
(***************************************************************************)
EXTENDS Integers, SequencesExt

CONSTANTS
    Letters,        \* letters and digits of the texts, other than those below
    Names,          \* bound: the values of request.customer_name
    Evidences,      \* bound: the texts of the uploaded files
    Rewritings,     \* bound: what the agent's other tools write into a shape
    Templates,      \* per editable shape: what fills it, its entries, its room,
                    \* and (a bound) what the agent passes for an entry
    Labelled,       \* bound: those looked at with the name among the template's own words
    MaxRepairs      \* MAX_REPAIR_ATTEMPTS, which must be 2

Customer == "C"         \* display_customer_name of an unapproved name
Secret == "S"           \* what find_sensitive_markers finds where it is a whole word
Pending == <<"E", " ", "P">>                \* EVIDENCE_PENDING
Digit == <<"1", "2", "3">>

Blank == " "
Newline == "\n"
Bullet == "*"
Dot == "."
Dash == "-"
Spaces == {Blank, Newline}

Alphanumeric == Letters \union {Customer, Secret, "E", "P"} \union Range(Digit)
Characters == Alphanumeric \union Spaces \union {Bullet, Dot, Dash}

----------------------------------------------------------------------------
(* Texts. *)

Occurs(part, text) == \E i \in 0..Len(text) - Len(part) : SubSeq(text, i + 1, i + Len(part)) = part

\* The characters of a text that are kept, with one blank where others stood between.
Spaced(text, kept) == FlattenSeq([i \in DOMAIN text |->
    IF text[i] \notin kept THEN <<>>
    ELSE IF i > 1 /\ text[i - 1] \notin kept /\ \E j \in 1..i - 1 : text[j] \in kept
         THEN <<Blank, text[i]>>
         ELSE <<text[i]>>])

\* normalized_text
Normal(text) == Spaced(text, Alphanumeric)

\* " ".join(text.split())
Squeezed(text) == Spaced(text, Characters \ Spaces)

Visible(text) == \E i \in DOMAIN text : text[i] \notin Spaces

Strip(text) ==
    LET shown == {i \in DOMAIN text : text[i] \notin Spaces}
    IN  IF shown = {} THEN <<>> ELSE SubSeq(text, Min(shown), Max(shown))

\* The maximal runs of a text that contain none of the given positions.
Runs(text, breaks) ==
    {SubSeq(text, r[1], r[2]) : r \in
        {r \in (1..Len(text)) \X (1..Len(text)) :
            /\ r[1] <= r[2] /\ (r[1]..r[2]) \intersect breaks = {}
            /\ r[1] = 1 \/ r[1] - 1 \in breaks
            /\ r[2] = Len(text) \/ r[2] + 1 \in breaks}}

Starts(part, text) ==
    {i \in 1..Len(text) - Len(part) + 1 : SubSeq(text, i, i + Len(part) - 1) = part}

\* The text with another part where the given occurrences of a part were.
ReplacedAt(starts, part, new, text) == FlattenSeq([i \in DOMAIN text |->
    IF i \in starts THEN new
    ELSE IF \E j \in starts : i \in j..j + Len(part) - 1 THEN <<>>
    ELSE <<text[i]>>])

Replaced(text, part, new) == ReplacedAt(Starts(part, text), part, new, text)

----------------------------------------------------------------------------

Fillings == {"display", "field", "bullets", "numbers"}

ASSUME HostedAssumption ==
    /\ Letters \intersect (Spaces \union {Bullet, Dot, Dash, Customer, Secret, "E", "P"}
                             \union Range(Digit)) = {}
    \* A name is told from the words the tools put in, and does not overlap itself.
    /\ \A n \in Names :
          /\ n # <<>> /\ Range(n) \subseteq Letters \union {Blank} /\ Strip(n) = n
          /\ \A i \in 2..Len(n) : ~IsPrefix(SubSeq(n, i, Len(n)), n)
    /\ Evidences \union Rewritings \subseteq Seq(Characters)
    /\ \A t \in Templates : \A s \in DOMAIN t :
          /\ t[s].fill \in Fillings /\ t[s].entries \in 1..3
          /\ t[s].width \in 1..99 /\ t[s].height \in 1..9
          /\ t[s].texts \subseteq Seq(Characters)
          /\ t[s].fill \in {"display", "field"} <=> t[s].entries = 1   \* lists have 2 or 3
    /\ Labelled \subseteq Templates
    /\ MaxRepairs \in Nat

VARIABLES
    pc,             \* write, draft, judged, delivered or closed
    layout,         \* the part of the template that is looked at
    name,           \* request.customer_name
    approved,       \* customer_name_approved_for_external_use
    labels,         \* the text of the protected shapes that matters: the name, or none
    evidence,       \* the text extracted from the provenance files
    content,        \* the last content passed to the generator
    deck,           \* the text of each editable shape of the deck
    intact,         \* the deck is as the generator saved it
    altered,        \* a protected shape, a region or a font is not the template's
    verdict,        \* of the last validation: none, approved, failed, sensitive or inconclusive
    repairs

request == <<layout, name, approved, labels, evidence>>
vars == <<pc, request, content, deck, intact, altered, verdict, repairs>>

Shapes == DOMAIN layout
DisplayName == IF approved THEN name ELSE <<Customer>>

\* What the agent may pass for a shape: one text, or a list of them.
Contents(s) ==
    UNION {[1..k -> layout[s].texts] :
             k \in IF layout[s].entries = 1 THEN {1} ELSE 0..layout[s].entries}

NoDeck == [s \in Shapes |-> <<>>]

TypeOK ==
    /\ pc \in {"write", "draft", "judged", "delivered", "closed"}
    /\ layout \in Templates /\ name \in Names /\ evidence \in Evidences
    /\ labels \in {<<>>, name}
    /\ DOMAIN content = Shapes /\ DOMAIN deck = Shapes
    /\ \A s \in Shapes : content[s] \in Contents(s) \union {<<>>}
    /\ \A s \in Shapes : deck[s] \in Seq(Characters)
    /\ approved \in BOOLEAN /\ intact \in BOOLEAN /\ altered \in BOOLEAN
    /\ verdict \in {"none", "approved", "failed", "sensitive", "inconclusive"}
    /\ repairs \in 0..MaxRepairs

Init ==
    /\ pc = "write"
    /\ layout \in Templates /\ name \in Names /\ evidence \in Evidences
    /\ approved \in BOOLEAN
    /\ labels \in {<<>>} \union IF layout \in Labelled THEN {name} ELSE {}
    /\ content = NoDeck /\ deck = NoDeck
    /\ intact = TRUE /\ altered = FALSE
    /\ verdict = "none"
    /\ repairs = 0

----------------------------------------------------------------------------
(* Generation. *)

\* text_is_evidence_backed: a comparison of characters, not of words.
EvidenceBacked(text) ==
    LET normal == Normal(text)
    IN  normal = Normal(Pending) \/ (normal # <<>> /\ Occurs(normal, Normal(evidence)))

\* Mutant: one character in common is enough.
GroundedByCharacter(text) ==
    IF Range(Normal(text)) \intersect Range(evidence) # {} THEN text ELSE Pending

Grounded(text) == IF EvidenceBacked(text) THEN text ELSE Pending

\* Mutant: only the first occurrence is replaced.
RedactedOnce(text) ==
    LET starts == Starts(name, text)
    IN  IF approved \/ starts = {} THEN text
        ELSE ReplacedAt({Min(starts)}, name, <<Customer>>, text)

\* The name as it is spelled in the request.
Redacted(text) == IF approved THEN text ELSE Replaced(text, name, <<Customer>>)

\* The display name is taken as it is; every other field must be in the evidence.
Entry(s, text) == Redacted(IF layout[s].fill = "display" THEN text ELSE Grounded(text))

TemplateItems(s, items) ==
    [i \in 1..layout[s].entries |-> IF i \in DOMAIN items THEN Entry(s, items[i]) ELSE Pending]

Padding == <<Blank, Blank, Blank>>

Lead(s, i) ==
    IF layout[s].fill = "bullets" /\ i > 1 THEN Padding \o <<Bullet>> \o Padding
    ELSE IF layout[s].fill = "numbers"
         THEN (IF i > 1 THEN <<Newline, Newline>> ELSE <<>>) \o <<Digit[i], Dot, Blank>>
    ELSE <<>>

Joined(s, items) == FlattenSeq([i \in DOMAIN items |-> Lead(s, i) \o items[i]])

LinesFor(s, length) == (length + layout[s].width - 1) \div layout[s].width

\* _fits_text_region counts each line on its own, blank ones not at all.
FitsRegion(s, text) ==
    LET starts == {1} \union {i + 1 : i \in {i \in DOMAIN text : text[i] = Newline}}
        end(i) == Min({j \in i..Len(text) : text[j] = Newline} \union {Len(text) + 1})
        lines == {i \in starts : Visible(SubSeq(text, i, end(i) - 1))}
    IN  MapThenSumSet(LAMBDA i : LinesFor(s, end(i) - i), lines) <= layout[s].height

\* _fit_evidence_excerpt drops words from the end.
Excerpt(s, text) ==
    LET words == Squeezed(text)
        fitting == {n \in DOMAIN words :
                      (n = Len(words) \/ words[n + 1] = Blank) /\ FitsRegion(s, SubSeq(words, 1, n))}
    IN  IF fitting = {} THEN Pending ELSE SubSeq(words, 1, Max(fitting))

Replacement(s, passed) ==
    LET text == Joined(s, TemplateItems(s, passed))
    IN  IF text = Pending \/ FitsRegion(s, text) THEN text ELSE Excerpt(s, text)

\* The tool writes a deck, or raises: a source cannot be read, or the template
\* is missing.
Generate ==
    /\ pc = "write"
    /\ \/ /\ content' \in {c \in [Shapes -> UNION {Contents(s) : s \in Shapes}] :
                             \A s \in Shapes : c[s] \in Contents(s)}
          /\ deck' = [s \in Shapes |-> Replacement(s, content'[s])]
          /\ intact' = TRUE /\ altered' = FALSE
          /\ pc' = "draft"
       \/ pc' = "closed" /\ deck' = NoDeck /\ UNCHANGED <<content, intact, altered>>
    /\ UNCHANGED <<request, verdict, repairs>>

\* The agent's other tools write files of the workspace as well, before or after
\* a validation: the deck with other text, or another presentation.
Overwrite ==
    /\ pc \in {"draft", "judged"} /\ intact
    /\ deck' \in [Shapes -> Rewritings]
    /\ altered' \in BOOLEAN
    /\ intact' = FALSE
    /\ content' = NoDeck
    /\ UNCHANGED <<pc, request, verdict, repairs>>

----------------------------------------------------------------------------
(* Validation. *)

\* digits, a dot and a space
OrdinalAt(text, i) ==
    \E d \in i + 1..Len(text) - 1 :
        /\ \A j \in i..d - 1 : text[j] \in Range(Digit)
        /\ text[d] = Dot /\ text[d + 1] \in Spaces

\* Digits and a dot at the front go, also those of a number with decimals.
WithoutOrdinal(segment) ==
    LET dots == {d \in 2..Len(segment) :
                   segment[d] = Dot /\ \A j \in 1..d - 1 : segment[j] \in Range(Digit)}
    IN  IF dots = {} THEN segment ELSE SubSeq(segment, Max(dots) + 1, Len(segment))

\* _editable_content_segments
Segments(shown) ==
    LET text == Strip(shown)
        breaks == {i \in DOMAIN text :
                     \/ text[i] \in {Newline, Bullet}
                     \/ text[i] \in Spaces /\ OrdinalAt(text, i + 1)}
    IN  {Strip(WithoutOrdinal(g)) : g \in {g \in Runs(text, breaks) : Visible(g)}}

Boilerplate(s, segment) == layout[s].fill = "display" /\ segment = DisplayName

\* Mutant: the deck is compared with the evidence as it is.
SourceFormIdentity(segment) == segment

\* _source_form: "customer" is read as the name inside words as well.
SourceForm(segment) == IF approved THEN segment ELSE Replaced(segment, <<Customer>>, name)

Accepted(s, segment) == Boilerplate(s, segment) \/ EvidenceBacked(SourceForm(segment))

\* _estimated_line_count takes what the generator wrote for one paragraph.
Overflows(s) == LinesFor(s, Len(Strip(deck[s]))) > layout[s].height

\* The markers are regular expressions with \b at both ends.
Leaks(text) ==
    \E i \in DOMAIN text :
        /\ text[i] = Secret
        /\ i > 1 => text[i - 1] \notin Alphanumeric
        /\ i < Len(text) => text[i + 1] \notin Alphanumeric

Sensitive == \E s \in Shapes : Leaks(deck[s])

NameShown == Occurs(name, labels) \/ \E s \in Shapes : Occurs(name, deck[s])

\* validate_presentation: the template's elements, the markers, the literal name.
PolicyFindings == altered \/ Sensitive \/ (~approved /\ NameShown)

\* Mutant: the text is not compared with the evidence.
FoundApprovedVisually == ~PolicyFindings /\ \A s \in Shapes : ~Overflows(s)

FoundApproved ==
    /\ ~PolicyFindings
    /\ \A s \in Shapes : ~Overflows(s) /\ \A g \in Segments(deck[s]) : Accepted(s, g)

\* A validation that cannot read the policy, the template or a source is inconclusive.
Validate ==
    /\ pc = "draft"
    /\ verdict' \in {"inconclusive",
                     IF FoundApproved THEN "approved" ELSE IF Sensitive THEN "sensitive" ELSE "failed"}
    /\ pc' = "judged"
    /\ UNCHANGED <<request, content, deck, intact, altered, repairs>>

\* What the agent is told to do with a verdict (main.py:79-86).
Deliver == verdict = "approved" /\ pc' = "delivered" /\ UNCHANGED <<content, deck, repairs>>

Repair ==
    /\ verdict = "failed" /\ repairs < MaxRepairs
    /\ repairs' = repairs + 1
    /\ pc' = "write"
    /\ content' = NoDeck       \* the next call brings its own
    /\ UNCHANGED deck

FailClosed ==
    /\ verdict # "approved"
    /\ pc' = "closed"
    /\ deck' = NoDeck
    /\ UNCHANGED <<content, repairs>>

Follow ==
    /\ pc = "judged"
    /\ Deliver \/ Repair \/ FailClosed
    /\ verdict' = "none"
    /\ UNCHANGED <<request, intact, altered>>

Over == pc \in {"delivered", "closed"} /\ UNCHANGED vars

Next == Generate \/ Overwrite \/ Validate \/ Follow \/ Over

Spec == Init /\ [][Next]_vars

----------------------------------------------------------------------------
(* Properties. *)

Generated == pc \in {"draft", "judged"} /\ intact

OneWord == Blank \notin Range(name)

\* What the tool writes never holds a one-word name of a customer who has not
\* approved it, whatever content the agent passes, also where entries are joined
\* and cut (operations.py:126-148 before pptx_skill/generation.py:51-78).
GeneratedDeckAnonymous ==
    Generated /\ ~approved /\ OneWord => \A s \in Shapes : ~Occurs(name, deck[s])

\* The text with any of its customers read as the name.
Readings(text) ==
    IF approved THEN {text}
    ELSE {ReplacedAt(P, <<Customer>>, name, text) : P \in SUBSET Starts(<<Customer>>, text)}

Quotes(text) == \E reading \in Readings(text) : Occurs(Normal(reading), Normal(evidence))

\* The segment, and the segment without what a cut may have left of the next ordinal.
WithoutTail(segment) ==
    {segment} \union {Strip(SubSeq(segment, 1, Len(segment) - 2)) :
        i \in {i \in DOMAIN Digit : IsSuffix(<<Digit[i], Dot>>, segment)}}

\* "Unsupported content is replaced with Evidence pending" (operations.py:168-169):
\* before any validation, the characters of every entry a deck shows stand together
\* in the evidence, or say that evidence is pending, however entries were joined,
\* redacted and cut.
GeneratedDeckQuotes ==
    Generated => \A s \in Shapes : layout[s].fill # "display" =>
        \A g \in Segments(deck[s]) : \E text \in WithoutTail(g) :
            Quotes(text) \/ IsPrefix(text, Pending)

\* The generator and the validator agree: a deck is approved as it was written
\* (validation.py:38-69 undoes the joining and the redaction), unless the name has
\* several words or stands in the template, the evidence itself says "customer" of
\* an unapproved name, something sensitive is shown, the display name is not the
\* request's, an entry has no letters, or a text of several lines was cut or fills
\* its lines (H26, H27, H28).
GeneratedDeckAccepted ==
    /\ Generated /\ pc = "draft" /\ ~Sensitive
    /\ approved \/ (OneWord /\ labels = <<>> /\ Customer \notin Range(evidence))
    /\ \A s \in Shapes :
          /\ layout[s].fill = "display" => deck[s] = DisplayName
          /\ \A g \in Segments(deck[s]) : Normal(g) # <<>>
          /\ LET text == Joined(s, TemplateItems(s, content[s]))
             IN  Newline \in Range(text) \/ Bullet \in Range(text) =>
                    deck[s] = text /\ ~Overflows(s)
    => FoundApproved

\* A maximal run of letters and digits.
WordsOf(text) == Runs(text, {i \in DOMAIN text : text[i] \notin Alphanumeric})

\* Whatever wrote a deck, the validator reads all of it (validation.py:38-46,
\* 261-273): in a deck it finds approved, every word of an editable shape is in the
\* evidence, in the placeholder or in the display name, or is a number in front of
\* an entry.
ApprovedDeckExplained ==
    pc = "draft" /\ FoundApproved =>
        \A s \in Shapes : \A w \in WordsOf(deck[s]) :
            \/ Occurs(Normal(SourceForm(w)), Normal(evidence))
            \/ Occurs(w, Pending) \/ Range(w) \subseteq Range(Digit)
            \/ layout[s].fill = "display" /\ Occurs(w, DisplayName)

(* What documentation says and the code does not satisfy (README, section 4). *)

\* "unapproved customer names can be redacted" (operations.py:169-170): a name of
\* several words is not, where the content has another space or mark in it.
GeneratedDeckUnnamed ==
    Generated /\ ~approved => \A s \in Shapes : ~Occurs(Normal(name), Normal(deck[s]))

\* The validator does not find such a name either (pptx_skill/validation.py:140-148).
ApprovedDeckUnnamed ==
    pc = "draft" /\ FoundApproved /\ ~approved =>
        \A s \in Shapes : ~Occurs(Normal(name), Normal(deck[s]))

\* "A contiguous verbatim phrase, clause, or sentence" (main.py:75): the code is
\* content with a part of a word at either end.
GeneratedDeckQuotesWords ==
    Generated /\ approved => \A s \in Shapes : layout[s].fill = "field" =>
        \A w \in WordsOf(deck[s]) : w \in WordsOf(evidence) \union WordsOf(Pending)

\* "Every content field must be a direct source statement; unsupported content is
\* replaced with Evidence pending" (operations.py:168-169): what the generator
\* kept is not reported as UNSUPPORTED_EVIDENCE.
KeptTextIsSupported ==
    Generated => \A s \in Shapes : layout[s].fill = "field" =>
        \A g \in Segments(deck[s]) : Accepted(s, g)

\* The same for the entries of a list, which are joined into one region and cut, also
\* where the evidence does not say "customer".
KeptEntriesAreSupported ==
    Generated /\ Customer \notin Range(evidence) => \A s \in Shapes : layout[s].entries > 1 =>
        \A g \in Segments(deck[s]) : Normal(g) # <<>> => Accepted(s, g)

\* "Use Customer and never place the raw customer name in any content field"
\* (main.py:72-73): an excerpt of the evidence that was written so is kept.
InstructedTextIsKept ==
    pc = "draft" /\ intact => \A s \in Shapes :
        layout[s].fill = "field" /\ ~approved
        /\ ~Occurs(name, content[s][1]) /\ Visible(content[s][1]) /\ Quotes(content[s][1])
        /\ FitsRegion(s, content[s][1])
          => deck[s] = content[s][1]

\* "Return a deck only when the deterministic result is approved" (main.py:82-83):
\* the deck that is returned would be approved as it is then.
DeliveredDeckApproved == pc = "delivered" => FoundApproved
=============================================================================
