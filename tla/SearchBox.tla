------------------------------ MODULE SearchBox ------------------------------
(***************************************************************************)
(* The search box: what the visitor types (SearchAutocomplete), and the    *)
(* suggestions that the API answers (CatalogService.suggestions).          *)
(*                                                                         *)
(* A request goes out a quarter of a second after the last change of the   *)
(* text; the answers of several requests may come in any order, or not.    *)
(*                                                                         *)
(* Abstracted: the spellings of a text (transliteration, without spaces)   *)
(* and whether an entry of the catalogue matches a spelling are constants; *)
(* so is the order of the entries.  Following a suggestion or the whole    *)
(* search leaves the page for another, with the box still in the header.   *)
(***************************************************************************)
EXTENDS Integers, SequencesExt

CONSTANTS
    Long,        \* texts of two characters and more
    Short,       \* shorter ones
    Spellings,   \* for each text, its spellings
    Synonyms,    \* pairs of a term and its canonical term
    Entries,     \* for each kind, the entries of the catalogue with their spellings
    AnswerLimit  \* 7

Kinds == <<"SKU", "PRODUCT", "CATEGORY", "BRAND", "QUERY">>

\* An answer has room for one suggestion of each kind.
ASSUME BoxAssumption == /\ Long \cap Short = {} /\ AnswerLimit \in Nat /\ AnswerLimit >= 5
                        /\ Long \cup UNION {{s[1], s[2]} : s \in Synonyms} \subseteq DOMAIN Spellings
                        /\ DOMAIN Entries = {Kinds[k] : k \in 1..5}

VARIABLES
    text,     \* what is typed
    list,     \* the suggestions
    shown,    \* the list is open
    active,   \* the suggestion that is highlighted (0: none)
    busy,     \* the box says that it is searching
    timer,    \* a request will go out
    flying    \* texts of the requests whose answers the box waits for

boxVars == <<text, list, shown, active, busy, timer, flying>>

-------------------------------------------------------------------------------
(* The suggestions for a text *)

Terms(t) ==
    Spellings[t] \cup UNION {Spellings[s[1]] \cup Spellings[s[2]] :
        s \in {s \in Synonyms : {s[1], s[2]} \cap Spellings[t] # {}}}

Hits(t, kind) == SelectSeq(Entries[kind], LAMBDA e : e.spellings \cap Terms(t) # {})

\* The first hit of each kind, then the second of each, and so on.
Slip_KindByKind(t) ==
    FlattenSeq([k \in 1..5 |-> [i \in 1..Len(Hits(t, Kinds[k])) |->
        [type |-> Kinds[k], value |-> Hits(t, Kinds[k])[i].value]]])
InTurn(t) ==
    LET hit(i, kind) == IF i \in DOMAIN Hits(t, kind)
                        THEN <<[type |-> kind, value |-> Hits(t, kind)[i].value]>> ELSE <<>>
    IN FlattenSeq([i \in 1..AnswerLimit |-> FlattenSeq([k \in 1..5 |-> hit(i, Kinds[k])])])

\* Without repetition, and no more than the limit.
Answer[t \in Long] ==
    FoldLeft(LAMBDA s, x : IF Len(s) < AnswerLimit /\ ~Contains(s, x) THEN Append(s, x) ELSE s,
             <<>>, InTurn(t))

BoxTypeOK ==
    /\ text \in Long \cup Short
    /\ list \in {<<>>} \cup {Answer[t] : t \in Long}
    /\ active \in 0..AnswerLimit
    /\ {shown, busy, timer} \subseteq BOOLEAN
    /\ flying \subseteq Long

BoxInit ==
    /\ text \in Short \cup Long
    /\ list = <<>> /\ active = 0 /\ flying = {}
    /\ shown = FALSE /\ busy = FALSE
    /\ timer = (text \in Long)

-------------------------------------------------------------------------------
\* The effect of a new text: the timer and the request of the old one are given
\* up, and a timer is set.
Slip_StillFlying == flying
StillFlying == {}

Typed(t) ==
    /\ text' = t
    /\ IF t = text THEN UNCHANGED <<timer, flying>>
       ELSE timer' = (t \in Long) /\ flying' = StillFlying

Type(t) ==
    /\ Typed(t)
    /\ IF t \in Short THEN list' = <<>> /\ shown' = FALSE /\ busy' = FALSE
                      ELSE UNCHANGED <<list, shown, busy>>
    /\ UNCHANGED active

\* The button that clears the box.
Clear(t) ==
    /\ t \in Short /\ Typed(t)
    /\ list' = <<>> /\ shown' = FALSE /\ busy' = FALSE
    /\ UNCHANGED active

\* A suggestion is opened: its label becomes the text (no entry has a name of a
\* single character).
Open(t) ==
    /\ shown /\ list # <<>> /\ t \in Long /\ Typed(t)
    /\ shown' = FALSE
    /\ UNCHANGED <<list, active, busy>>

TimerFires ==
    /\ timer
    /\ timer' = FALSE /\ busy' = TRUE /\ shown' = TRUE
    /\ flying' = flying \cup {text}
    /\ UNCHANGED <<text, list, active>>

\* An answer to a request, empty if it is an error.
Arrives(t) ==
    /\ t \in flying
    /\ list' \in {Answer[t], <<>>}
    /\ active' = 0 /\ shown' = (list' # <<>>) /\ busy' = FALSE
    /\ flying' = flying \ {t}
    /\ UNCHANGED <<text, timer>>

\* The request fails.
Breaks(t) ==
    /\ t \in flying
    /\ list' = <<>> /\ shown' = FALSE /\ busy' = FALSE
    /\ flying' = flying \ {t}
    /\ UNCHANGED <<text, active, timer>>

\* Arrow keys and the pointer.
Highlight(i) ==
    /\ shown /\ i \in 1..Len(list)
    /\ active' = i
    /\ UNCHANGED <<text, list, shown, busy, timer, flying>>

\* Escape, leaving the field, a search for the whole text; returning to it.
Hide == shown' = FALSE /\ UNCHANGED <<text, list, active, busy, timer, flying>>
Focus ==
    /\ list # <<>> /\ shown' = TRUE
    /\ UNCHANGED <<text, list, active, busy, timer, flying>>

BoxNext ==
    \/ \E t \in Long \cup Short : Type(t) \/ Clear(t) \/ Open(t)
    \/ TimerFires
    \/ \E t \in Long : Arrives(t) \/ Breaks(t)
    \/ \E i \in 1..AnswerLimit : Highlight(i)
    \/ Hide
    \/ Focus

BoxSpec == BoxInit /\ [][BoxNext]_boxVars
==============================================================================
