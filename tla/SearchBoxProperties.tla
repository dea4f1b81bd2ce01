------------------------- MODULE SearchBoxProperties -------------------------
(***************************************************************************)
(* What the search box shows.                                              *)
(***************************************************************************)
EXTENDS SearchBox

\* The box does not say that it searches, and what it lists answers its text.
SettledOnTheText ==
    /\ ~busy
    /\ list # <<>> => text \in Long /\ list = Answer[text]

\* The suggestions for a text include the best hit of each kind that has one.
EachKindIsSeen(t) ==
    \A kind \in DOMAIN Entries :
        1 \in DOMAIN Hits(t, kind) =>
            \E i \in DOMAIN Answer[t] :
                Answer[t][i] = [type |-> kind, value |-> Hits(t, kind)[1].value]

\* Once no request is due or under way, the suggestions are those for the text
\* in the box, or none, and the box does not say that it searches: an answer that
\* comes after the text has changed, or after that of a later text, is not shown.
\* Among them is the best hit of each kind that has one, however many hits there
\* are of the others.
BoxAnswersTheText ==
    (~timer /\ flying = {}) => SettledOnTheText /\ (list # <<>> => EachKindIsSeen(text))
==============================================================================
