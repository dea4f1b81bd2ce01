------------------------ MODULE SiteContentProperties ------------------------
(***************************************************************************)
(* What editors and visitors may rely on.                                  *)
(***************************************************************************)
EXTENDS SiteContent

\* Whoever changes or deletes a row with a version was told of it as it is: it was
\* created by this very step, it was switched off at its end, or the last answer
\* that some page has of it is exactly what is replaced, its switch, its schedule
\* and the other parts of a product included.
EditorsSawWhatTheyReplace ==
    [][(row' # row /\ kind # "synonym") =>
          \/ row = Absent
          \/ row' = SwitchedOff(row) /\ Ended(row)
          \/ \E p \in Pages : shown[p] = Showing(row)]_contentVars

\* Opening a list in the admin panel, which switches off what has ended, never
\* changes what visitors see: the panel and the public pages agree on when a
\* schedule is over, to the moment.
HousekeepingIsInvisible ==
    [][shown' # shown => (Public(row)' <=> Public(row))]_contentVars
==============================================================================
