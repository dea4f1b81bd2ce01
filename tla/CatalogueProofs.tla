--------------------------- MODULE CatalogueProofs ---------------------------
(***************************************************************************)
(* Theorems about the catalogue and what is edited on the site, for every  *)
(* number of rows, batches, editors and products.                          *)
(***************************************************************************)
EXTENDS CatalogImportProperties, SiteContentProperties, CatalogSearchProperties,
        SumTheorems

-------------------------------------------------------------------------------
(* Content edited on the site: the inductive invariant.                    *)

\* A page that has read a row knows no later version than there is, and what it
\* knows of the version that there is is the row.
ViewOK(p) ==
    (shown[p].state = "read" /\ kind # "synonym") =>
        /\ shown[p].row.version >= 0
        /\ row.version # -1 => shown[p].row.version <= row.version
        /\ shown[p].row.version = row.version => shown[p].row = row

\* Preferences are never deleted.
PreferencesStay == kind = "preferences" => row.version # -1

\* The inductive invariant of the site's content.
ContentInv == ContentTypeOK /\ PreferencesStay /\ \A p \in Pages : ViewOK(p)

\* A row that is not there, and a text.
LEMMA AbsentRow ==
    /\ AnyText \in Texts
    /\ Absent \in SiteRow /\ Absent.version = 0
    /\ Deleted \in SiteRow /\ Deleted.version = -1
    /\ 1 \in -1..MaxEdits
  <1>1. AnyText \in Texts
    BY TextsAssumption DEF AnyText
  <1>2. 0 \in -1..MaxEdits /\ -1 \in -1..MaxEdits /\ 1 \in -1..MaxEdits /\ 0 \in 0..LastDay
    BY ContentBoundsAssumption
  <1>3. Absent \in SiteRow /\ Absent.version = 0
    BY <1>1, <1>2 DEF Absent, SiteRow
  <1>4. Deleted \in SiteRow /\ Deleted.version = -1
    BY <1>2, <1>3 DEF Deleted, SiteRow
  <1>5. QED BY <1>1, <1>2, <1>3, <1>4

\* Nobody has read the row.
LEMMA ContentInitInv == ContentInit => ContentInv
  <1> SUFFICES ASSUME ContentInit PROVE ContentInv
    OBVIOUS
  <1>1. row \in SiteRow
    <2>1. [Absent EXCEPT !.version = 1] \in SiteRow
      BY AbsentRow DEF SiteRow
    <2>2. QED BY <2>1, AbsentRow DEF ContentInit
  <1>2. Blank \in View /\ Blank.state = "blank"
    BY AbsentRow DEF Blank, View
  <1>3. ContentTypeOK
    BY <1>1, <1>2, ContentBoundsAssumption DEF ContentInit, ContentTypeOK
  <1>4. \A p \in Pages : ViewOK(p)
    BY <1>2 DEF ContentInit, ViewOK
  <1>5. PreferencesStay
    BY AbsentRow DEF ContentInit, PreferencesStay
  <1>6. QED BY <1>3, <1>4, <1>5 DEF ContentInv

\* The next version of a row, its deletion, or the loss of what a synonym said.
LEMMA RowBecomes ==
    ASSUME ContentInv, NEW r \in SiteRow, row' = r, UNCHANGED <<kind, shown>>,
           today' \in 1..(LastDay + 1), kind = "preferences" => r.version # -1,
           \/ r = row \/ kind = "synonym" \/ r.version = -1
           \/ row.version >= 0 /\ r.version = row.version + 1
    PROVE  ContentInv'
  <1>1. ContentTypeOK'
    BY DEF ContentInv, ContentTypeOK
  <1>2. ASSUME NEW p \in Pages PROVE ViewOK(p)'
    <2>1. ViewOK(p) /\ shown[p].row.version \in Int /\ row.version \in Int /\ r.version \in Int
      BY ContentBoundsAssumption DEF ContentInv, ContentTypeOK, View, SiteRow
    <2>2. QED BY <2>1 DEF ViewOK
  <1>3. PreferencesStay'
    BY DEF PreferencesStay
  <1>4. QED BY <1>1, <1>2, <1>3 DEF ContentInv

\* What an edit writes.
LEMMA WrittenRow ==
    ASSUME ContentInv, NEW t \in Texts, NEW on \in BOOLEAN,
           NEW from \in 0..LastDay, NEW to \in 0..LastDay, row.version < MaxEdits
    PROVE  /\ Timed(t, on, from, to) \in SiteRow
           /\ Timed(t, on, from, to).version = row.version + 1
  <1>1. row.version + 1 \in -1..MaxEdits
    BY ContentBoundsAssumption DEF ContentInv, ContentTypeOK, SiteRow
  <1>2. QED BY <1>1, AbsentRow DEF Timed, SiteRow

\* An edit without a schedule.
LEMMA WrittenPlainly ==
    ASSUME ContentInv, NEW t \in Texts, NEW on \in BOOLEAN, row.version < MaxEdits
    PROVE  Written(t, on) \in SiteRow /\ Written(t, on).version = row.version + 1
  <1>1. 0 \in 0..LastDay
    BY ContentBoundsAssumption
  <1>2. QED BY <1>1, WrittenRow DEF Written

\* Whoever may save knows the row as it is.
LEMMA SaversKnow ==
    ASSUME ContentInv, NEW p \in Pages, HasRead(p), Current(p), kind # "synonym"
    PROVE  shown[p] = Showing(row) /\ row.version >= 0
  <1>1. shown[p].state = "read" /\ shown[p].row.version = row.version
    BY DEF HasRead, Current
  <1>2. shown[p] \in View /\ shown[p].row = row /\ row.version >= 0
    BY <1>1 DEF ContentInv, ContentTypeOK, ViewOK
  <1>3. QED BY <1>1, <1>2 DEF View, Showing

\* An edit of a row other than a synonym writes the next version of it, or deletes
\* it, and was made on a page that knows it, unless it creates it.
LEMMA EditsAreOfKnownRows ==
    ASSUME ContentInv, Cataloguing \/ Promoting \/ Publishing \/ InTheAccount
    PROVE  /\ UNCHANGED <<kind, shown, today>> /\ row' \in SiteRow
           /\ kind = "preferences" => row'.version # -1
           /\ kind # "synonym" =>
                 /\ row = Absent \/ \E p \in Pages : shown[p] = Showing(row)
                 /\ row'.version = -1 \/ (row.version >= 0 /\ row'.version = row.version + 1)
  <1> DEFINE Seen == row = Absent \/ \E q \in Pages : shown[q] = Showing(row)
             Fine == /\ UNCHANGED <<kind, shown, today>> /\ row' \in SiteRow
                     /\ kind = "preferences" => row'.version # -1
                     /\ kind # "synonym" =>
                           /\ row = Absent \/ \E p \in Pages : shown[p] = Showing(row)
                           /\ \/ row'.version = -1
                              \/ row.version >= 0 /\ row'.version = row.version + 1
  <1>1. ASSUME NEW table \in RowKinds, MayCreate(table)
        PROVE  row = Absent /\ row.version >= 0 /\ row.version < MaxEdits
    BY <1>1, AbsentRow, ContentBoundsAssumption DEF MayCreate
  <1>2. ASSUME NEW table \in RowKinds \ {"synonym"}, NEW p \in Pages, MaySave(table, p)
        PROVE  /\ shown[p] = Showing(row) /\ row.version >= 0 /\ row.version < MaxEdits
               /\ kind = table
    BY <1>2, SaversKnow DEF MaySave
  <1>3. ASSUME NEW r \in SiteRow, r.version = row.version + 1, Becomes(r), row.version >= 0,
               Seen
        PROVE  Fine
    <2>1. row'.version = row.version + 1 /\ row.version \in Int
      BY <1>3, ContentBoundsAssumption DEF Becomes, ContentInv, ContentTypeOK, SiteRow
    <2>2. QED BY <1>3, <2>1 DEF Becomes
  <1>4. ASSUME NEW r \in SiteRow, Becomes(r), kind = "synonym" PROVE Fine
    BY <1>4 DEF Becomes
  <1>5. ASSUME Becomes(Deleted), kind # "preferences", Seen PROVE Fine
    BY <1>5, AbsentRow DEF Becomes
  <1> HIDE DEF Fine
  <1>0. ASSUME NEW p \in Pages, shown[p] = Showing(row) PROVE Seen
    BY <1>0
  <1>00. row = Absent => Seen
    OBVIOUS
  <1> HIDE DEF Seen
  <1>6. ASSUME NEW p \in Pages, NEW t \in Texts,
               \/ UpdateProductContent(p, t) \/ ReplaceImages(p, t) \/ ReplaceRelations(p, t)
        PROVE  Fine
    <2>1. MaySave("product", p)
      BY <1>6 DEF UpdateProductContent, ReplaceImages, ReplaceRelations
    <2>2. shown[p] = Showing(row) /\ row.version >= 0 /\ row.version < MaxEdits
      BY <1>2, <2>1 DEF RowKinds
    <2>3. PICK half : half = [row EXCEPT !.version = row.version + 1]
      OBVIOUS
    <2>4. row.version + 1 \in -1..MaxEdits /\ row \in SiteRow
      BY <2>2, ContentBoundsAssumption DEF ContentInv, ContentTypeOK, SiteRow
    <2>5. half \in SiteRow /\ half.version = row.version + 1
      BY <2>3, <2>4 DEF SiteRow
    <2>6. PICK r : r \in {[half EXCEPT !.text = t], [half EXCEPT !.images = t],
                          [half EXCEPT !.relations = t]} /\ Becomes(r)
      BY <1>6, <2>3, <2>4 DEF UpdateProductContent, ReplaceImages, ReplaceRelations, SiteRow
    <2>7. r \in SiteRow /\ r.version = row.version + 1
      BY <2>5, <2>6 DEF SiteRow
    <2>8. QED BY <1>0, <1>3, <2>2, <2>6, <2>7
  <1>7. ASSUME NEW p \in Pages, NEW t \in Texts, NEW on \in BOOLEAN,
               \/ CreateSynonym(t) \/ DeleteSynonym(p) \/ UpdateSynonym(p, t, on)
        PROVE  Fine
    <2>1. kind = "synonym"
      BY <1>7 DEF CreateSynonym, DeleteSynonym, UpdateSynonym, MayCreate
    <2>2. CASE CreateSynonym(t)
      <3>1. Written(t, TRUE) \in SiteRow
        BY <1>1, <2>2, WrittenPlainly DEF CreateSynonym, RowKinds
      <3>2. QED BY <1>4, <2>1, <2>2, <3>1 DEF CreateSynonym
    <2>3. CASE DeleteSynonym(p)
      BY <1>4, <2>1, <2>3, AbsentRow DEF DeleteSynonym
    <2>4. CASE UpdateSynonym(p, t, on)
      <3>1. [row EXCEPT !.text = t, !.active = on] \in SiteRow
        BY DEF ContentInv, ContentTypeOK, SiteRow
      <3>2. QED BY <1>4, <2>1, <2>4, <3>1 DEF UpdateSynonym
    <2>5. QED BY <1>7, <2>2, <2>3, <2>4
  <1>8. ASSUME NEW p \in Pages, NEW r,
               \/ \E table \in RowKinds : MayCreate(table)
               \/ \E table \in RowKinds \ {"synonym"} : MaySave(table, p)
        PROVE  row.version >= 0 /\ row.version < MaxEdits
               /\ Seen
    BY <1>0, <1>00, <1>1, <1>2, <1>8
  <1>9. ASSUME Promoting PROVE Fine
    <2>1. PICK p \in Pages, t \in Texts, on \in BOOLEAN, from \in 0..LastDay, to \in 0..LastDay :
             LET r == Timed(t, on, from, to)
             IN CreatePromotion(r) \/ UpdatePromotion(p, r)
      BY <1>9 DEF Promoting
    <2>2. PICK r : r = Timed(t, on, from, to)
      OBVIOUS
    <2>3. Becomes(r) /\ (MayCreate("promotion") \/ MaySave("promotion", p))
      BY <2>1, <2>2 DEF CreatePromotion, UpdatePromotion
    <2>4. row.version >= 0 /\ row.version < MaxEdits
          /\ Seen
      BY <1>8, <2>3 DEF RowKinds, Scheduled
    <2>5. r \in SiteRow /\ r.version = row.version + 1
      BY <2>2, <2>4, WrittenRow
    <2>6. QED BY <1>3, <2>2, <2>3, <2>4, <2>5
  <1>10. ASSUME Publishing PROVE Fine
    <2>1. PICK p \in Pages, t \in Texts, on \in BOOLEAN :
             \/ CreatePage(Written(t, on)) \/ UpdatePage(p, Written(t, on))
             \/ \E from, to \in 0..LastDay :
                   LET r == Timed(t, on, from, to)
                   IN CreateBanner(r) \/ UpdateBanner(p, r)
      BY <1>10 DEF Publishing
    <2>2. PICK table \in {"page", "banner"}, from \in 0..LastDay, to \in 0..LastDay :
             Becomes(Timed(t, on, from, to)) /\ (MayCreate(table) \/ MaySave(table, p))
      <3>1. 0 \in 0..LastDay
        BY ContentBoundsAssumption
      <3>2. QED BY <2>1, <3>1 DEF CreatePage, UpdatePage, CreateBanner, UpdateBanner, Written
    <2>3. row.version >= 0 /\ row.version < MaxEdits
          /\ Seen
      BY <1>8, <2>2 DEF RowKinds, Scheduled
    <2>4. PICK r : r = Timed(t, on, from, to)
      OBVIOUS
    <2>5. r \in SiteRow /\ r.version = row.version + 1
      BY <2>3, <2>4, WrittenRow
    <2>6. QED BY <1>3, <2>2, <2>3, <2>4, <2>5
  <1>11. ASSUME InTheAccount PROVE Fine
    <2>1. PICK p \in Pages, t \in Texts :
             \/ CreateOrganization(t) \/ UpdateOrganization(p, t) \/ DeleteOrganization(p)
             \/ UpdatePreferences(p, t)
      BY <1>11 DEF InTheAccount
    <2>2. CASE DeleteOrganization(p)
      <3>1. MaySave("organization", p) /\ Becomes(Deleted) /\ "organization" \in RowKinds \ {"synonym"}
        BY <2>2 DEF DeleteOrganization, RowKinds
      <3>2. kind = "organization" /\ shown[p] = Showing(row)
        BY <1>2, <3>1
      <3>3. QED BY <1>0, <1>5, <3>1, <3>2
    <2>3. CASE CreateOrganization(t) \/ UpdateOrganization(p, t) \/ UpdatePreferences(p, t)
      <3>1. Becomes(Written(t, FALSE))
        BY <2>3 DEF CreateOrganization, UpdateOrganization, UpdatePreferences
      <3>2. row.version >= 0 /\ row.version < MaxEdits
            /\ Seen
        <4>1. CASE UpdatePreferences(p, t)
          BY <1>0, <4>1, SaversKnow DEF UpdatePreferences
        <4>2. CASE CreateOrganization(t) \/ UpdateOrganization(p, t)
          BY <1>8, <4>2 DEF CreateOrganization, UpdateOrganization, RowKinds
        <4>3. QED BY <2>3, <4>1, <4>2
      <3>3. Written(t, FALSE) \in SiteRow /\ Written(t, FALSE).version = row.version + 1
        BY <3>2, WrittenPlainly
      <3>4. QED BY <1>3, <3>1, <3>2, <3>3
    <2>4. QED BY <2>1, <2>2, <2>3
  <1>12. Fine
    <2>1. CASE Cataloguing
      BY <1>6, <1>7, <2>1 DEF Cataloguing
    <2>2. QED BY <1>9, <1>10, <1>11, <2>1
  <1>13. QED BY <1>12 DEF Fine, Seen

\* The list of promotions or banners is opened: what has ended is switched off.
LEMMA OpeningSwitchesOff ==
    ASSUME ContentInv, NEW p \in Pages, OpenList(p)
    PROVE  /\ row' = row \/ (Ended(row) /\ row' = SwitchedOff(row))
           /\ row' \in SiteRow /\ row'.active \in BOOLEAN
           /\ row' # row => row.version > 0 /\ row'.version = row.version + 1 /\ row'.active = FALSE
           /\ UNCHANGED <<kind, today>>
           /\ shown' = [shown EXCEPT ![p] = Opening]
  <1>1. row \in SiteRow /\ row.version < MaxEdits /\ UNCHANGED <<kind, today>>
        /\ shown' = [shown EXCEPT ![p] = Opening]
    BY DEF ContentInv, ContentTypeOK, OpenList
  <1>2. CASE ~Ended(row)
    BY <1>1, <1>2 DEF OpenList, SiteRow
  <1>3. CASE Ended(row)
    <2>1. row' = SwitchedOff(row) /\ row.version > 0
      BY <1>3 DEF OpenList, Ended, Exists
    <2>2. PICK half : half = [row EXCEPT !.active = FALSE]
      OBVIOUS
    <2>3. half \in SiteRow /\ half.active = FALSE /\ half.version = row.version
      BY <1>1, <2>2 DEF SiteRow
    <2>4. row' = [half EXCEPT !.version = row.version + 1]
      BY <1>1, <2>1, <2>2 DEF SwitchedOff, SiteRow
    <2>5. row.version + 1 \in -1..MaxEdits
      BY <1>1, <2>1, ContentBoundsAssumption DEF SiteRow
    <2>6. row' \in SiteRow /\ row'.active = FALSE /\ row'.version = row.version + 1
      BY <2>3, <2>4, <2>5 DEF SiteRow
    <2>7. QED BY <1>1, <1>3, <2>1, <2>6
  <1>4. QED BY <1>2, <1>3

\* A page reads the row, or opens its list.
LEMMA ReadingKeepsInv ==
    ASSUME ContentInv, NEW p \in Pages, ReadRow(p) \/ OpenList(p) \/ ReadList(p)
    PROVE  ContentInv'
  <1>1. row \in SiteRow /\ shown \in [Pages -> View] /\ \A q \in Pages : ViewOK(q)
    BY DEF ContentInv, ContentTypeOK
  <1>2. CASE OpenList(p)
    <2>1. /\ row' = row \/ (row.version > 0 /\ row'.version = row.version + 1)
          /\ row' \in SiteRow /\ UNCHANGED <<kind, today>>
          /\ shown' = [shown EXCEPT ![p] = Opening]
      BY <1>2, OpeningSwitchesOff
    <2>2. Opening \in View /\ Opening.state = "opening"
      BY AbsentRow DEF Opening, View
    <2>3. \A q \in Pages : shown'[q] = IF q = p THEN Opening ELSE shown[q]
      BY <1>1, <2>1
    <2>4. ContentTypeOK'
      BY <1>1, <2>1, <2>2 DEF ContentInv, ContentTypeOK
    <2>5. ASSUME NEW q \in Pages PROVE ViewOK(q)'
      <3>1. CASE q = p
        BY <2>2, <2>3, <3>1 DEF ViewOK
      <3>2. CASE q # p
        <4>1. shown'[q] = shown[q] /\ ViewOK(q)
          BY <1>1, <2>3, <3>2
        <4>2. shown[q].row.version \in Int /\ row.version \in Int /\ row'.version \in Int
          BY <1>1, <2>1, ContentBoundsAssumption DEF View, SiteRow
        <4>3. QED BY <2>1, <4>1, <4>2 DEF ViewOK
      <3>3. QED BY <3>1, <3>2
    <2>6. PreferencesStay'
      BY <1>1, <2>1, ContentBoundsAssumption DEF ContentInv, PreferencesStay, SiteRow
    <2>7. QED BY <2>4, <2>5, <2>6 DEF ContentInv
  <1>3. CASE ReadRow(p) \/ ReadList(p)
    <2>1. PICK v \in {Showing(row), Blank} :
             /\ shown' = [shown EXCEPT ![p] = v] /\ UNCHANGED <<kind, row, today>>
             /\ v = Showing(row) => Exists(row) \/ kind = "preferences" \/ v = Blank
      <3>1. CASE ReadRow(p)
        BY <3>1 DEF ReadRow
      <3>2. CASE ReadList(p)
        BY <3>2 DEF ReadList
      <3>3. QED BY <1>3, <3>1, <3>2
    <2>2. /\ Showing(row) \in View /\ Showing(row).state = "read" /\ Showing(row).row = row
          /\ Blank \in View /\ Blank.state = "blank"
      BY <1>1, AbsentRow DEF Showing, Blank, View
    <2>3. row.version \in Int /\ row.version >= -1
      BY <1>1, ContentBoundsAssumption DEF SiteRow
    <2>4. v = Blank \/ row.version >= 0
      BY <2>1, <2>3 DEF Exists, ContentInv, PreferencesStay
    <2>5. \A q \in Pages : shown'[q] = IF q = p THEN v ELSE shown[q]
      BY <1>1, <2>1
    <2>6. ContentTypeOK'
      BY <1>1, <2>1, <2>2 DEF ContentInv, ContentTypeOK
    <2>7. ASSUME NEW q \in Pages PROVE ViewOK(q)'
      <3>1. CASE q = p
        BY <2>1, <2>2, <2>3, <2>4, <2>5, <3>1 DEF ViewOK
      <3>2. CASE q # p
        BY <1>1, <2>1, <2>5, <3>2 DEF ViewOK
      <3>3. QED BY <3>1, <3>2
    <2>8. QED BY <2>1, <2>6, <2>7 DEF ContentInv, PreferencesStay
  <1>4. QED BY <1>2, <1>3

\* Every step keeps the invariant.
LEMMA ContentNextInv == ContentInv /\ [ContentNext]_contentVars => ContentInv'
  <1> SUFFICES ASSUME ContentInv, [ContentNext]_contentVars PROVE ContentInv'
    OBVIOUS
  <1>1. row \in SiteRow /\ today \in 1..(LastDay + 1)
        /\ (kind = "preferences" => row.version # -1)
    BY DEF ContentInv, ContentTypeOK, PreferencesStay
  <1>2. CASE Cataloguing \/ Promoting \/ Publishing \/ InTheAccount
    <2>1. PICK r : r = row'
      OBVIOUS
    <2>2. /\ r \in SiteRow /\ UNCHANGED <<kind, shown, today>>
          /\ kind = "preferences" => r.version # -1
          /\ kind = "synonym" \/ r.version = -1
             \/ (row.version >= 0 /\ r.version = row.version + 1)
      BY <1>2, <2>1, EditsAreOfKnownRows
    <2>3. QED BY <1>1, <2>1, <2>2, RowBecomes
  <1>3. CASE \E p \in Pages : ReadRow(p) \/ OpenList(p) \/ ReadList(p)
    BY <1>3, ReadingKeepsInv
  <1>4. CASE Midnight
    <2>1. today' \in 1..(LastDay + 1) /\ row' = row /\ UNCHANGED <<kind, shown>>
      BY <1>1, <1>4, ContentBoundsAssumption DEF Midnight
    <2>2. QED BY <1>1, <2>1, RowBecomes
  <1>5. CASE UNCHANGED contentVars
    <2>1. today' = today /\ row' = row /\ UNCHANGED <<kind, shown>>
      BY <1>5 DEF contentVars
    <2>2. QED BY <1>1, <2>1, RowBecomes
  <1>6. QED BY <1>2, <1>3, <1>4, <1>5 DEF ContentNext

\* The invariant holds throughout.
LEMMA ContentInvariant == ContentSpec => []ContentInv
  <1>1. QED BY ContentInitInv, ContentNextInv, PTL DEF ContentSpec

-------------------------------------------------------------------------------
(* Content edited on the site: the theorems.                               *)

\* Every row is a row, every page shows nothing or a row.
THEOREM ContentTypeCorrect == ContentSpec => []ContentTypeOK
  <1>1. ContentInv => ContentTypeOK
    BY DEF ContentInv
  <1>2. QED BY <1>1, ContentInvariant, PTL

\* A row with a version is changed or deleted only by somebody who has it on a page
\* exactly as it is, unless the step creates it or the end of its schedule switches
\* it off: no edit of somebody else is overwritten unseen.
THEOREM EditorsSee == ContentSpec => EditorsSawWhatTheyReplace
  <1>1. ASSUME ContentInv, [ContentNext]_contentVars
        PROVE  [(row' # row /\ kind # "synonym") =>
                  \/ row = Absent
                  \/ row' = SwitchedOff(row) /\ Ended(row)
                  \/ \E p \in Pages : shown[p] = Showing(row)]_contentVars
    <2> SUFFICES ASSUME row' # row, kind # "synonym"
                 PROVE  \/ row = Absent
                        \/ row' = SwitchedOff(row) /\ Ended(row)
                        \/ \E p \in Pages : shown[p] = Showing(row)
      OBVIOUS
    <2>1. CASE Cataloguing \/ Promoting \/ Publishing \/ InTheAccount
      BY <1>1, <2>1, EditsAreOfKnownRows
    <2>2. CASE \E p \in Pages : OpenList(p)
      BY <1>1, <2>2, OpeningSwitchesOff
    <2>3. CASE \E p \in Pages : ReadRow(p) \/ ReadList(p)
      BY <2>3 DEF ReadRow, ReadList
    <2>4. CASE Midnight \/ UNCHANGED contentVars
      BY <2>4 DEF Midnight, contentVars
    <2>5. QED BY <1>1, <2>1, <2>2, <2>3, <2>4 DEF ContentNext
  <1>2. QED BY <1>1, ContentInvariant, PTL DEF ContentSpec, EditorsSawWhatTheyReplace

\* Opening a list in the panel switches off only what visitors do not see any more.
THEOREM HousekeepingUnseen == ContentSpec => HousekeepingIsInvisible
  <1>1. ASSUME ContentInv, [ContentNext]_contentVars
        PROVE  [shown' # shown => (Public(row)' <=> Public(row))]_contentVars
    <2> SUFFICES ASSUME shown' # shown PROVE Public(row)' <=> Public(row)
      OBVIOUS
    <2>1. CASE \E p \in Pages : OpenList(p)
      <3>1. PICK p \in Pages : OpenList(p)
        BY <2>1
      <3>2. /\ row' = row \/ (Ended(row) /\ row'.active = FALSE)
            /\ today' = today
        BY <1>1, <3>1, OpeningSwitchesOff
      <3>3. CASE row' = row
        BY <3>2, <3>3 DEF Public, Exists, InSchedule
      <3>4. CASE Ended(row) /\ row'.active = FALSE
        <4>1. ~Public(row)'
          BY <3>4 DEF Public
        <4>2. row.ends \in Int /\ today \in Int
          BY <1>1, ContentBoundsAssumption DEF ContentInv, ContentTypeOK, SiteRow
        <4>3. ~Public(row)
          BY <3>4, <4>2 DEF Public, Ended, InSchedule
        <4>4. QED BY <4>1, <4>3
      <3>5. QED BY <3>2, <3>3, <3>4
    <2>2. CASE \E p \in Pages : ReadRow(p) \/ ReadList(p)
      BY <2>2 DEF ReadRow, ReadList, Public, Exists, InSchedule
    <2>3. CASE Cataloguing \/ Promoting \/ Publishing \/ InTheAccount
      BY <1>1, <2>3, EditsAreOfKnownRows
    <2>4. CASE Midnight \/ UNCHANGED contentVars
      BY <2>4 DEF Midnight, contentVars
    <2>5. QED BY <1>1, <2>1, <2>2, <2>3, <2>4 DEF ContentNext
  <1>2. QED BY <1>1, ContentInvariant, PTL DEF ContentSpec, HousekeepingIsInvisible

-------------------------------------------------------------------------------
(* The import of the catalogue: the inductive invariant.                   *)

\* Before the product is known, nothing of it is.
KnownAsAWhole ==
    fact[Whole].version = 0 => /\ \A f \in Facts : fact[f].version = 0
                               /\ \A s \in Skus : balance[s].version = 0

\* Holds are for variants, and only finitely many have been made.
HoldsMade ==
    /\ \A h \in Holds : held[h].state = "ACTIVE" => held[h].sku \in Skus
    /\ IsFiniteSet({h \in Holds : held[h].state # "none"})

\* The inductive invariant of the import.
CatalogInv == CatalogTypeOK /\ BalancesFit /\ KnownAsAWhole /\ HoldsMade

\* An absent row, and an absent balance, which fits.
LEMMA AbsentFacts ==
    /\ NoFact \in Fact /\ NoFact.version = 0 /\ NoFact.value = NoValue
    /\ NoBalance \in Balance /\ NoBalance.version = 0 /\ Fits(NoBalance)
    /\ Whole \in Facts
  BY DEF NoFact, Fact, NoBalance, Balance, Fits, Facts

\* What a batch brings is in order.
LEMMA BatchBrings ==
    ASSUME NEW b \in Batches \cup Seeds
    PROVE  /\ b.version \in Nat \ {0}
           /\ \A f \in Facts : /\ Row(b, f) \in Fact
                               /\ b.value[f] # NoValue => /\ Row(b, f).version = b.version
                                                          /\ Row(b, f).value = b.value[f]
           /\ b.value[Whole] # NoValue
           /\ \A s \in Skus : /\ b.stock[s] \in Balance /\ Fits(b.stock[s])
                              /\ b.stock[s].version # 0 => b.stock[s].version = b.version
  <1>1. IsBatch(b)
    BY BatchesAssumption
  <1>2. ASSUME NEW f \in Facts
        PROVE  /\ Row(b, f) \in Fact
               /\ b.value[f] # NoValue => /\ Row(b, f).version = b.version
                                          /\ Row(b, f).value = b.value[f]
    BY <1>1, AbsentFacts DEF IsBatch, Row, Fact
  <1>3. ASSUME NEW s \in Skus
        PROVE  /\ b.stock[s] \in Balance /\ Fits(b.stock[s])
               /\ b.stock[s].version # 0 => b.stock[s].version = b.version
    BY <1>1, AbsentFacts DEF IsBatch
  <1>4. QED BY <1>1, <1>2, <1>3 DEF IsBatch

\* The database is empty, or has the demo product.
LEMMA CatalogInitInv == CatalogInit => CatalogInv
  <1> SUFFICES ASSUME CatalogInit PROVE CatalogInv
    OBVIOUS
  <1>1. PICK none : none = [state |-> "none", sku |-> NoSku, quantity |-> 0]
    OBVIOUS
  <1>2. none \in Hold /\ none.state = "none" /\ held = [h \in Holds |-> none]
    BY <1>1 DEF CatalogInit, Hold
  <1>3. HoldsMade /\ held \in [Holds -> Hold]
    <2>1. {h \in Holds : held[h].state # "none"} = {}
      BY <1>2
    <2>2. QED BY <1>2, <2>1, FS_EmptySet DEF HoldsMade
  <1>4. filed \in [Sections -> {"no", "yes", "primary"}]
    BY DEF CatalogInit
  <1>5. CASE fact = [f \in Facts |-> NoFact] /\ balance = [s \in Skus |-> NoBalance]
    BY <1>3, <1>4, <1>5, AbsentFacts
    DEF CatalogInv, CatalogTypeOK, BalancesFit, KnownAsAWhole
  <1>6. CASE \E b \in Seeds : fact = [f \in Facts |-> Row(b, f)] /\ balance = b.stock
    <2>1. PICK b \in Seeds : fact = [f \in Facts |-> Row(b, f)] /\ balance = b.stock
      BY <1>6
    <2>2. balance \in [Skus -> Balance]
      BY <2>1, BatchesAssumption DEF IsBatch
    <2>3. fact \in [Facts -> Fact] /\ BalancesFit
      BY <2>1, BatchBrings DEF BalancesFit
    <2>4. fact[Whole].version # 0
      BY <2>1, AbsentFacts, BatchBrings
    <2>5. QED BY <1>3, <1>4, <2>2, <2>3, <2>4 DEF CatalogInv, CatalogTypeOK, KnownAsAWhole
  <1>7. QED BY <1>5, <1>6 DEF CatalogInit

\* What a batch does to a projection and to a balance.
LEMMA ImportWrites ==
    ASSUME CatalogInv, NEW b \in Batches, Import(b)
    PROVE  /\ \A f \in Facts : fact'[f] = IF b.value[f] = NoValue THEN fact[f] ELSE Row(b, f)
           /\ \A s \in Skus : balance'[s] = IF b.stock[s].version = 0 THEN balance[s] ELSE b.stock[s]
           /\ held' = held
           /\ filed' \in [Sections -> {"no", "yes", "primary"}]
           /\ fact' \in [Facts -> Fact] /\ balance' \in [Skus -> Balance]
  <1>1. fact \in [Facts -> Fact] /\ balance \in [Skus -> Balance]
        /\ filed \in [Sections -> {"no", "yes", "primary"}]
    BY DEF CatalogInv, CatalogTypeOK
  <1>2. fact' = [f \in Facts |-> IF b.value[f] = NoValue THEN fact[f] ELSE Row(b, f)]
        /\ balance' = [s \in Skus |-> IF b.stock[s].version = 0 THEN balance[s] ELSE b.stock[s]]
        /\ held' = held /\ File
    BY DEF Import, Upserted
  <1>3. filed' \in [Sections -> {"no", "yes", "primary"}]
    BY <1>1, <1>2 DEF File
  <1>4. QED BY <1>1, <1>2, <1>3, BatchBrings

\* A batch keeps the invariant.
LEMMA ImportKeepsInv == ASSUME CatalogInv, NEW b \in Batches, Import(b) PROVE CatalogInv'
  <1>1. CatalogTypeOK'
    BY ImportWrites DEF CatalogInv, CatalogTypeOK
  <1>2. BalancesFit'
    <2>1. ASSUME NEW s \in Skus PROVE Fits(balance'[s])
      BY ImportWrites, BatchBrings DEF CatalogInv, BalancesFit
    <2>2. QED BY <2>1 DEF BalancesFit
  <1>3. KnownAsAWhole'
    <2>1. fact'[Whole].version # 0
      BY AbsentFacts, ImportWrites, BatchBrings
    <2>2. QED BY <2>1 DEF KnownAsAWhole
  <1>4. HoldsMade'
    BY ImportWrites DEF CatalogInv, HoldsMade
  <1>5. QED BY <1>1, <1>2, <1>3, <1>4 DEF CatalogInv

\* Stock that is moved between what is reserved and what is available.
LEMMA MovedStock ==
    ASSUME CatalogInv, NEW s \in Skus, NEW q \in Int,
           q <= balance[s].available, -q <= balance[s].reserved
    PROVE  /\ Moved(s, q) \in Balance /\ Fits(Moved(s, q))
           /\ Moved(s, q).version = balance[s].version /\ Moved(s, q).onHand = balance[s].onHand
           /\ Moved(s, q).reserved = balance[s].reserved + q
           /\ Moved(s, q).available = balance[s].available - q
           /\ balance[s].reserved \in Int /\ balance[s].available \in Int
  <1>1. balance[s] \in Balance /\ Fits(balance[s])
    BY DEF CatalogInv, CatalogTypeOK, BalancesFit
  <1>2. PICK half : half = [balance[s] EXCEPT !.reserved = balance[s].reserved + q]
    OBVIOUS
  <1>3. balance[s].reserved \in Nat /\ balance[s].available \in Nat
    BY <1>1 DEF Balance
  <1>4. balance[s].reserved + q \in Nat /\ balance[s].available - q \in Nat
    BY <1>3
  <1>5. half \in Balance /\ half.reserved = balance[s].reserved + q
        /\ half.available = balance[s].available
        /\ half.version = balance[s].version /\ half.onHand = balance[s].onHand
    BY <1>1, <1>2, <1>4 DEF Balance
  <1>6. Moved(s, q) = [half EXCEPT !.available = balance[s].available - q]
    BY <1>1, <1>2 DEF Moved, Balance
  <1>7. Moved(s, q) \in Balance /\ Moved(s, q).reserved = balance[s].reserved + q
        /\ Moved(s, q).available = balance[s].available - q
        /\ Moved(s, q).version = balance[s].version /\ Moved(s, q).onHand = balance[s].onHand
    BY <1>4, <1>5, <1>6 DEF Balance
  <1>8. Fits(Moved(s, q))
    <2>1. balance[s].reserved + balance[s].available <= balance[s].onHand /\ balance[s].onHand \in Nat
      BY <1>1 DEF Fits, Balance
    <2>2. QED BY <1>3, <1>4, <1>7, <2>1 DEF Fits
  <1>9. QED BY <1>3, <1>7, <1>8

\* One balance and one hold change, and the hold was or becomes active.
LEMMA MoveKeepsInv ==
    ASSUME CatalogInv, NEW s \in Skus, NEW q \in Int, NEW h \in Holds, NEW r \in Hold,
           q <= balance[s].available, -q <= balance[s].reserved,
           balance' = [balance EXCEPT ![s] = Moved(s, q)],
           held' = [held EXCEPT ![h] = r], r.sku \in Skus,
           UNCHANGED <<fact, filed>>
    PROVE  CatalogInv'
  <1>1. /\ fact \in [Facts -> Fact] /\ balance \in [Skus -> Balance] /\ held \in [Holds -> Hold]
        /\ filed \in [Sections -> {"no", "yes", "primary"}]
    BY DEF CatalogInv, CatalogTypeOK
  <1>2. PICK m : m = Moved(s, q)
    OBVIOUS
  <1>3. m \in Balance /\ Fits(m) /\ m.version = balance[s].version
    BY <1>2, MovedStock
  <1>4. balance' \in [Skus -> Balance] /\ \A t \in Skus : balance'[t] = IF t = s THEN m ELSE balance[t]
    BY <1>1, <1>2, <1>3
  <1>5. held' \in [Holds -> Hold] /\ \A g \in Holds : held'[g] = IF g = h THEN r ELSE held[g]
    BY <1>1
  <1>6. CatalogTypeOK'
    BY <1>1, <1>4, <1>5 DEF CatalogTypeOK
  <1>7. BalancesFit'
    BY <1>3, <1>4 DEF CatalogInv, BalancesFit
  <1>8. KnownAsAWhole'
    BY <1>3, <1>4 DEF CatalogInv, KnownAsAWhole
  <1>9. HoldsMade'
    <2>1. \A g \in Holds : held'[g].state = "ACTIVE" => held'[g].sku \in Skus
      BY <1>5 DEF CatalogInv, HoldsMade
    <2>2. PICK S : S = {g \in Holds : held[g].state # "none"}
      OBVIOUS
    <2>3. IsFiniteSet(S \cup {h})
      BY <2>2, FS_AddElement DEF CatalogInv, HoldsMade
    <2>4. {g \in Holds : held'[g].state # "none"} \in SUBSET (S \cup {h})
      BY <1>5, <2>2
    <2>5. IsFiniteSet({g \in Holds : held'[g].state # "none"})
      BY <2>3, <2>4, FS_Subset
    <2>6. QED BY <2>1, <2>5 DEF HoldsMade
  <1>10. QED BY <1>6, <1>7, <1>8, <1>9 DEF CatalogInv

\* What a confirmation writes.
LEMMA ConfirmWrites ==
    ASSUME CatalogInv, NEW h \in Holds, NEW s \in Skus, NEW q \in Pieces, Confirm(h, s, q)
    PROVE  /\ q \in Nat /\ q <= balance[s].available /\ -q <= balance[s].reserved
           /\ held[h].state = "none"
           /\ \E r \in Hold : /\ r.state = "ACTIVE" /\ r.sku = s /\ r.quantity = q
                              /\ held' = [held EXCEPT ![h] = r]
           /\ balance' = [balance EXCEPT ![s] = Moved(s, q)]
           /\ UNCHANGED <<fact, filed>>
  <1>1. q \in Nat /\ balance[s].reserved \in Nat
    BY PiecesAssumption DEF CatalogInv, CatalogTypeOK, Balance
  <1>2. -q <= balance[s].reserved
    BY <1>1
  <1>3. [state |-> "ACTIVE", sku |-> s, quantity |-> q] \in Hold
    BY <1>1 DEF Hold
  <1>4. QED BY <1>1, <1>2, <1>3 DEF Confirm

\* What the return of a hold writes.
LEMMA ReleaseWrites ==
    ASSUME CatalogInv, NEW h \in Holds, Release(h)
    PROVE  \E s \in Skus, q \in Nat :
              /\ held[h].state = "ACTIVE" /\ held[h].sku = s /\ held[h].quantity = q
              /\ -q <= balance[s].available /\ q <= balance[s].reserved
              /\ \E r \in Hold : /\ r.state = "EXPIRED" /\ r.sku = s /\ r.quantity = q
                                 /\ held' = [held EXCEPT ![h] = r]
              /\ balance' = [balance EXCEPT ![s] = Moved(s, -q)]
              /\ UNCHANGED <<fact, filed>>
  <1>1. held[h] \in Hold /\ held[h].sku \in Skus
    BY DEF CatalogInv, CatalogTypeOK, HoldsMade, Release
  <1>2. PICK s \in Skus, q \in Nat : held[h].sku = s /\ held[h].quantity = q
    BY <1>1 DEF Hold
  <1>3. balance[s].available \in Nat /\ -q <= balance[s].available
    BY DEF CatalogInv, CatalogTypeOK, Balance
  <1>4. PICK r : r = [held[h] EXCEPT !.state = "EXPIRED"]
    OBVIOUS
  <1>5. r \in Hold /\ r.state = "EXPIRED" /\ r.sku = s /\ r.quantity = q
    BY <1>1, <1>2, <1>4 DEF Hold
  <1>6. held' = [held EXCEPT ![h] = r] /\ held[h].state = "ACTIVE"
        /\ q <= balance[s].reserved /\ balance' = [balance EXCEPT ![s] = Moved(s, -q)]
        /\ UNCHANGED <<fact, filed>>
    BY <1>2, <1>4 DEF Release, StillReserved
  <1>7. QED BY <1>2, <1>3, <1>5, <1>6

\* Every step keeps the invariant.
LEMMA CatalogNextInv == CatalogInv /\ [CatalogNext]_catalogVars => CatalogInv'
  <1> SUFFICES ASSUME CatalogInv, [CatalogNext]_catalogVars PROVE CatalogInv'
    OBVIOUS
  <1>1. CASE \E b \in Batches : Import(b)
    BY <1>1, ImportKeepsInv
  <1>2. ASSUME NEW h \in Holds, NEW s \in Skus, NEW q \in Pieces, Confirm(h, s, q)
        PROVE  CatalogInv'
    <2>1. PICK r \in Hold : r.sku = s /\ held' = [held EXCEPT ![h] = r]
      BY <1>2, ConfirmWrites
    <2>2. q \in Int /\ q <= balance[s].available /\ -q <= balance[s].reserved
          /\ balance' = [balance EXCEPT ![s] = Moved(s, q)] /\ UNCHANGED <<fact, filed>>
      BY <1>2, ConfirmWrites
    <2>3. QED BY <2>1, <2>2, MoveKeepsInv
  <1>3. ASSUME NEW h \in Holds, Release(h) PROVE CatalogInv'
    <2>1. PICK s \in Skus, q \in Nat, r \in Hold :
             /\ -q <= balance[s].available /\ q <= balance[s].reserved
             /\ r.sku = s /\ held' = [held EXCEPT ![h] = r]
             /\ balance' = [balance EXCEPT ![s] = Moved(s, -q)]
             /\ UNCHANGED <<fact, filed>>
      BY <1>3, ReleaseWrites
    <2>2. PICK n \in Int : n = -q
      OBVIOUS
    <2>3. n <= balance[s].available /\ -n <= balance[s].reserved
          /\ balance' = [balance EXCEPT ![s] = Moved(s, n)]
      BY <2>1, <2>2
    <2>4. QED BY <2>1, <2>3, MoveKeepsInv
  <1>4. CASE UNCHANGED catalogVars
    BY <1>4 DEF catalogVars, CatalogInv, CatalogTypeOK, BalancesFit, KnownAsAWhole, HoldsMade
  <1>5. QED BY <1>1, <1>2, <1>3, <1>4 DEF CatalogNext

\* The invariant holds throughout.
LEMMA CatalogInvariant == CatalogSpec => []CatalogInv
  <1>1. QED BY CatalogInitInv, CatalogNextInv, PTL DEF CatalogSpec

-------------------------------------------------------------------------------
(* The import of the catalogue: pieces in active reservations.             *)

\* Quantities of all holds, and the active holds of a variant.
Quantities(d) == [h \in Holds |-> d[h].quantity]
ActiveHolds(d, s) == {h \in Holds : d[h].state = "ACTIVE" /\ d[h].sku = s}

\* The active holds of a variant are finitely many, and their quantities are numbers.
LEMMA HoldsAreFinite ==
    ASSUME NEW d \in [Holds -> Hold], IsFiniteSet({h \in Holds : d[h].state # "none"}), NEW s
    PROVE  /\ Quantities(d) \in [Holds -> Int]
           /\ ActiveHolds(d, s) \in SUBSET Holds /\ IsFiniteSet(ActiveHolds(d, s))
           /\ SumFunctionOnSet(Quantities(d), ActiveHolds(d, s)) \in Int
  <1>1. Quantities(d) \in [Holds -> Int]
    BY DEF Quantities, Hold
  <1>2. PICK S : S = {h \in Holds : d[h].state # "none"}
    OBVIOUS
  <1>3. IsFiniteSet(S) /\ ActiveHolds(d, s) \in SUBSET S
    BY <1>2 DEF ActiveHolds
  <1>4. IsFiniteSet(ActiveHolds(d, s)) /\ ActiveHolds(d, s) \in SUBSET Holds
    BY <1>3, FS_Subset DEF ActiveHolds
  <1>5. QED BY <1>1, <1>4, SumType

\* The pieces reserved of a variant, when one hold changes: one that becomes active
\* adds its quantity to its variant, one that was active takes it away.
LEMMA ReservedMoves ==
    ASSUME CatalogInv, CatalogInv', NEW h \in Holds, NEW s \in Skus, NEW t \in Skus, NEW r \in Hold,
           held' = [held EXCEPT ![h] = r], r.sku = s
    PROVE  /\ (held[h].state = "none" /\ r.state = "ACTIVE")
                 => Reserved(t)' = Reserved(t) + (IF t = s THEN r.quantity ELSE 0)
           /\ (held[h].state = "ACTIVE" /\ r.state = "EXPIRED" /\ held[h].sku = s
                 /\ held[h].quantity = r.quantity)
                 => Reserved(t)' = Reserved(t) - (IF t = s THEN r.quantity ELSE 0)
  <1>1. /\ \A g \in Holds : held'[g] = IF g = h THEN r ELSE held[g]
        /\ r.quantity \in Int
    BY DEF CatalogInv, CatalogTypeOK, Hold
  <1>2. PICK w, S : w = Quantities(held) /\ S = ActiveHolds(held, t)
    OBVIOUS
  <1>3. PICK v, T : v = Quantities(held') /\ T = ActiveHolds(held', t)
    OBVIOUS
  <1>4. /\ w \in [Holds -> Int] /\ S \in SUBSET Holds /\ IsFiniteSet(S)
        /\ Reserved(t) = SumFunctionOnSet(w, S) /\ Reserved(t) \in Int
    <2>1. held \in [Holds -> Hold] /\ IsFiniteSet({g \in Holds : held[g].state # "none"})
      BY DEF CatalogInv, CatalogTypeOK, HoldsMade
    <2>2. Reserved(t) = SumFunctionOnSet(Quantities(held), ActiveHolds(held, t))
      BY DEF Reserved, Quantities, ActiveHolds
    <2>3. QED BY <1>2, <2>1, <2>2, HoldsAreFinite
  <1>5. /\ v \in [Holds -> Int] /\ T \in SUBSET Holds /\ IsFiniteSet(T)
        /\ Reserved(t)' = SumFunctionOnSet(v, T) /\ Reserved(t)' \in Int
    <2>1. held' \in [Holds -> Hold] /\ IsFiniteSet({g \in Holds : held'[g].state # "none"})
      BY DEF CatalogInv, CatalogTypeOK, HoldsMade
    <2>2. Reserved(t)' = SumFunctionOnSet(Quantities(held'), ActiveHolds(held', t))
      BY DEF Reserved, Quantities, ActiveHolds
    <2>3. QED BY <1>3, <2>1, <2>2, HoldsAreFinite
  <1>6. v[h] = r.quantity /\ \A g \in Holds \ {h} : v[g] = w[g]
    BY <1>1, <1>2, <1>3 DEF Quantities
  <1>7. CASE held[h].state = "none" /\ r.state = "ACTIVE"
    <2>1. h \notin S /\ (IF t = s THEN h \in T /\ T \ {h} = S ELSE T = S)
      BY <1>1, <1>2, <1>3, <1>7 DEF ActiveHolds
    <2>2. SumFunctionOnSet(v, S) = SumFunctionOnSet(w, S)
      BY <1>4, <1>5, <1>6, <2>1, SumOfSame
    <2>3. CASE t = s
      <3>1. SumFunctionOnSet(v, T) = v[h] + SumFunctionOnSet(v, T \ {h})
        BY <1>5, <2>1, <2>3, SumOfOneAndRest
      <3>2. Reserved(t)' = r.quantity + Reserved(t)
        BY <1>4, <1>5, <1>6, <2>1, <2>2, <2>3, <3>1
      <3>3. Reserved(t)' = Reserved(t) + r.quantity
        BY <1>1, <1>4, <3>2
      <3>4. QED BY <1>7, <2>3, <3>3
    <2>4. CASE t # s
      BY <1>4, <1>5, <1>7, <2>1, <2>2, <2>4
    <2>5. QED BY <2>3, <2>4
  <1>8. CASE /\ held[h].state = "ACTIVE" /\ r.state = "EXPIRED" /\ held[h].sku = s
             /\ held[h].quantity = r.quantity
    <2>1. h \notin T /\ (IF t = s THEN h \in S /\ S \ {h} = T ELSE T = S)
      BY <1>1, <1>2, <1>3, <1>8 DEF ActiveHolds
    <2>2. SumFunctionOnSet(v, T) = SumFunctionOnSet(w, T)
      <3>1. \A g \in T : w[g] = v[g]
        BY <1>5, <1>6, <2>1
      <3>2. QED BY <1>4, <1>5, <3>1, SumOfSame
    <2>3. CASE t = s
      <3>1. SumFunctionOnSet(w, S) = w[h] + SumFunctionOnSet(w, S \ {h})
        BY <1>4, <2>1, <2>3, SumOfOneAndRest
      <3>2. w[h] = r.quantity
        BY <1>2, <1>8 DEF Quantities
      <3>3. Reserved(t) = r.quantity + Reserved(t)'
        BY <1>4, <1>5, <2>1, <2>2, <2>3, <3>1, <3>2
      <3>4. Reserved(t)' = Reserved(t) - r.quantity
        BY <1>1, <1>4, <1>5, <3>3
      <3>5. QED BY <1>8, <2>3, <3>4
    <2>4. CASE t # s
      BY <1>4, <1>5, <1>8, <2>1, <2>2, <2>4
    <2>5. QED BY <2>3, <2>4
  <1>9. QED BY <1>7, <1>8

-------------------------------------------------------------------------------
(* The import of the catalogue: the theorems.                              *)

\* Every projection, balance, category and hold is one.
THEOREM CatalogTypeCorrect == CatalogSpec => []CatalogTypeOK
  <1>1. CatalogInv => CatalogTypeOK
    BY DEF CatalogInv
  <1>2. QED BY <1>1, CatalogInvariant, PTL

\* No balance promises more than there is, or goes below zero, however imports
\* overwrite what orders have reserved, and whatever orders give back later.
THEOREM BalancesSafe == CatalogSpec => []BalancesFit
  <1>1. CatalogInv => BalancesFit
    BY DEF CatalogInv
  <1>2. QED BY <1>1, CatalogInvariant, PTL

\* A batch that may be applied brings a newer version of what it changes.
LEMMA ImportsAreNews ==
    ASSUME CatalogInv, NEW b \in Batches, Import(b)
    PROVE  /\ \A f \in Facts : fact'[f] # fact[f] => fact'[f].version > fact[f].version
           /\ \A s \in Skus : balance'[s] # balance[s] => balance'[s].version > balance[s].version
  <1>1. ASSUME NEW now \in Nat, NEW above, NEW same,
               MayFollow(b.version, First(now, above), same), ~(same /\ now = b.version)
        PROVE  b.version > now
    BY <1>1, BatchBrings DEF MayFollow, First
  <1>2. ASSUME NEW f \in Facts, fact'[f] # fact[f] PROVE fact'[f].version > fact[f].version
    <2>1. /\ b.value[f] # NoValue /\ fact'[f] = Row(b, f)
          /\ fact'[f].version = b.version /\ fact'[f].value = b.value[f]
      BY <1>2, ImportWrites, BatchBrings
    <2>2. fact[f] \in Fact /\ fact[f].version \in Nat /\ fact'[f] \in Fact
      BY ImportWrites DEF CatalogInv, CatalogTypeOK, Fact
    <2>3. ~(b.value[f] = fact[f].value /\ fact[f].version = b.version)
      BY <1>2, <2>1, <2>2 DEF Fact
    <2>4. CASE fact[Whole].version = 0
      BY <2>1, <2>2, <2>4, BatchBrings DEF CatalogInv, KnownAsAWhole
    <2>5. CASE fact[Whole].version # 0
      <3>1. FactMayFollow(b, f)
        BY <2>1, <2>5 DEF Import, CanApply
      <3>2. b.version > fact[f].version
        BY <1>1, <2>2, <2>3, <3>1 DEF FactMayFollow, FactVersion
      <3>3. QED BY <2>1, <3>2
    <2>6. QED BY <2>4, <2>5
  <1>3. ASSUME NEW s \in Skus, balance'[s] # balance[s]
        PROVE  balance'[s].version > balance[s].version
    <2>1. b.stock[s].version # 0 /\ balance'[s] = b.stock[s] /\ balance'[s].version = b.version
      BY <1>3, ImportWrites, BatchBrings
    <2>2. balance[s].version \in Nat
      BY DEF CatalogInv, CatalogTypeOK, Balance
    <2>3. ~(b.stock[s] = balance[s] /\ balance[s].version = b.version)
      BY <1>3, <2>1
    <2>4. CASE fact[Whole].version = 0
      BY <2>1, <2>2, <2>4, BatchBrings DEF CatalogInv, KnownAsAWhole
    <2>5. CASE fact[Whole].version # 0
      <3>1. StockMayFollow(b, s)
        BY <2>1, <2>5 DEF Import, CanApply
      <3>2. b.version > balance[s].version
        BY <1>1, <2>2, <2>3, <3>1 DEF StockMayFollow, StockVersion
      <3>3. QED BY <2>1, <3>2
    <2>6. QED BY <2>4, <2>5
  <1>4. QED BY <1>2, <1>3

\* The balance of a variant and the pieces reserved of it move together.
Together(s) ==
    /\ balance'[s].version = balance[s].version
    /\ balance'[s].onHand = balance[s].onHand
    /\ balance'[s].reserved - balance[s].reserved = Reserved(s)' - Reserved(s)
    /\ balance'[s].available - balance[s].available = Reserved(s) - Reserved(s)'

\* What a move of stock and a hold do to a balance and to the pieces reserved.
LEMMA MovesTogether ==
    ASSUME CatalogInv, NEW s \in Skus, NEW q \in Int, NEW t \in Skus,
           q <= balance[s].available, -q <= balance[s].reserved,
           balance' = [balance EXCEPT ![s] = Moved(s, q)],
           Reserved(t) \in Int, Reserved(t)' = Reserved(t) + (IF t = s THEN q ELSE 0)
    PROVE  Together(t)
  <1>1. balance[t] \in Balance /\ balance \in [Skus -> Balance]
    BY DEF CatalogInv, CatalogTypeOK
  <1>2. CASE t = s
    <2>1. balance'[t] = Moved(s, q)
      BY <1>1, <1>2
    <2>2. /\ balance'[t].version = balance[t].version /\ balance'[t].onHand = balance[t].onHand
          /\ balance'[t].reserved = balance[t].reserved + q
          /\ balance'[t].available = balance[t].available - q
          /\ balance[t].reserved \in Int /\ balance[t].available \in Int
      BY <1>2, <2>1, MovedStock
    <2>3. Reserved(t)' = Reserved(t) + q
      BY <1>2
    <2>4. QED BY <2>2, <2>3 DEF Together
  <1>3. CASE t # s
    <2>1. balance'[t] = balance[t]
      BY <1>1, <1>3
    <2>2. Reserved(t)' = Reserved(t)
      BY <1>3
    <2>3. balance[t].reserved \in Int /\ balance[t].available \in Int
      BY <1>1 DEF Balance
    <2>4. QED BY <2>1, <2>2, <2>3 DEF Together
  <1>4. QED BY <1>2, <1>3

\* Without a change of holds and of its balance nothing moves.
LEMMA StandsStill ==
    ASSUME CatalogInv, NEW t \in Skus, held' = held, balance'[t] = balance[t]
    PROVE  Together(t)
  <1>1. held \in [Holds -> Hold] /\ IsFiniteSet({g \in Holds : held[g].state # "none"})
    BY DEF CatalogInv, CatalogTypeOK, HoldsMade
  <1>2. Reserved(t) = SumFunctionOnSet(Quantities(held), ActiveHolds(held, t))
    BY DEF Reserved, Quantities, ActiveHolds
  <1>3. Reserved(t) \in Int
    BY <1>1, <1>2, HoldsAreFinite
  <1>4. Reserved(t)' = Reserved(t)
    BY DEF Reserved
  <1>5. balance[t].reserved \in Int /\ balance[t].available \in Int
    BY DEF CatalogInv, CatalogTypeOK, Balance
  <1>6. QED BY <1>3, <1>4, <1>5 DEF Together

\* What the catalogue says changes only with a newer version, and as long as a
\* balance keeps its version the stock moves exactly as the reservations of orders.
THEOREM VersionsSettle == CatalogSpec => VersionsSettleTheCatalog
  <1> DEFINE Facts1 == \A f \in Facts : fact'[f] # fact[f] => fact'[f].version > fact[f].version
             Stock1 == \A s \in Skus : balance'[s].version > balance[s].version \/ Together(s)
  <1>1. ASSUME CatalogInv, CatalogInv', [CatalogNext]_catalogVars PROVE Facts1 /\ Stock1
    <2>1. ASSUME NEW b \in Batches, Import(b) PROVE Facts1 /\ Stock1
      <3>1. held' = held
        BY <1>1, <2>1, ImportWrites
      <3>2. QED BY <1>1, <2>1, <3>1, ImportsAreNews, StandsStill
    <2>2. ASSUME NEW t \in Skus PROVE Reserved(t) \in Int
      <3>1. held \in [Holds -> Hold] /\ IsFiniteSet({g \in Holds : held[g].state # "none"})
        BY <1>1 DEF CatalogInv, CatalogTypeOK, HoldsMade
      <3>2. Reserved(t) = SumFunctionOnSet(Quantities(held), ActiveHolds(held, t))
        BY DEF Reserved, Quantities, ActiveHolds
      <3>3. QED BY <3>1, <3>2, HoldsAreFinite
    <2>3. ASSUME NEW h \in Holds, NEW s \in Skus, NEW q \in Pieces, Confirm(h, s, q)
          PROVE  Facts1 /\ Stock1
      <3>1. PICK r \in Hold : /\ r.state = "ACTIVE" /\ r.sku = s /\ r.quantity = q
                              /\ held' = [held EXCEPT ![h] = r]
        BY <1>1, <2>3, ConfirmWrites
      <3>2. /\ q \in Int /\ q <= balance[s].available /\ -q <= balance[s].reserved
            /\ held[h].state = "none" /\ fact' = fact
            /\ balance' = [balance EXCEPT ![s] = Moved(s, q)]
        BY <1>1, <2>3, ConfirmWrites
      <3>3. ASSUME NEW t \in Skus PROVE Together(t)
        <4>1. Reserved(t)' = Reserved(t) + (IF t = s THEN q ELSE 0)
          BY <1>1, <3>1, <3>2, ReservedMoves
        <4>2. QED BY <1>1, <2>2, <3>2, <4>1, MovesTogether
      <3>4. QED BY <3>2, <3>3
    <2>4. ASSUME NEW h \in Holds, Release(h) PROVE Facts1 /\ Stock1
      <3>1. PICK s \in Skus, q \in Nat :
              /\ held[h].state = "ACTIVE" /\ held[h].sku = s /\ held[h].quantity = q
              /\ -q <= balance[s].available /\ q <= balance[s].reserved
              /\ \E r \in Hold : /\ r.state = "EXPIRED" /\ r.sku = s /\ r.quantity = q
                                 /\ held' = [held EXCEPT ![h] = r]
              /\ balance' = [balance EXCEPT ![s] = Moved(s, -q)]
              /\ fact' = fact
        BY <1>1, <2>4, ReleaseWrites
      <3>2. PICK r \in Hold : /\ r.state = "EXPIRED" /\ r.sku = s /\ r.quantity = q
                              /\ held' = [held EXCEPT ![h] = r]
        BY <3>1
      <3>3. PICK n \in Int : n = -q
        OBVIOUS
      <3>4. n <= balance[s].available /\ -n <= balance[s].reserved
            /\ balance' = [balance EXCEPT ![s] = Moved(s, n)]
        BY <3>1, <3>3
      <3>5. ASSUME NEW t \in Skus PROVE Together(t)
        <4>1. Reserved(t)' = Reserved(t) - (IF t = s THEN q ELSE 0)
          <5>1. held' = [held EXCEPT ![h] = r] /\ r.sku = s /\ r.state = "EXPIRED"
                /\ held[h].state = "ACTIVE" /\ held[h].sku = s /\ held[h].quantity = r.quantity
            BY <3>1, <3>2
          <5>2. Reserved(t)' = Reserved(t) - (IF t = s THEN r.quantity ELSE 0)
            BY <1>1, <5>1, ReservedMoves
          <5>3. QED BY <3>2, <5>2
        <4>2. Reserved(t)' = Reserved(t) + (IF t = s THEN n ELSE 0)
          BY <2>2, <3>3, <4>1
        <4>3. QED BY <1>1, <2>2, <3>4, <4>2, MovesTogether
      <3>6. QED BY <3>1, <3>5
    <2>5. CASE UNCHANGED catalogVars
      <3>1. fact' = fact /\ balance' = balance /\ held' = held
        BY <2>5 DEF catalogVars
      <3>2. QED BY <1>1, <3>1, StandsStill
    <2>6. QED BY <1>1, <2>1, <2>3, <2>4, <2>5 DEF CatalogNext
  <1>2. ASSUME CatalogInv, CatalogInv', [CatalogNext]_catalogVars
        PROVE  [/\ \A f \in Facts : fact'[f] # fact[f] => fact'[f].version > fact[f].version
                /\ \A s \in Skus :
                      \/ balance'[s].version > balance[s].version
                      \/ /\ balance'[s].version = balance[s].version
                         /\ balance'[s].onHand = balance[s].onHand
                         /\ balance'[s].reserved - balance[s].reserved = Reserved(s)' - Reserved(s)
                         /\ balance'[s].available - balance[s].available
                              = Reserved(s) - Reserved(s)']_catalogVars
    BY <1>1, <1>2 DEF Together
  <1>3. QED BY <1>2, CatalogInvariant, PTL DEF CatalogSpec, VersionsSettleTheCatalog

-------------------------------------------------------------------------------
(* Browsing the catalogue: pages of an ordered set.                        *)

\* A strict order of all elements of F, as a set of pairs.
IsOrdered(R, F) ==
    /\ \A p \in F : <<p, p>> \notin R
    /\ \A p, q, r \in F : <<p, q>> \in R /\ <<q, r>> \in R => <<p, r>> \in R
    /\ \A p, q \in F : p = q \/ <<p, q>> \in R \/ <<q, p>> \in R

\* Those that come before p, and their number.
Those(R, F, p) == {r \in F : <<r, p>> \in R}
Rank(R, F, p) == Cardinality(Those(R, F, p))

\* In an ordered finite set every place from the first to the last is taken, once.
LEMMA Ranks ==
    ASSUME NEW F, IsFiniteSet(F), NEW R, IsOrdered(R, F)
    PROVE  /\ Cardinality(F) \in Nat
           /\ \A p \in F : Rank(R, F, p) \in 0..(Cardinality(F) - 1)
           /\ \A p, q \in F : Rank(R, F, p) = Rank(R, F, q) => p = q
           /\ \A n \in 0..(Cardinality(F) - 1) : \E p \in F : Rank(R, F, p) = n
  <1>1. Cardinality(F) \in Nat
    BY FS_CardinalityType
  <1>2. ASSUME NEW p \in F
        PROVE  IsFiniteSet(Those(R, F, p)) /\ Rank(R, F, p) \in Nat
               /\ Rank(R, F, p) < Cardinality(F)
    <2>1. Those(R, F, p) \in SUBSET F /\ p \notin Those(R, F, p)
      BY DEF Those, IsOrdered
    <2>2. /\ IsFiniteSet(Those(R, F, p)) /\ Rank(R, F, p) <= Cardinality(F)
          /\ Rank(R, F, p) # Cardinality(F)
      BY <2>1, FS_Subset DEF Rank
    <2>3. Rank(R, F, p) \in Nat
      BY <2>2, FS_CardinalityType DEF Rank
    <2>4. QED BY <1>1, <2>2, <2>3
  <1>3. ASSUME NEW p \in F, NEW q \in F, <<p, q>> \in R
        PROVE  Rank(R, F, p) < Rank(R, F, q)
    <2>1. Those(R, F, p) \in SUBSET Those(R, F, q)
          /\ p \in Those(R, F, q) /\ p \notin Those(R, F, p)
      BY <1>3 DEF Those, IsOrdered
    <2>2. Rank(R, F, p) <= Rank(R, F, q) /\ Rank(R, F, p) # Rank(R, F, q)
      BY <1>2, <2>1, FS_Subset DEF Rank
    <2>3. Rank(R, F, p) \in Nat /\ Rank(R, F, q) \in Nat
      BY <1>2
    <2>4. QED BY <2>2, <2>3
  <1>4. ASSUME NEW p \in F, NEW q \in F, Rank(R, F, p) = Rank(R, F, q) PROVE p = q
    <2>1. Rank(R, F, p) \in Nat /\ ~(Rank(R, F, p) < Rank(R, F, q))
          /\ ~(Rank(R, F, q) < Rank(R, F, p))
      BY <1>2, <1>4
    <2>2. QED BY <1>3, <2>1 DEF IsOrdered
  <1>5. ASSUME NEW n \in 0..(Cardinality(F) - 1) PROVE \E p \in F : Rank(R, F, p) = n
    <2> DEFINE rank == [p \in F |-> Rank(R, F, p)]
    <2>1. rank \in [F -> 0..(Cardinality(F) - 1)]
      BY <1>1, <1>2
    <2>2. rank \in Injection(F, 0..(Cardinality(F) - 1))
      BY <1>4, <2>1 DEF Injection, IsInjective
    <2>3. IsFiniteSet(0..(Cardinality(F) - 1))
          /\ Cardinality(0..(Cardinality(F) - 1)) = Cardinality(F)
      <3>1. PICK m \in Int : m = Cardinality(F) - 1
        BY <1>1
      <3>2. IsFiniteSet(0..m) /\ Cardinality(0..m) = IF 0 > m THEN 0 ELSE m - 0 + 1
        BY FS_Interval
      <3>3. QED BY <1>1, <3>1, <3>2
    <2>4. rank \in Surjection(F, 0..(Cardinality(F) - 1))
      BY <2>2, <2>3, FS_Injection
    <2>5. \E p \in F : rank[p] = n
      BY <2>4 DEF Surjection
    <2>6. QED BY <2>5
  <1>6. QED BY <1>1, <1>2, <1>4, <1>5

\* The products of a page of L, and how many pages there are.
PageOf(R, F, L, n) == {p \in F : Rank(R, F, p) \in (n - 1) * L .. n * L - 1}

\* A page that is asked for is one of the result or the first; then it is empty only
\* if there is nothing at all, holds at most L, and leaves nothing for later when it
\* is the last.
LEMMA PagesOfRanks ==
    ASSUME NEW F, IsFiniteSet(F), NEW R, IsOrdered(R, F), NEW L \in Nat \ {0}, NEW n \in Nat \ {0},
           n = 1 \/ (n - 1) * L < Cardinality(F)
    PROVE  /\ PageOf(R, F, L, n) = {} => F = {}
           /\ IsFiniteSet(PageOf(R, F, L, n)) /\ Cardinality(PageOf(R, F, L, n)) <= L
           /\ Cardinality(F) <= n * L => \A p \in F : Rank(R, F, p) < n * L
  <1>1. PICK a \in Nat, b \in Nat : a = (n - 1) * L /\ b = n * L /\ b = a + L
    <2>1. (n - 1) * L \in Nat /\ n * L \in Nat /\ n * L = (n - 1) * L + L
      OBVIOUS
    <2>2. QED BY <2>1
  <1>2. Cardinality(F) \in Nat /\ \A p \in F : Rank(R, F, p) \in 0..(Cardinality(F) - 1)
    BY Ranks
  <1>3. PageOf(R, F, L, n) = {p \in F : Rank(R, F, p) \in a .. b - 1}
    BY <1>1 DEF PageOf
  <1>4. ASSUME F # {} PROVE PageOf(R, F, L, n) # {}
    <2>1. Cardinality(F) # 0
      BY <1>4, FS_EmptySet
    <2>2. n = 1 => a = 0
      BY <1>1
    <2>3. a \in 0..(Cardinality(F) - 1)
      BY <1>1, <1>2, <2>1, <2>2
    <2>4. PICK p \in F : Rank(R, F, p) = a
      BY <2>3, Ranks
    <2>5. a \in a .. b - 1
      BY <1>1
    <2>6. QED BY <1>3, <2>4, <2>5
  <1>5. IsFiniteSet(PageOf(R, F, L, n)) /\ Cardinality(PageOf(R, F, L, n)) <= L
    <2> DEFINE P == {p \in F : Rank(R, F, p) \in a .. b - 1}
               place == [p \in P |-> Rank(R, F, p)]
    <2>1. place \in Injection(P, a .. b - 1)
      <3>1. place \in [P -> a .. b - 1]
        OBVIOUS
      <3>2. \A p, q \in P : place[p] = place[q] => p = q
        BY Ranks
      <3>3. QED BY <3>1, <3>2 DEF Injection, IsInjective
    <2>2. IsFiniteSet(a .. b - 1) /\ Cardinality(a .. b - 1) = L
      <3>1. PICK m \in Int : m = b - 1
        OBVIOUS
      <3>2. IsFiniteSet(a .. m) /\ Cardinality(a .. m) = IF a > m THEN 0 ELSE m - a + 1
        BY FS_Interval
      <3>3. QED BY <1>1, <3>1, <3>2
    <2>3. IsFiniteSet(P) /\ Cardinality(P) <= Cardinality(a .. b - 1)
      BY <2>1, <2>2, FS_Injection
    <2>4. QED BY <1>3, <2>2, <2>3
  <1>6. ASSUME Cardinality(F) <= b, NEW p \in F PROVE Rank(R, F, p) < b
    BY <1>2, <1>6
  <1>7. QED BY <1>1, <1>4, <1>5, <1>6

\* The arithmetic of PageCount.
LEMMA PageCounts ==
    ASSUME NEW N \in Nat, NEW n \in Nat
    PROVE  /\ PageCount(N) \in Nat
           /\ n < PageCount(N) => n * PageLimit < N
           /\ n >= PageCount(N) => N <= n * PageLimit
  <1>1. PICK L \in Nat \ {0} : L = PageLimit
    BY SearchBoundsAssumption
  <1>2. PICK d : d = (N + L - 1) \div L
    OBVIOUS
  <1>3. d \in Nat /\ L * d <= N + L - 1 /\ N + L - 1 < L * d + L
    <2>1. N + L - 1 \in Nat
      OBVIOUS
    <2>2. /\ N + L - 1 = L * ((N + L - 1) \div L) + ((N + L - 1) % L)
          /\ (N + L - 1) \div L \in Nat /\ (N + L - 1) % L \in 0..(L - 1)
      BY <2>1
    <2>3. QED BY <1>2, <2>2
  <1>4. ASSUME NEW i \in Nat, NEW j \in Nat, i <= j PROVE i * L <= j * L
    <2>1. PICK k \in Nat : j = i + k
      <3>1. j - i \in Nat /\ j = i + (j - i)
        BY <1>4
      <3>2. QED BY <3>1
    <2>2. j * L = i * L + k * L /\ k * L \in Nat /\ i * L \in Nat
      BY <2>1
    <2>3. QED BY <2>2
  <1>5. L * d = d * L /\ d * L \in Nat /\ n * L \in Nat /\ (n + 1) * L = n * L + L
    BY <1>3
  <1>6. ASSUME n < d PROVE n * L < N
    <2>1. (n + 1) * L <= d * L
      BY <1>3, <1>4, <1>6
    <2>2. QED BY <1>3, <1>5, <2>1
  <1>7. ASSUME n >= d PROVE N <= n * L
    <2>1. d * L <= n * L
      BY <1>3, <1>4, <1>7
    <2>2. QED BY <1>3, <1>5, <2>1
  <1>8. PageCount(N) = d
    BY <1>1, <1>2 DEF PageCount
  <1>9. QED BY <1>1, <1>3, <1>6, <1>7, <1>8

-------------------------------------------------------------------------------
(* Browsing the catalogue: the inductive invariant.                        *)

\* Tables of counts, and visits.
Tables == {t \in [FilterKinds -> UNION {[OptionsOf(k) -> Nat] : k \in FilterKinds}] :
              \A k \in FilterKinds : t[k] \in [OptionsOf(k) -> Nat]}
Visit == [state : {"asked", "listed", "shown"}, query : Query, page : Nat \ {0},
          items : SUBSET Products, total : Nat, counts : Tables, calm : BOOLEAN,
          walked : SUBSET Products]

\* What a query finds, with the filter it has, and the order of it.
All(q) == Found(q, q.filter)
Sorting(q) == {e \in All(q) \X All(q) : Before(q.order, e[1], e[2])}

\* While the catalogue stays as it is, what was walked through are the pages before
\* this one, the page is one of the result, and the answers are those of a catalogue
\* that is read at once.
WalkOK(v) ==
    /\ v.walked = {p \in All(v.query) : Rank(Sorting(v.query), All(v.query), p)
                                           < (v.page - 1) * PageLimit}
    /\ v.page = 1 \/ (v.page - 1) * PageLimit < Cardinality(All(v.query))
    /\ v.state # "asked" => /\ v.items = OnPage(v.query, v.page)
                            /\ v.total = Cardinality(All(v.query))
    /\ v.state = "shown" => v.counts = Counts(v.query)

\* Each product is in one of its versions.
GoodsOK == DOMAIN goods = Products /\ \A p \in Products : goods[p] \in Versions[p]

\* The inductive invariant of browsing.
SearchInv == GoodsOK /\ visit \in Visit /\ (visit.calm => WalkOK(visit))

\* What is found is finite, and the order of it is one.
LEMMA FoundInOrder ==
    ASSUME GoodsOK, NEW q \in Query
    PROVE  /\ IsFiniteSet(All(q)) /\ All(q) \in SUBSET Products
           /\ IsOrdered(Sorting(q), All(q))
  <1>1. All(q) \in SUBSET Products
    BY DEF All, Found
  <1>2. IsFiniteSet(All(q))
    BY <1>1, SearchProductsAssumption, FS_Subset
  <1>3. PICK o \in Orders : o = q.order
    BY DEF Query
  <1>4. \A p \in Products : p \in Int /\ goods[p].key[o] \in Int
    BY SearchProductsAssumption DEF GoodsOK, IsProduct
  <1>5. PICK F : F = All(q)
    OBVIOUS
  <1>6. \A p, r \in F : <<p, r>> \in Sorting(q) <=> Before(o, p, r)
    BY <1>3, <1>5 DEF Sorting
  <1>7. \A p \in F : ~Before(o, p, p)
    BY <1>1, <1>4, <1>5 DEF Before
  <1>8. \A p, r, s \in F : Before(o, p, r) /\ Before(o, r, s) => Before(o, p, s)
    BY <1>1, <1>4, <1>5 DEF Before
  <1>9. \A p, r \in F : p = r \/ Before(o, p, r) \/ Before(o, r, p)
    BY <1>1, <1>4, <1>5 DEF Before
  <1>10. IsOrdered(Sorting(q), F)
    BY <1>6, <1>7, <1>8, <1>9 DEF IsOrdered
  <1>11. QED BY <1>1, <1>2, <1>5, <1>10

\* The page of a query is a page of what it finds, in its order.
LEMMA PagesAreOfFound ==
    ASSUME NEW q \in Query, NEW n
    PROVE  OnPage(q, n) = PageOf(Sorting(q), All(q), PageLimit, n)
  <1>1. ASSUME NEW p \in All(q)
        PROVE  {r \in All(q) : Before(q.order, r, p)} = Those(Sorting(q), All(q), p)
    BY DEF Those, Sorting
  <1>2. \A p \in All(q) : Cardinality({r \in All(q) : Before(q.order, r, p)})
                             = Rank(Sorting(q), All(q), p)
    BY <1>1 DEF Rank
  <1>3. OnPage(q, n) = {p \in All(q) : Cardinality({r \in All(q) : Before(q.order, r, p)})
                                          \in (n - 1) * PageLimit .. n * PageLimit - 1}
    BY DEF OnPage, All
  <1>4. QED BY <1>2, <1>3 DEF PageOf

\* Counts are numbers.
LEMMA CountsAreNumbers ==
    ASSUME NEW q
    PROVE  Counts(q) \in Tables /\ NoCounts \in Tables
  <1>1. ASSUME NEW k \in FilterKinds, NEW value \in OptionsOf(k)
        PROVE  Cardinality({p \in Scope(q, k) : Counted(goods[p], k, value)}) \in Nat
    <2>1. {p \in Scope(q, k) : Counted(goods[p], k, value)} \in SUBSET Products
      BY DEF Scope, Found
    <2>2. IsFiniteSet({p \in Scope(q, k) : Counted(goods[p], k, value)})
      BY <2>1, SearchProductsAssumption, FS_Subset
    <2>3. QED BY <2>2, FS_CardinalityType
  <1>2. ASSUME NEW k \in FilterKinds
        PROVE  Counts(q)[k] \in [OptionsOf(k) -> Nat] /\ NoCounts[k] \in [OptionsOf(k) -> Nat]
    BY <1>1, <1>2 DEF Counts, NoCounts
  <1>3. QED BY <1>2 DEF Tables, Counts, NoCounts

\* A query to start with is a visit, and fine.
LEMMA AskedIsFine ==
    ASSUME GoodsOK, NEW q \in Query
    PROVE  Asked(q, 1, {}) \in Visit /\ WalkOK(Asked(q, 1, {})) /\ Asked(q, 1, {}).calm = TRUE
  <1>1. Asked(q, 1, {}) \in Visit
    BY CountsAreNumbers DEF Asked, Visit
  <1>2. PICK v : v = Asked(q, 1, {})
    OBVIOUS
  <1>3. v.state = "asked" /\ v.walked = {} /\ v.page = 1 /\ v.query = q
    BY <1>2 DEF Asked
  <1>4. \A p \in All(q) : Rank(Sorting(q), All(q), p) \in Nat
    BY FoundInOrder, Ranks
  <1>5. (v.page - 1) * PageLimit = 0
    BY <1>3, SearchBoundsAssumption
  <1>6. {p \in All(q) : Rank(Sorting(q), All(q), p) < 0} = {}
    BY <1>4
  <1>7. WalkOK(v)
    BY <1>3, <1>5, <1>6 DEF WalkOK
  <1>8. Asked(q, 1, {}).calm = TRUE
    BY DEF Asked
  <1>9. QED BY <1>1, <1>2, <1>7, <1>8

\* The visitor arrives.
LEMMA SearchInitInv == SearchInit => SearchInv
  <1> SUFFICES ASSUME SearchInit PROVE SearchInv
    OBVIOUS
  <1>1. GoodsOK
    BY DEF SearchInit, GoodsOK
  <1>2. PICK q \in Arriving : visit = Asked(q, 1, {})
    BY DEF SearchInit
  <1>3. q \in Query
    <2>1. NoFilter \in Filter
      BY DEF NoFilter, Filter
    <2>2. QED BY <2>1 DEF Arriving, Query
  <1>4. QED BY <1>1, <1>2, <1>3, AskedIsFine DEF SearchInv

\* What is said of a visit stays true as long as the catalogue stays as it is.
LEMMA CalmStays == ASSUME goods' = goods, NEW v, WalkOK(v) PROVE WalkOK(v)'
  <1>1. ASSUME NEW q, NEW f PROVE Found(q, f)' = Found(q, f)
    BY DEF Found
  <1>2. ASSUME NEW o, NEW p, NEW r PROVE Before(o, p, r)' <=> Before(o, p, r)
    BY DEF Before
  <1>3. ASSUME NEW q PROVE All(q)' = All(q)
    BY <1>1 DEF All
  <1>4. ASSUME NEW q PROVE Sorting(q)' = Sorting(q)
    BY <1>2, <1>3 DEF Sorting
  <1>5. ASSUME NEW q, NEW n PROVE OnPage(q, n)' = OnPage(q, n)
    BY <1>1, <1>2 DEF OnPage
  <1>6. ASSUME NEW q, NEW k PROVE Scope(q, k)' = Scope(q, k)
    BY <1>1 DEF Scope
  <1>7. ASSUME NEW q PROVE Counts(q)' = Counts(q)
    BY <1>6 DEF Counts
  <1>8. QED BY <1>3, <1>4, <1>5, <1>7 DEF WalkOK

\* The first answer of the API: the products of the page, and how many there are in
\* all, which an empty page does not know.
LEMMA ReadPageKeepsInv == ASSUME SearchInv, ReadPage PROVE SearchInv'
  <1>1. visit \in Visit /\ GoodsOK /\ visit.state = "asked" /\ goods' = goods
    BY DEF SearchInv, ReadPage
  <1>2. PICK items : items = OnPage(visit.query, visit.page)
    OBVIOUS
  <1>3. PICK total : total = IF items = {} THEN 0 ELSE Cardinality(All(visit.query))
    OBVIOUS
  <1>4. visit' = [visit EXCEPT !.state = "listed", !.items = items, !.total = total]
    BY <1>2, <1>3 DEF ReadPage, All
  <1>5. visit.query \in Query
    BY <1>1 DEF Visit
  <1>6. IsFiniteSet(All(visit.query)) /\ All(visit.query) \in SUBSET Products
        /\ IsOrdered(Sorting(visit.query), All(visit.query))
    BY <1>1, <1>5, FoundInOrder
  <1>7. Cardinality(All(visit.query)) \in Nat
    BY <1>6, FS_CardinalityType
  <1>8. items \in SUBSET Products /\ total \in Nat
    BY <1>2, <1>3, <1>5, <1>6, <1>7, PagesAreOfFound DEF PageOf
  <1>9. visit' \in Visit
    BY <1>1, <1>4, <1>8 DEF Visit
  <1>10. /\ visit'.state = "listed" /\ visit'.items = items /\ visit'.total = total
         /\ visit'.query = visit.query /\ visit'.page = visit.page
         /\ visit'.walked = visit.walked /\ visit'.calm = visit.calm
    BY <1>1, <1>4 DEF Visit
  <1>11. ASSUME visit.calm PROVE WalkOK(visit')
    <2>1. WalkOK(visit)
      BY <1>11 DEF SearchInv
    <2>2. visit.page \in Nat \ {0} /\ (visit.page = 1
             \/ (visit.page - 1) * PageLimit < Cardinality(All(visit.query)))
      BY <1>1, <2>1 DEF WalkOK, Visit
    <2>3. items = {} => All(visit.query) = {}
      BY <1>2, <1>5, <1>6, <2>2, PagesOfRanks, PagesAreOfFound, SearchBoundsAssumption
    <2>4. total = Cardinality(All(visit.query))
      BY <1>3, <2>3, FS_EmptySet
    <2>5. QED BY <1>2, <1>10, <2>1, <2>4 DEF WalkOK
  <1>12. visit'.calm => WalkOK(visit)'
    <2>1. PICK w : w = visit'
      OBVIOUS
    <2>2. visit'.calm => WalkOK(w)'
      BY <1>1, <1>10, <1>11, <2>1, CalmStays
    <2>3. QED BY <2>1, <2>2
  <1>13. GoodsOK'
    BY <1>1 DEF GoodsOK
  <1>14. QED BY <1>9, <1>12, <1>13 DEF SearchInv

\* The second answer: the counts.
LEMMA ReadCountsKeepsInv == ASSUME SearchInv, ReadCounts PROVE SearchInv'
  <1>1. visit \in Visit /\ GoodsOK /\ visit.state = "listed" /\ goods' = goods
    BY DEF SearchInv, ReadCounts
  <1>2. PICK counts : counts = Counts(visit.query)
    OBVIOUS
  <1>3. visit' = [visit EXCEPT !.state = "shown", !.counts = counts]
    BY <1>2 DEF ReadCounts
  <1>4. counts \in Tables
    BY <1>2, CountsAreNumbers
  <1>5. visit' \in Visit
    BY <1>1, <1>3, <1>4 DEF Visit
  <1>6. /\ visit'.state = "shown" /\ visit'.items = visit.items /\ visit'.total = visit.total
        /\ visit'.query = visit.query /\ visit'.page = visit.page /\ visit'.counts = counts
        /\ visit'.walked = visit.walked /\ visit'.calm = visit.calm
    BY <1>1, <1>3 DEF Visit
  <1>7. visit.calm => WalkOK(visit')
    BY <1>1, <1>2, <1>6 DEF WalkOK, SearchInv
  <1>8. visit'.calm => WalkOK(visit)'
    <2>1. PICK w : w = visit'
      OBVIOUS
    <2>2. visit'.calm => WalkOK(w)'
      BY <1>1, <1>6, <1>7, <2>1, CalmStays
    <2>3. QED BY <2>1, <2>2
  <1>9. GoodsOK'
    BY <1>1 DEF GoodsOK
  <1>10. QED BY <1>5, <1>8, <1>9 DEF SearchInv

\* A new query.
LEMMA AskingKeepsInv ==
    ASSUME SearchInv, NEW q \in Query, visit' = Asked(q, 1, {}), UNCHANGED goods
    PROVE  SearchInv'
  <1>1. GoodsOK /\ GoodsOK'
    BY DEF SearchInv, GoodsOK
  <1>2. PICK w : w = Asked(q, 1, {})
    OBVIOUS
  <1>3. w \in Visit /\ WalkOK(w)
    BY <1>1, <1>2, AskedIsFine
  <1>4. WalkOK(w)'
    BY <1>3, CalmStays
  <1>5. QED BY <1>1, <1>2, <1>3, <1>4 DEF SearchInv

\* Filters that a visitor adds or takes away make a query.
LEMMA FiltersAreQueries ==
    ASSUME NEW q \in Query, NEW kd \in FilterKinds, NEW chosen \in SUBSET OptionsOf(kd)
    PROVE  /\ [q EXCEPT !.filter = [q.filter EXCEPT ![kd] = chosen]] \in Query
           /\ q.filter \in Filter
           /\ [q.filter EXCEPT ![kd] = chosen] \in Filter
  <1>1. q.filter \in Filter
    BY DEF Query
  <1>2. PICK f : f = [q.filter EXCEPT ![kd] = chosen]
    OBVIOUS
  <1>3. f \in [FilterKinds -> SUBSET UNION {OptionsOf(k) : k \in FilterKinds}]
    BY <1>1, <1>2 DEF Filter
  <1>4. \A k \in FilterKinds : f[k] \subseteq OptionsOf(k)
    BY <1>1, <1>2 DEF Filter
  <1>5. f \in Filter
    BY <1>3, <1>4 DEF Filter
  <1>6. [q EXCEPT !.filter = f] \in Query
    BY <1>5 DEF Query
  <1>7. QED BY <1>1, <1>2, <1>5, <1>6

\* The next page.
LEMMA TurnPageKeepsInv == ASSUME SearchInv, TurnPage PROVE SearchInv'
  <1>1. visit \in Visit /\ GoodsOK /\ visit.state = "shown" /\ goods' = goods
        /\ visit.page < PageCount(visit.total)
    BY DEF SearchInv, TurnPage
  <1>2. PICK a : a = Asked(visit.query, visit.page + 1, visit.walked \cup visit.items)
    OBVIOUS
  <1>3. visit' = [a EXCEPT !.calm = visit.calm]
    BY <1>2 DEF TurnPage
  <1>4. visit.query \in Query /\ visit.page \in Nat \ {0} /\ visit.calm \in BOOLEAN
        /\ visit.walked \in SUBSET Products /\ visit.items \in SUBSET Products
    BY <1>1 DEF Visit
  <1>5. a \in Visit
    BY <1>2, <1>4, CountsAreNumbers DEF Asked, Visit
  <1>6. visit' \in Visit
    BY <1>3, <1>4, <1>5 DEF Visit
  <1>7. /\ visit'.state = "asked" /\ visit'.query = visit.query /\ visit'.page = visit.page + 1
        /\ visit'.walked = visit.walked \cup visit.items /\ visit'.calm = visit.calm
    <2>1. /\ a.state = "asked" /\ a.query = visit.query /\ a.page = visit.page + 1
          /\ a.walked = visit.walked \cup visit.items
      BY <1>2 DEF Asked
    <2>2. QED BY <1>3, <1>5, <2>1 DEF Visit
  <1>8. ASSUME visit.calm PROVE WalkOK(visit')
    <2>1. PICK n, F, R : n = visit.page /\ F = All(visit.query) /\ R = Sorting(visit.query)
      OBVIOUS
    <2>2. /\ visit.walked = {p \in F : Rank(R, F, p) < (n - 1) * PageLimit}
          /\ visit.items = PageOf(R, F, PageLimit, n)
          /\ visit.total = Cardinality(F)
      BY <1>1, <1>4, <1>8, <2>1, PagesAreOfFound DEF SearchInv, WalkOK
    <2>3. Cardinality(F) \in Nat /\ \A p \in F : Rank(R, F, p) \in Nat
      BY <1>1, <1>4, <2>1, FoundInOrder, Ranks
    <2>4. n * PageLimit < Cardinality(F)
      BY <1>1, <1>4, <2>1, <2>2, <2>3, PageCounts
    <2>5. PICK b, c \in Nat : b = (n - 1) * PageLimit /\ c = n * PageLimit /\ b <= c
      <3>1. PICK L \in Nat : L = PageLimit
        BY SearchBoundsAssumption
      <3>2. n \in Nat \ {0}
        BY <1>4, <2>1
      <3>3. (n - 1) * L \in Nat /\ n * L \in Nat /\ n * L = (n - 1) * L + L
        BY <3>2
      <3>4. QED BY <3>1, <3>3
    <2>6. visit.walked \cup visit.items = {p \in F : Rank(R, F, p) < c}
      BY <2>2, <2>3, <2>5 DEF PageOf
    <2>7. visit'.page - 1 = n
      BY <1>4, <1>7, <2>1
    <2>8. QED BY <1>7, <2>1, <2>4, <2>5, <2>6, <2>7 DEF WalkOK
  <1>9. visit'.calm => WalkOK(visit)'
    <2>1. PICK w : w = visit'
      OBVIOUS
    <2>2. visit'.calm => WalkOK(w)'
      BY <1>1, <1>7, <1>8, <2>1, CalmStays
    <2>3. QED BY <2>1, <2>2
  <1>10. GoodsOK'
    BY <1>1 DEF GoodsOK
  <1>11. QED BY <1>6, <1>9, <1>10 DEF SearchInv

\* Every step keeps the invariant.
LEMMA SearchNextInv == SearchInv /\ [SearchNext]_searchVars => SearchInv'
  <1> SUFFICES ASSUME SearchInv, [SearchNext]_searchVars PROVE SearchInv'
    OBVIOUS
  <1>1. visit \in Visit /\ visit.query \in Query /\ GoodsOK
    BY DEF SearchInv, Visit
  <1>2. CASE ReadPage \/ ReadCounts \/ TurnPage
    BY <1>2, ReadPageKeepsInv, ReadCountsKeepsInv, TurnPageKeepsInv
  <1>3. ASSUME NEW kd \in FilterKinds, NEW value \in OptionsOf(kd),
               Choose(kd, value) \/ Unchoose(kd, value)
        PROVE  SearchInv'
    <2>1. PICK more, less : /\ more = visit.query.filter[kd] \cup {value}
                            /\ less = visit.query.filter[kd] \ {value}
      OBVIOUS
    <2>2. more \in SUBSET OptionsOf(kd) /\ less \in SUBSET OptionsOf(kd)
      BY <1>1, <2>1 DEF Query, Filter
    <2>3. ASSUME NEW chosen \in SUBSET OptionsOf(kd), UNCHANGED goods,
                 visit' = Asked([visit.query EXCEPT !.filter =
                                   [visit.query.filter EXCEPT ![kd] = chosen]], 1, {})
          PROVE  SearchInv'
      BY <1>1, <2>3, FiltersAreQueries, AskingKeepsInv
    <2>4. CASE Choose(kd, value)
      BY <2>1, <2>2, <2>3, <2>4 DEF Choose, Widened
    <2>5. CASE Unchoose(kd, value)
      BY <2>1, <2>2, <2>3, <2>5 DEF Unchoose
    <2>6. QED BY <1>3, <2>4, <2>5
  <1>4. ASSUME NEW o \in Orders, SortBy(o) PROVE SearchInv'
    <2>1. [visit.query EXCEPT !.order = o] \in Query
      BY <1>1 DEF Query
    <2>2. QED BY <1>4, <2>1, AskingKeepsInv DEF SortBy
  <1>5. ASSUME NEW p \in Products, NEW x \in Versions[p], ChangeGoods(p, x) PROVE SearchInv'
    <2>1. GoodsOK'
      BY <1>1, <1>5 DEF ChangeGoods, GoodsOK
    <2>2. visit' = [visit EXCEPT !.calm = FALSE]
      BY <1>5 DEF ChangeGoods
    <2>3. visit' \in Visit /\ visit'.calm = FALSE
      BY <1>1, <2>2 DEF Visit
    <2>4. QED BY <2>1, <2>3 DEF SearchInv
  <1>6. CASE UNCHANGED searchVars
    <2>1. goods' = goods /\ visit' = visit
      BY <1>6 DEF searchVars
    <2>2. PICK w : w = visit
      OBVIOUS
    <2>3. w.calm => WalkOK(w)'
      BY <2>1, <2>2, CalmStays DEF SearchInv
    <2>4. QED BY <1>1, <2>1, <2>2, <2>3 DEF SearchInv, GoodsOK
  <1>7. QED BY <1>2, <1>3, <1>4, <1>5, <1>6 DEF SearchNext

\* The invariant holds throughout.
LEMMA SearchInvariant == SearchSpec => []SearchInv
  <1>1. QED BY SearchInitInv, SearchNextInv, PTL DEF SearchSpec

-------------------------------------------------------------------------------
(* Browsing the catalogue: the theorems.                                   *)

\* Every product is in one of its states, and every visit is one.
THEOREM SearchTypeCorrect == SearchSpec => []SearchTypeOK
  <1>1. SearchInv => SearchTypeOK
    BY DEF SearchInv, GoodsOK, Visit, Tables, SearchTypeOK
  <1>2. QED BY <1>1, SearchInvariant, PTL

\* Walking from the first page to the last shows every product of the result, and
\* none twice, if nobody changes the catalogue meanwhile.
THEOREM PagesCover == SearchSpec => []PagesCoverTheResult
  <1>1. ASSUME SearchInv, visit.state # "asked", visit.calm
        PROVE  /\ visit.items \cap visit.walked = {}
               /\ Cardinality(visit.items) <= PageLimit
               /\ visit.page >= PageCount(visit.total)
                    => visit.items \cup visit.walked = Found(visit.query, visit.query.filter)
    <2>1. visit.query \in Query /\ visit.page \in Nat \ {0} /\ GoodsOK /\ WalkOK(visit)
      BY <1>1 DEF SearchInv, Visit
    <2>2. PICK n, F, R : n = visit.page /\ F = All(visit.query) /\ R = Sorting(visit.query)
      OBVIOUS
    <2>3. /\ visit.walked = {p \in F : Rank(R, F, p) < (n - 1) * PageLimit}
          /\ visit.items = PageOf(R, F, PageLimit, n)
          /\ visit.total = Cardinality(F)
          /\ n = 1 \/ (n - 1) * PageLimit < Cardinality(F)
      BY <1>1, <2>1, <2>2, PagesAreOfFound DEF WalkOK
    <2>4. IsFiniteSet(F) /\ IsOrdered(R, F) /\ PageLimit \in Nat \ {0}
      BY <2>1, <2>2, FoundInOrder, SearchBoundsAssumption
    <2>5. Cardinality(F) \in Nat /\ \A p \in F : Rank(R, F, p) \in Nat
      BY <2>4, Ranks
    <2>6. PICK b, c \in Nat : b = (n - 1) * PageLimit /\ c = n * PageLimit /\ b <= c
      <3>1. PICK L \in Nat : L = PageLimit
        BY <2>4
      <3>2. n \in Nat \ {0}
        BY <2>1, <2>2
      <3>3. (n - 1) * L \in Nat /\ n * L \in Nat /\ n * L = (n - 1) * L + L
        BY <3>2
      <3>4. QED BY <3>1, <3>3
    <2>7. visit.items = {p \in F : Rank(R, F, p) \in b .. c - 1}
      BY <2>3, <2>6 DEF PageOf
    <2>8. visit.walked = {p \in F : Rank(R, F, p) < b}
      BY <2>3, <2>6
    <2>9. visit.items \cap visit.walked = {}
      BY <2>5, <2>7, <2>8
    <2>10. Cardinality(visit.items) <= PageLimit
      BY <2>1, <2>2, <2>3, <2>4, PagesOfRanks
    <2>11. ASSUME visit.page >= PageCount(visit.total) PROVE visit.items \cup visit.walked = F
      <3>1. Cardinality(F) <= c
        BY <2>1, <2>2, <2>3, <2>5, <2>6, <2>11, PageCounts
      <3>2. \A p \in F : Rank(R, F, p) < c
        BY <2>1, <2>2, <2>3, <2>4, <2>6, <3>1, PagesOfRanks
      <3>3. QED BY <2>5, <2>6, <2>7, <2>8, <3>2
    <2>12. QED BY <2>2, <2>9, <2>10, <2>11 DEF All
  <1>2. SearchInv => PagesCoverTheResult
    BY <1>1 DEF PagesCoverTheResult
  <1>3. QED BY <1>2, SearchInvariant, PTL

\* What a query finds with other options of one kind.
Having(q, kd, value) == {p \in Scope(q, kd) : HasOption(goods[p], kd, value)}

\* With no option of a kind the query finds all that the options are counted among;
\* each option that is added adds the products that have it.
LEMMA WideningAdds ==
    ASSUME NEW q \in Query, NEW kd \in FilterKinds, NEW value \in OptionsOf(kd)
    PROVE  /\ q.filter[kd] = {} => All(q) = Scope(q, kd)
           /\ LET wide == Widened(q, kd, value)
              IN /\ q.filter[kd] = {} => Found(wide, wide.filter) = Having(q, kd, value)
                 /\ q.filter[kd] # {} => Found(wide, wide.filter) = All(q) \cup Having(q, kd, value)
           /\ q.filter[kd] # {} =>
                 All(q) = {p \in Scope(q, kd) :
                              \E o \in q.filter[kd] : HasOption(goods[p], kd, o)}
  <1>1. PICK f : f = q.filter
    OBVIOUS
  <1>2. f \in Filter
    BY <1>1 DEF Query
  <1>3. PICK none, more : /\ none = [f EXCEPT ![kd] = {}]
                          /\ more = [f EXCEPT ![kd] = f[kd] \cup {value}]
    OBVIOUS
  <1>4. /\ DOMAIN f = FilterKinds
        /\ \A k \in FilterKinds : none[k] = IF k = kd THEN {} ELSE f[k]
        /\ \A k \in FilterKinds : more[k] = IF k = kd THEN f[kd] \cup {value} ELSE f[k]
    BY <1>2, <1>3 DEF Filter
  <1> DEFINE Rest(x) == \A k \in FilterKinds \ {kd} :
                           f[k] # {} => \E o \in f[k] : HasOption(x, k, o)
             Base(x) == /\ x.active /\ x.variants # {}
                        /\ q.category # Anywhere => x.categories \cap Under[q.category] # {}
                        /\ q.word # NoWord => q.word \in x.matches
                        /\ q.range.from # 0 => Prices(x) # {} /\ Price(x) >= q.range.from
                        /\ q.range.to # 0 => Prices(x) # {} /\ Price(x) <= q.range.to
             Any(x, s) == \E o \in s : HasOption(x, kd, o)
  <1>5. ASSUME NEW x
        PROVE  /\ Accepts(q, none, x) <=> Base(x) /\ Rest(x)
               /\ Accepts(q, f, x) <=> Base(x) /\ Rest(x) /\ (f[kd] # {} => Any(x, f[kd]))
               /\ Accepts(q, more, x) <=> Base(x) /\ Rest(x) /\ Any(x, f[kd] \cup {value})
    <2> DEFINE Meets(g) == \A k \in FilterKinds : g[k] # {} => \E o \in g[k] : HasOption(x, k, o)
    <2>1. /\ Accepts(q, none, x) <=> Base(x) /\ Meets(none)
          /\ Accepts(q, f, x) <=> Base(x) /\ Meets(f)
          /\ Accepts(q, more, x) <=> Base(x) /\ Meets(more)
      BY DEF Accepts
    <2>2. Meets(none) <=> Rest(x)
      BY <1>4
    <2>3. Meets(f) <=> Rest(x) /\ (f[kd] # {} => Any(x, f[kd]))
      BY <1>4
    <2>4. Meets(more) <=> Rest(x) /\ Any(x, f[kd] \cup {value})
      BY <1>4
    <2> HIDE DEF Meets, Base, Rest, Any
    <2>5. QED BY <2>1, <2>2, <2>3, <2>4
  <1>6. PICK wide : wide = Widened(q, kd, value)
    OBVIOUS
  <1>7. /\ wide.filter = more
        /\ wide.category = q.category /\ wide.word = q.word /\ wide.range = q.range
    BY <1>1, <1>3, <1>6 DEF Widened, Query
  <1>8. \A x : Accepts(wide, more, x) <=> Accepts(q, more, x)
    BY <1>7 DEF Accepts
  <1> HIDE DEF Base, Rest
  <1>9. Scope(q, kd) = {p \in Products : Base(goods[p]) /\ Rest(goods[p])}
    BY <1>1, <1>3, <1>5 DEF Scope, Found
  <1>10. All(q) = {p \in Products : /\ Base(goods[p]) /\ Rest(goods[p])
                                    /\ f[kd] # {} => Any(goods[p], f[kd])}
    BY <1>1, <1>5 DEF All, Found
  <1>11. Found(wide, wide.filter) = {p \in Products : /\ Base(goods[p]) /\ Rest(goods[p])
                                                     /\ Any(goods[p], f[kd] \cup {value})}
    BY <1>5, <1>7, <1>8 DEF Found
  <1>12. Having(q, kd, value) = {p \in Products : /\ Base(goods[p]) /\ Rest(goods[p])
                                                  /\ HasOption(goods[p], kd, value)}
    BY <1>9 DEF Having
  <1>13. \A x : Any(x, f[kd] \cup {value}) <=> Any(x, f[kd]) \/ HasOption(x, kd, value)
    OBVIOUS
  <1>14. ASSUME f[kd] = {} PROVE All(q) = Scope(q, kd)
    BY <1>9, <1>10, <1>14
  <1>15. ASSUME f[kd] = {} PROVE Found(wide, wide.filter) = Having(q, kd, value)
    BY <1>11, <1>12, <1>13, <1>15
  <1>16. ASSUME f[kd] # {} PROVE Found(wide, wide.filter) = All(q) \cup Having(q, kd, value)
    <2> HIDE DEF Any
    <2>1. QED BY <1>10, <1>11, <1>12, <1>13, <1>16
  <1>17. ASSUME f[kd] # {} PROVE All(q) = {p \in Scope(q, kd) : Any(goods[p], f[kd])}
    <2> HIDE DEF Any
    <2>1. QED BY <1>9, <1>10, <1>17
  <1>18. QED BY <1>1, <1>6, <1>14, <1>15, <1>16, <1>17

\* A product that is found by its cheapest variant is counted by it.
LEMMA FoundIsCounted ==
    ASSUME NEW x, NEW kd \in FilterKinds, NEW value \in OptionsOf(kd)
    PROVE  /\ HasOption(x, kd, value) => Counted(x, kd, value)
           /\ kd # "sale" => (Counted(x, kd, value) <=> HasOption(x, kd, value))
  <1>1. CASE kd = "sale"
    <2>1. HasOption(x, kd, value) <=> Reduced(Charged(x))
      BY <1>1 DEF HasOption
    <2>2. Counted(x, kd, value) <=> Reduced(x.variants)
      BY <1>1 DEF Counted
    <2>3. Reduced(Charged(x)) => Reduced(x.variants)
      BY DEF Reduced, Charged, Cheapest
    <2>4. QED BY <1>1, <2>1, <2>2, <2>3
  <1>2. CASE kd # "sale"
    BY <1>2 DEF Counted
  <1>3. QED BY <1>1, <1>2

\* A brand and an availability exclude another, and a mark is the only option of its
\* kind.
LEMMA OptionsExclude ==
    ASSUME NEW x, NEW kd \in FilterKinds \ Codes, NEW value \in OptionsOf(kd),
           NEW other \in OptionsOf(kd), HasOption(x, kd, value), HasOption(x, kd, other)
    PROVE  value = other
  <1>1. CASE kd = "brand"
    BY <1>1 DEF HasOption
  <1>2. CASE kd = "availability"
    <2>1. Availability(x) = value /\ Availability(x) = other
      BY <1>2 DEF HasOption
    <2>2. QED BY <2>1
  <1>3. CASE kd \in Flags
    BY <1>3 DEF OptionsOf, Flags
  <1>4. QED BY <1>1, <1>2, <1>3 DEF FilterKinds

\* The number next to an option is what choosing it brings, as long as the catalogue
\* stays as it is.
THEOREM CountsTrue == SearchSpec => []CountsComeTrue
  <1>1. ASSUME SearchInv, visit.state = "shown", visit.calm,
               NEW kd \in FilterKinds, NEW value \in OptionsOf(kd) \ visit.query.filter[kd],
               NEW wide, wide = Widened(visit.query, kd, value),
               NEW n, n = visit.counts[kd][value],
               NEW total, total = Cardinality(Found(wide, wide.filter)),
               NEW more, more = visit.total + n
        PROVE  IF visit.query.filter[kd] = {}
               THEN total <= n /\ (kd # "sale" => total = n)
               ELSE total <= more /\ (IF kd \in Codes THEN total >= visit.total /\ total >= n
                                                        ELSE total = more)
    <2>1. PICK q \in Query : q = visit.query
      BY <1>1 DEF SearchInv, Visit
    <2>2. GoodsOK /\ WalkOK(visit)
      BY <1>1 DEF SearchInv
    <2>3. visit.total = Cardinality(All(q)) /\ visit.counts = Counts(q)
      BY <1>1, <2>1, <2>2 DEF WalkOK
    <2>4. PICK A, H, C : /\ A = All(q) /\ H = Having(q, kd, value)
                         /\ C = {p \in Scope(q, kd) : Counted(goods[p], kd, value)}
      OBVIOUS
    <2>5. n = Cardinality(C)
      BY <1>1, <2>3, <2>4 DEF Counts
    <2>6. H \in SUBSET C /\ (kd # "sale" => H = C)
      BY <1>1, <2>4, FoundIsCounted DEF Having
    <2>7. A \in SUBSET Products /\ H \in SUBSET Products /\ C \in SUBSET Products
      BY <2>4 DEF All, Having, Scope, Found
    <2>8. IsFiniteSet(A) /\ IsFiniteSet(H) /\ IsFiniteSet(C)
      BY <2>7, SearchProductsAssumption, FS_Subset
    <2>9. CASE q.filter[kd] = {}
      <3>1. total = Cardinality(H)
        BY <1>1, <2>1, <2>4, <2>9, WideningAdds
      <3>2. Cardinality(H) <= Cardinality(C)
        BY <2>6, <2>8, FS_Subset
      <3>3. QED BY <2>1, <2>5, <2>6, <2>9, <3>1, <3>2
    <2>10. CASE q.filter[kd] # {}
      <3>1. total = Cardinality(A \cup H)
        BY <1>1, <2>1, <2>4, <2>10, WideningAdds
      <3>2. q.filter[kd] \subseteq OptionsOf(kd) /\ value \notin q.filter[kd]
        BY <1>1, <2>1 DEF Query, Filter
      <3>3. kd \notin Flags
        BY <1>1, <2>10, <3>2 DEF OptionsOf, Flags
      <3>4. n = Cardinality(H)
        BY <2>5, <2>6, <3>3 DEF Flags
      <3>5. /\ IsFiniteSet(A \cup H)
            /\ Cardinality(A \cup H) = Cardinality(A) + Cardinality(H) - Cardinality(A \cap H)
        BY <2>8, FS_Union
      <3>6. Cardinality(A) <= Cardinality(A \cup H) /\ Cardinality(H) <= Cardinality(A \cup H)
        BY <3>5, FS_Subset
      <3>7. IsFiniteSet(A \cap H)
        BY <2>8, FS_Subset
      <3>8. /\ Cardinality(A) \in Nat /\ Cardinality(H) \in Nat
            /\ Cardinality(A \cap H) \in Nat
        BY <2>8, <3>7, FS_CardinalityType
      <3>9. ASSUME kd \notin Codes PROVE total = Cardinality(A) + Cardinality(H)
        <4>1. A \cap H = {}
          <5>1. SUFFICES ASSUME NEW p \in A, p \in H PROVE FALSE
            OBVIOUS
          <5>2. HasOption(goods[p], kd, value)
            BY <2>4, <5>1 DEF Having
          <5>3. PICK o \in q.filter[kd] : HasOption(goods[p], kd, o)
            BY <1>1, <2>4, <2>10, WideningAdds
          <5>4. QED BY <1>1, <3>2, <3>9, <5>2, <5>3, OptionsExclude
        <4>2. Cardinality(A \cap H) = 0
          BY <4>1, FS_EmptySet
        <4>3. QED BY <3>1, <3>5, <3>8, <4>2
      <3>10. more = Cardinality(A) + Cardinality(H)
        BY <1>1, <2>3, <2>4, <3>4
      <3>11. total <= more
        BY <3>1, <3>5, <3>8, <3>10
      <3>12. total >= visit.total /\ total >= n
        BY <2>3, <2>4, <3>1, <3>4, <3>5, <3>6, <3>8
      <3>13. kd \notin Codes => total = more
        BY <3>9, <3>10
      <3>14. QED BY <2>1, <2>10, <3>11, <3>12, <3>13
    <2>11. QED BY <2>9, <2>10
  <1>2. SearchInv => CountsComeTrue
    BY <1>1 DEF CountsComeTrue
  <1>3. QED BY <1>2, SearchInvariant, PTL
==============================================================================
