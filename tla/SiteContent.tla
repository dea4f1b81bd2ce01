----------------------------- MODULE SiteContent -----------------------------
(***************************************************************************)
(* What people edit on the site: the contents of products, promotions,     *)
(* banners and pages in the admin panel, organisations and notification    *)
(* preferences in the account.  Each is a row with a version; a browser    *)
(* page keeps the last answer of the API about it and saves edits under    *)
(* the version in that answer, while other pages do the same and scheduled *)
(* rows are switched off.                                                  *)
(*                                                                         *)
(* A transaction is one step; opening a list of promotions or banners is   *)
(* two, the switching off and the reading.  A request that is refused is   *)
(* no step.                                                                *)
(*                                                                         *)
(* Abstracted: rows do not depend on each other, so there is one, of any   *)
(* kind; what it says is one value, or three for a product, whose images   *)
(* and relations are saved apart; the commercial fields of a promotion and *)
(* the audit log are left out.  A page is a client of the API: what its    *)
(* fields show while an answer is on its way, and the drafts of images and *)
(* relations that it keeps over a save, are no part of it (see README,     *)
(* section 8).                                                             *)
(***************************************************************************)
EXTENDS Integers

CONSTANTS
    Pages,     \* browser pages
    Texts,     \* what a row may say
    MaxEdits,  \* bound: version of a row
    LastDay    \* bound: days

ASSUME ContentBoundsAssumption == MaxEdits \in Nat \ {0} /\ LastDay \in Nat
ASSUME TextsAssumption == Texts # {}

VARIABLES
    kind,   \* the table of the row
    row,    \* the row
    shown,  \* what each page shows of it
    today   \* the day

contentVars == <<kind, row, shown, today>>

-------------------------------------------------------------------------------
\* Tables whose rows have a schedule; all but synonyms count their versions.
Scheduled == {"promotion", "banner"}
RowKinds == Scheduled \cup {"product", "page", "organization", "preferences", "synonym"}

\* An absent row has version 0; a deleted one does not come back.  Day 0 of a
\* schedule: not set.  Pages are published or not, which active stands for, too.
SiteRow == [version : -1..MaxEdits, text : Texts, images : Texts, relations : Texts,
            active : BOOLEAN, starts : 0..LastDay, ends : 0..LastDay]
\* A page is blank, is opening its list, or has read the row.
View == [state : {"blank", "opening", "read"}, row : SiteRow]

ContentTypeOK ==
    /\ kind \in RowKinds
    /\ row \in SiteRow
    /\ shown \in [Pages -> View]
    /\ today \in 1..(LastDay + 1)

AnyText == CHOOSE t \in Texts : TRUE
Absent == [version |-> 0, text |-> AnyText, images |-> AnyText, relations |-> AnyText,
           active |-> FALSE, starts |-> 0, ends |-> 0]
Deleted == [Absent EXCEPT !.version = -1]
Blank == [state |-> "blank", row |-> Absent]
Opening == [state |-> "opening", row |-> Absent]
Showing(r) == [state |-> "read", row |-> r]

\* Products come from the import, with version 1.
ContentInit ==
    /\ kind \in RowKinds
    /\ row = IF kind = "product" THEN [Absent EXCEPT !.version = 1] ELSE Absent
    /\ shown = [p \in Pages |-> Blank]
    /\ today = 1

-------------------------------------------------------------------------------
Exists(r) == r.version > 0

\* The checks of the schedule, in the service and in the database.
ScheduleFits(r) == r.starts = 0 \/ r.ends = 0 \/ r.starts < r.ends

\* What a promotion or a banner may become; what a page may become.
Timed(t, on, from, to) ==
    [version |-> row.version + 1, text |-> t, images |-> AnyText, relations |-> AnyText,
     active |-> on, starts |-> from, ends |-> to]
Written(t, on) == Timed(t, on, 0, 0)

Slip_AnyVersion(p) == TRUE

\* The version that the page sends with its edit is the version of the row.
Current(p) == shown[p].row.version = row.version

HasRead(p) == shown[p].state = "read"

MayCreate(table) == kind = table /\ row = Absent
MaySave(table, p) == /\ kind = table /\ Exists(row) /\ row.version < MaxEdits
                     /\ HasRead(p) /\ Current(p)

Becomes(r) == row' = r /\ UNCHANGED <<kind, shown, today>>

\* The parts of a product are saved one by one, under one version.
UpdateProductContent(p, t) ==
    MaySave("product", p) /\ Becomes([row EXCEPT !.version = @ + 1, !.text = t])

ReplaceImages(p, t) ==
    MaySave("product", p) /\ Becomes([row EXCEPT !.version = @ + 1, !.images = t])

ReplaceRelations(p, t) ==
    MaySave("product", p) /\ Becomes([row EXCEPT !.version = @ + 1, !.relations = t])

CreatePromotion(r) == MayCreate("promotion") /\ ScheduleFits(r) /\ Becomes(r)
UpdatePromotion(p, r) == MaySave("promotion", p) /\ ScheduleFits(r) /\ Becomes(r)
CreateBanner(r) == MayCreate("banner") /\ ScheduleFits(r) /\ Becomes(r)
UpdateBanner(p, r) == MaySave("banner", p) /\ ScheduleFits(r) /\ Becomes(r)

CreatePage(r) == MayCreate("page") /\ Becomes(r)
UpdatePage(p, r) == MaySave("page", p) /\ Becomes(r)

\* Synonyms have no version: whoever saves last wins.
CreateSynonym(t) == MayCreate("synonym") /\ Becomes(Written(t, TRUE))
UpdateSynonym(p, t, on) ==
    /\ kind = "synonym" /\ Exists(row) /\ HasRead(p)
    /\ Becomes([row EXCEPT !.text = t, !.active = on])
DeleteSynonym(p) == kind = "synonym" /\ Exists(row) /\ HasRead(p) /\ Becomes(Deleted)

CreateOrganization(t) == MayCreate("organization") /\ Becomes(Written(t, FALSE))
UpdateOrganization(p, t) == MaySave("organization", p) /\ Becomes(Written(t, FALSE))
DeleteOrganization(p) == MaySave("organization", p) /\ Becomes(Deleted)

\* The first save creates the row, when the page showed that there is none.
UpdatePreferences(p, t) ==
    /\ kind = "preferences" /\ HasRead(p) /\ Current(p) /\ row.version < MaxEdits
    /\ Becomes(Written(t, FALSE))

\* Opening a product, the pages, the synonyms, organisations or preferences.
ReadRow(p) ==
    /\ kind \notin Scheduled
    /\ Exists(row) \/ kind = "preferences"
    /\ shown' = [shown EXCEPT ![p] = Showing(row)]
    /\ UNCHANGED <<kind, row, today>>

-------------------------------------------------------------------------------
Ended(r) == Exists(r) /\ r.active /\ r.ends # 0 /\ r.ends <= today

SwitchedOff(r) == [r EXCEPT !.active = FALSE, !.version = @ + 1]

\* expireScheduledContent, first thing when a list is opened.
OpenList(p) ==
    /\ kind \in Scheduled
    /\ row.version < MaxEdits
    /\ row' = IF Ended(row) THEN SwitchedOff(row) ELSE row
    /\ shown' = [shown EXCEPT ![p] = Opening]
    /\ UNCHANGED <<kind, today>>

ReadList(p) ==
    /\ shown[p].state = "opening"
    /\ shown' = [shown EXCEPT ![p] = IF Exists(row) THEN Showing(row) ELSE Blank]
    /\ UNCHANGED <<kind, row, today>>

Midnight ==
    /\ today <= LastDay
    /\ today' = today + 1
    /\ UNCHANGED <<kind, row, shown>>

\* What visitors get: banners and promotions in their time, pages that are published.
InSchedule(r) == r.starts <= today /\ (r.ends = 0 \/ r.ends > today)
Public(r) == Exists(r) /\ r.active /\ InSchedule(r)

-------------------------------------------------------------------------------
Cataloguing ==
    \E p \in Pages, t \in Texts :
       \/ UpdateProductContent(p, t) \/ ReplaceImages(p, t) \/ ReplaceRelations(p, t)
       \/ CreateSynonym(t) \/ DeleteSynonym(p)
       \/ \E on \in BOOLEAN : UpdateSynonym(p, t, on)

Promoting ==
    \E p \in Pages, t \in Texts, on \in BOOLEAN, from, to \in 0..LastDay :
        LET r == Timed(t, on, from, to)
        IN CreatePromotion(r) \/ UpdatePromotion(p, r)

Publishing ==
    \E p \in Pages, t \in Texts, on \in BOOLEAN :
       \/ CreatePage(Written(t, on)) \/ UpdatePage(p, Written(t, on))
       \/ \E from, to \in 0..LastDay :
             LET r == Timed(t, on, from, to)
             IN CreateBanner(r) \/ UpdateBanner(p, r)

InTheAccount ==
    \E p \in Pages, t \in Texts :
       \/ CreateOrganization(t) \/ UpdateOrganization(p, t) \/ DeleteOrganization(p)
       \/ UpdatePreferences(p, t)

ContentNext ==
    \/ Cataloguing \/ Promoting \/ Publishing \/ InTheAccount
    \/ \E p \in Pages : ReadRow(p) \/ OpenList(p) \/ ReadList(p)
    \/ Midnight

ContentSpec == ContentInit /\ [][ContentNext]_contentVars
==============================================================================
