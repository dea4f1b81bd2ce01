---------------------------- MODULE MCSharedStock ----------------------------
(***************************************************************************)
(* Orders that cannot all be served: the first two want three cakes of two,*)
(* the last two a pie each.  Each behaviour is one of three stories, which *)
(* leave out different actors; the sweep runs in all of them.              *)
(***************************************************************************)
EXTENDS OrderFulfilmentProperties, TLC

CONSTANTS cake, pie

MCOrders       == {1, 2, 3}
MCVariants     == {cake, pie}
MCQty          == <<cake :> 2 @@ pie :> 0, cake :> 1 @@ pie :> 1, cake :> 0 @@ pie :> 1>>
MCAvailable    == cake :> 2 @@ pie :> 2
MCBaseReserved == cake :> 1 @@ pie :> 0

\* Three cakes more, and 1C has not heard yet of what is reserved here.
MCBatches == {cake :> [available |-> 3, reserved |-> 0]}

VARIABLE story

ManagerActs == \E s \in Staff, o \in Orders : StaffStep(s, o)
Moves(o)    == OneCStep(o) \/ \E s \in Staff : StaffStep(s, o)

\* desk:  managers and 1C serve two orders, without proofs and imports;
\* proof: one order goes through payment and verification;
\* sweep: three orders, overdue together, and no manager.
LeftOut ==
    \/ story = "desk" /\ (BroughtIn \/ Moves(3) \/ \E o \in Orders : SubmitProof(o))
    \/ story = "proof" /\ \E o \in Orders \ {1} : Moves(o)
    \/ story = "sweep" /\ ManagerActs

StoriesInit == Init /\ story \in {"desk", "proof", "sweep"}
StoriesNext == Next /\ ~LeftOut /\ UNCHANGED story

storiesVars == <<story, vars>>

StoriesSpec == StoriesInit /\ [][StoriesNext]_storiesVars

\* No story leaves out a sweep, the only step that is fair.
FairStoriesSpec == StoriesSpec /\ FairSweeps
==============================================================================
