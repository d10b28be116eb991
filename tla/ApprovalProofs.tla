--------------------------- MODULE ApprovalProofs ---------------------------
(***************************************************************************)
(* Theorems about what people approve and what they may rely on, for any   *)
(* number of skills, revisions, proposals, packages, sessions and tasks of *)
(* a page: the promotion of skills (Skills), the changes of the            *)
(* autobiography (Autobiography), the packages that run or are served      *)
(* (Plugins, UiPackages), sessions that have ended (Sessions) and the chat *)
(* page (WebChat).                                                         *)
(*                                                                         *)
(* SkillsInv adds to AutomaticNeverWorse that a skill with a chosen        *)
(* revision keeps an active one, so that the automatic policy always has   *)
(* something to compare with, and CanAutoPromoteOver is transitive, so     *)
(* that a chain of automatic promotions is never worse than its start.     *)
(* AutobiographyInv places every proposal in the history of the book.      *)
(* PluginInv and UiInv follow a digest from what was shown to what runs;   *)
(* SessionInv says in which four ways a session has ended.                 *)
(*                                                                         *)
(* ChatInv: no task is younger than the page, and what it was answered is  *)
(* about its own conversation (ChatTaskFits); what the page shows is of    *)
(* the selected conversation (ShowsSelection); for each thing that a page  *)
(* waits for exactly one task is current, and the task that follows a run  *)
(* has brought the text up to its cursor (WaitsForTasks); what the tab has *)
(* stored is what a reload needs (StoredFits).  A click that starts        *)
(* something new moves the generation on, so that no task that is on its   *)
(* way stays current (NoneNow).                                            *)
(***************************************************************************)
EXTENDS Skills, Autobiography, Plugins, UiPackages, Sessions, WebChat,
        SequenceTheorems, FiniteSetTheorems, WellFoundedInduction, TLAPS

(***************************************************************************)
(* Skills                                                                  *)
(***************************************************************************)
RevisionRows == [evaluation : Evaluations \cup {NotEvaluated}, promoted : BOOLEAN]

SkillRows ==
    /\ skill \in [SkillIds -> [policy : Policies \cup {"none"}, active_revision : Nat]]
    /\ revisions \in [SkillIds -> Seq(RevisionRows)]
    /\ chosen \in [SkillIds -> Nat]

\* The promoted revision of one skill, against the one chosen by hand.
NeverWorse(act, choice, rs) ==
    /\ {r \in DOMAIN rs : rs[r].promoted} = {act} \ {0}
    /\ act # choice /\ choice # 0 =>
          /\ rs[act].evaluation.given /\ rs[choice].evaluation.given
          /\ CanAutoPromoteOver(rs[act].evaluation, rs[choice].evaluation)

\* What is needed beside it: both are revisions, and what was chosen is never
\* followed by no revision at all.
Placed(act, choice, rs) ==
    /\ act \in {0} \cup DOMAIN rs /\ choice \in {0} \cup DOMAIN rs
    /\ choice # 0 => act # 0

SkillsInv ==
    /\ SkillRows
    /\ \A k \in SkillIds :
          /\ Placed(skill[k].active_revision, chosen[k], revisions[k])
          /\ NeverWorse(skill[k].active_revision, chosen[k], revisions[k])

LEMMA EvaluationNumbers ==
  ASSUME NEW e \in Evaluations \cup {NotEvaluated}
  PROVE  /\ e.checks \in BOOLEAN
         /\ e.attempts \in Nat /\ e.successful \in Nat
         /\ e.errors \in Nat /\ e.user_corrections \in Nat
<1>1. CASE e = NotEvaluated BY <1>1 DEF NotEvaluated
<1>2. CASE e \in Evaluations BY SkillsAssumption, <1>2 DEF Evaluations
<1> QED BY <1>1, <1>2

LEMMA ProductOfPositives == \A m, n \in Nat \ {0} : m * n \in Nat \ {0}
  OBVIOUS

\* Comparing fractions crosswise is transitive where the middle one has a
\* denominator.
LEMMA CrossMultiply ==
  ASSUME NEW a \in Nat, NEW b \in Nat \ {0}, NEW c \in Nat, NEW d \in Nat \ {0},
         NEW x \in Nat, NEW y \in Nat \ {0},
         a * d >= c * b, c * y >= x * d
  PROVE  a * y >= x * b
<1>1. (a * y) * d >= (x * b) * d OBVIOUS
<1> QED BY <1>1

LEMMA RateTransitive ==
  ASSUME NEW e \in Evaluations \cup {NotEvaluated}, NEW f \in Evaluations \cup {NotEvaluated},
         NEW g \in Evaluations \cup {NotEvaluated},
         CanAutoPromoteOver(e, f), CanAutoPromoteOver(f, g)
  PROVE  CanAutoPromoteOver(e, g)
<1>1. /\ e.attempts \in Nat \ {0} /\ f.attempts \in Nat \ {0} /\ g.attempts \in Nat
      /\ e.successful \in Nat /\ f.successful \in Nat /\ g.successful \in Nat
      /\ \A h \in {e, f, g} : h.errors \in Nat /\ h.user_corrections \in Nat
  BY EvaluationNumbers DEF CanAutoPromoteOver
<1>2. RateAtLeast(e, g)
  <2>1. CASE g.attempts = 0 \/ g.successful = 0 BY <2>1 DEF RateAtLeast
  <2>2. CASE g.attempts # 0 /\ g.successful # 0
    <3>1. f.successful * g.attempts >= g.successful * f.attempts BY <2>2 DEF CanAutoPromoteOver, RateAtLeast
    <3>2. f.successful # 0
      <4>1. f.successful = 0 => f.successful * g.attempts = 0 BY <1>1
      <4> QED BY <3>1, <4>1, <1>1, <2>2, ProductOfPositives
    <3>3. e.successful * g.attempts >= g.successful * e.attempts
      <4> HIDE DEF CanAutoPromoteOver
      <4> QED BY <1>1, <2>2, <3>1, CrossMultiply, <3>2 DEF CanAutoPromoteOver, RateAtLeast
    <3> QED BY <1>1, <3>3 DEF RateAtLeast
  <2> QED BY <2>1, <2>2
<1> QED BY <1>1, <1>2 DEF CanAutoPromoteOver

LEMMA SkillsInitInv == SkillsInit => SkillsInv
<1> SUFFICES ASSUME SkillsInit PROVE SkillsInv OBVIOUS
<1>1. \A k \in SkillIds : skill[k].active_revision = 0 /\ chosen[k] = 0 /\ revisions[k] = <<>> BY DEF SkillsInit
<1> QED BY <1>1, EmptySeq DEF SkillsInv, Placed, NeverWorse, SkillsInit, SkillRows, Policies

\* One skill changes.
LEMMA OneSkill ==
  ASSUME SkillsInv, NEW k \in SkillIds,
         NEW act \in Nat, NEW choice \in Nat, NEW rs \in Seq(RevisionRows),
         NEW rule \in Policies \cup {"none"},
         skill' = [skill EXCEPT ![k] = [policy |-> rule, active_revision |-> act]],
         chosen' = [chosen EXCEPT ![k] = choice],
         revisions' = [revisions EXCEPT ![k] = rs],
         Placed(act, choice, rs), NeverWorse(act, choice, rs)
  PROVE  SkillsInv'
<1>1. /\ skill'[k].active_revision = act /\ chosen'[k] = choice /\ revisions'[k] = rs
      /\ \A j \in SkillIds \ {k} :
           /\ skill'[j] = skill[j] /\ chosen'[j] = chosen[j] /\ revisions'[j] = revisions[j]
  BY DEF SkillsInv, SkillRows
<1>2. ASSUME NEW j \in SkillIds
      PROVE  /\ Placed(skill'[j].active_revision, chosen'[j], revisions'[j])
             /\ NeverWorse(skill'[j].active_revision, chosen'[j], revisions'[j])
  <2>1. CASE j = k BY <1>1, <2>1
  <2>2. CASE j # k BY <1>1, <2>2 DEF SkillsInv
  <2> QED BY <2>1, <2>2
<1> QED BY <1>2 DEF SkillsInv, SkillRows

LEMMA SkillAsIs ==
  ASSUME SkillsInv, NEW k \in SkillIds
  PROVE  /\ skill[k] = [policy |-> skill[k].policy, active_revision |-> skill[k].active_revision]
         /\ skill[k].policy \in Policies \cup {"none"} /\ skill[k].active_revision \in Nat
         /\ chosen[k] \in Nat /\ revisions[k] \in Seq(RevisionRows)
         /\ DOMAIN revisions[k] = 1 .. Len(revisions[k]) /\ Len(revisions[k]) \in Nat
         /\ \A r \in DOMAIN revisions[k] : revisions[k][r] \in RevisionRows
         /\ skill = [skill EXCEPT ![k] = skill[k]] /\ chosen = [chosen EXCEPT ![k] = chosen[k]]
  BY DEF SkillsInv, SkillRows

\* A new revision is neither active nor chosen.
LEMMA InsertedRevision ==
  ASSUME SkillsInv, NEW k \in SkillIds, NEW rule \in Policies \cup {"none"},
         skill' = [skill EXCEPT ![k] = [policy |-> rule,
                                        active_revision |-> skill[k].active_revision]],
         InsertRevision(k), UNCHANGED chosen
  PROVE  SkillsInv'
<1> DEFINE rs == Append(revisions[k], NewRevision)
<1> HIDE DEF rs
<1>1. /\ rs \in Seq(RevisionRows) /\ Len(rs) = Len(revisions[k]) + 1 /\ DOMAIN rs = 1 .. Len(rs)
      /\ \A r \in 1 .. Len(revisions[k]) : rs[r] = revisions[k][r]
      /\ rs[Len(revisions[k]) + 1] = NewRevision
  <2>1. revisions[k] \in Seq(RevisionRows) /\ Len(revisions[k]) \in Nat BY SkillAsIs
  <2>2. /\ rs \in Seq(RevisionRows) /\ Len(rs) = Len(revisions[k]) + 1
        /\ \A r \in 1 .. Len(revisions[k]) : rs[r] = revisions[k][r]
        /\ rs[Len(revisions[k]) + 1] = NewRevision BY <2>1, AppendProperties DEF rs, NewRevision, RevisionRows
  <2> QED BY <2>2
<1>2. /\ Placed(skill[k].active_revision, chosen[k], revisions[k])
      /\ NeverWorse(skill[k].active_revision, chosen[k], revisions[k]) BY DEF SkillsInv
<1>3. Placed(skill[k].active_revision, chosen[k], rs) BY <1>1, <1>2, SkillAsIs DEF Placed
<1>4. {r \in DOMAIN rs : rs[r].promoted} = {r \in DOMAIN revisions[k] : revisions[k][r].promoted}
  <2>1. \A r \in 1 .. Len(revisions[k]) : r \in DOMAIN rs /\ r \in DOMAIN revisions[k] BY <1>1, SkillAsIs
  <2>2. DOMAIN revisions[k] = 1 .. Len(revisions[k]) BY SkillAsIs
  <2> QED BY <1>1, <2>1, <2>2, SkillAsIs DEF NewRevision
<1>5. NeverWorse(skill[k].active_revision, chosen[k], rs)
  <2>1. ASSUME skill[k].active_revision # chosen[k], chosen[k] # 0
        PROVE  /\ rs[skill[k].active_revision] = revisions[k][skill[k].active_revision]
               /\ rs[chosen[k]] = revisions[k][chosen[k]] BY <1>1, <1>2, <2>1, SkillAsIs DEF Placed
  <2> QED BY <1>2, <1>4, <2>1 DEF NeverWorse
<1> QED BY <1>1, <1>3, <1>5, SkillAsIs, OneSkill DEF InsertRevision, rs

LEMMA CreateSkillStep ==
  ASSUME SkillsInv, NEW k \in SkillIds, NEW p \in Policies, CreateSkill(k, "EDITOR", p)
  PROVE  SkillsInv'
<1>1. skill' = [skill EXCEPT ![k] = [policy |-> p, active_revision |-> skill[k].active_revision]]
  <2>1. skill[k] = [policy |-> skill[k].policy, active_revision |-> skill[k].active_revision] BY SkillAsIs
  <2>2. [skill[k] EXCEPT !.policy = p] = [policy |-> p, active_revision |-> skill[k].active_revision] BY <2>1
  <2> QED BY <2>2 DEF CreateSkill
<1> QED BY <1>1, InsertedRevision DEF CreateSkill

LEMMA CreateRevisionStep ==
  ASSUME SkillsInv, NEW k \in SkillIds, CreateRevision(k, "EDITOR")
  PROVE  SkillsInv'
  BY SkillAsIs, InsertedRevision DEF CreateRevision

\* promote_locked leaves one revision promoted and changes no evaluation.
LEMMA PromotedAlone ==
  ASSUME NEW rs \in Seq(RevisionRows), NEW n \in DOMAIN rs
  PROVE  /\ PromoteLocked(rs, n) \in Seq(RevisionRows)
         /\ DOMAIN PromoteLocked(rs, n) = DOMAIN rs
         /\ \A r \in DOMAIN rs : PromoteLocked(rs, n)[r].evaluation = rs[r].evaluation
         /\ {r \in DOMAIN rs : PromoteLocked(rs, n)[r].promoted} = {n}
<1>1. DOMAIN rs = 1 .. Len(rs) /\ Len(rs) \in Nat /\ \A r \in DOMAIN rs : rs[r] \in RevisionRows OBVIOUS
<1>2. ASSUME NEW r \in DOMAIN rs
      PROVE  /\ PromoteLocked(rs, n)[r] \in RevisionRows
             /\ PromoteLocked(rs, n)[r].evaluation = rs[r].evaluation
             /\ PromoteLocked(rs, n)[r].promoted = (r = n)
  <2>1. (r = n) \in BOOLEAN OBVIOUS
  <2> QED BY <2>1, <1>1 DEF RevisionRows, PromoteLocked
<1>3. PromoteLocked(rs, n) \in Seq(RevisionRows) /\ DOMAIN PromoteLocked(rs, n) = DOMAIN rs
  BY <1>1, <1>2 DEF PromoteLocked
<1> QED BY <1>2, <1>3

LEMMA PromoteStep ==
  ASSUME SkillsInv, NEW k \in SkillIds, NEW n \in 1 .. MaxRevisions,
         PromoteRevision(k, "ADMIN", n)
  PROVE  SkillsInv'
<1> DEFINE rs == PromoteLocked(revisions[k], n)
<1> HIDE DEF rs
<1>1. n \in DOMAIN revisions[k] /\ n \in Nat \ {0} BY SkillsAssumption DEF PromoteRevision
<1>2. /\ rs \in Seq(RevisionRows) /\ n \in DOMAIN rs
      /\ {r \in DOMAIN rs : rs[r].promoted} = {n} BY <1>1, SkillAsIs, PromotedAlone DEF rs
<1>3. Placed(n, n, rs) /\ NeverWorse(n, n, rs) BY <1>1, <1>2 DEF Placed, NeverWorse
<1>4. skill' = [skill EXCEPT ![k] = [policy |-> skill[k].policy, active_revision |-> n]]
  <2>1. skill[k] = [policy |-> skill[k].policy, active_revision |-> skill[k].active_revision] BY SkillAsIs
  <2>2. [skill[k] EXCEPT !.active_revision = n] = [policy |-> skill[k].policy, active_revision |-> n] BY <2>1
  <2> QED BY <2>2 DEF PromoteRevision
<1> QED BY <1>1, <1>2, <1>3, <1>4, SkillAsIs, OneSkill DEF PromoteRevision, rs

LEMMA EvaluateStep ==
  ASSUME SkillsInv, NEW k \in SkillIds, NEW n \in 1 .. MaxRevisions, NEW e \in Evaluations,
         EvaluateRevision(k, "EDITOR", n, e)
  PROVE  SkillsInv'
<1> DEFINE old == revisions[k]
           act == skill[k].active_revision
           choice == chosen[k]
           rs == [old EXCEPT ![n].evaluation = e]
<1>1. n \in DOMAIN old /\ n \in Nat \ {0} /\ ~old[n].evaluation.given /\ e.given
  <2>1. n \in Nat \ {0} BY SkillsAssumption
  <2> QED BY <2>1 DEF EvaluateRevision, Evaluations
<1>2. /\ old \in Seq(RevisionRows) /\ DOMAIN old = 1 .. Len(old) /\ Len(old) \in Nat
      /\ act \in Nat /\ choice \in Nat
      /\ \A r \in DOMAIN old : old[r] \in RevisionRows BY SkillAsIs
<1>3. Placed(act, choice, old) /\ NeverWorse(act, choice, old) BY DEF SkillsInv
<1>4. /\ rs \in Seq(RevisionRows) /\ DOMAIN rs = DOMAIN old
      /\ rs[n].evaluation = e
      /\ \A r \in DOMAIN old : rs[r].promoted = old[r].promoted
      /\ \A r \in DOMAIN old \ {n} : rs[r].evaluation = old[r].evaluation
  <2> DEFINE one == [old[n] EXCEPT !.evaluation = e]
  <2>1. one \in RevisionRows /\ one.evaluation = e /\ one.promoted = old[n].promoted BY <1>1, <1>2 DEF RevisionRows
  <2>2. rs = [old EXCEPT ![n] = one] OBVIOUS
  <2> HIDE DEF one
  <2> QED BY <2>1, <1>1, <2>2, <1>2
\* While both have evidence, the revision without is neither of them.
<1>5. act # choice /\ choice # 0 => n # act /\ n # choice BY <1>1, <1>3 DEF NeverWorse
<1>6. Placed(act, choice, rs) /\ NeverWorse(act, choice, rs) BY <1>3, <1>4, <1>5 DEF Placed, NeverWorse
<1>7. skill[k] = [policy |-> skill[k].policy, active_revision |-> act]
      /\ skill[k].policy \in Policies \cup {"none"}
      /\ chosen' = [chosen EXCEPT ![k] = choice] BY SkillAsIs DEF EvaluateRevision
<1> HIDE DEF rs
<1>8. CASE ~Automatic(k, n, e)
  <2>1. revisions' = [revisions EXCEPT ![k] = rs] /\ skill' = [skill EXCEPT ![k] = skill[k]]
    BY <1>8, SkillAsIs DEF EvaluateRevision, rs
  <2> QED BY <1>2, <1>4, <1>6, <1>7, <2>1, OneSkill
<1>9. CASE Automatic(k, n, e)
  <2> DEFINE new == PromoteLocked(rs, n)
  <2>1. /\ revisions' = [revisions EXCEPT ![k] = new]
        /\ skill' = [skill EXCEPT ![k] = [policy |-> skill[k].policy, active_revision |-> n]]
    BY <1>9, <1>7 DEF EvaluateRevision, rs
  <2>2. /\ new \in Seq(RevisionRows) /\ DOMAIN new = DOMAIN old
        /\ {r \in DOMAIN new : new[r].promoted} = {n}
        /\ new[n].evaluation = e
        /\ \A r \in DOMAIN old \ {n} : new[r].evaluation = old[r].evaluation BY <1>1, <1>4, PromotedAlone
  <2> HIDE DEF new
  <2>3. ASSUME n # choice, choice # 0
        PROVE  /\ new[n].evaluation.given /\ new[choice].evaluation.given
               /\ CanAutoPromoteOver(new[n].evaluation, new[choice].evaluation)
    <3>1. act \in DOMAIN old \ {n} /\ choice \in DOMAIN old \ {n} /\ old[act].promoted
      <4>1. act # 0 BY <1>3, <2>3 DEF Placed
      <4>2. act \in {r \in DOMAIN old : old[r].promoted} BY <1>3, <4>1 DEF NeverWorse
      <4> QED BY <2>3, <4>2, <1>3, <4>1, <1>5 DEF Placed
    <3>2. old[act].evaluation.given /\ CanAutoPromoteOver(e, old[act].evaluation)
      BY <1>9, <3>1 DEF Automatic, Previous
    <3>3. CASE act = choice BY <1>1, <2>2, <3>1, <3>2, <3>3
    <3>4. CASE act # choice
      <4>1. old[choice].evaluation.given
            /\ CanAutoPromoteOver(old[act].evaluation, old[choice].evaluation) BY <1>3, <2>3, <3>4 DEF NeverWorse
      <4>2. CanAutoPromoteOver(e, old[choice].evaluation) BY <3>2, <4>1, RateTransitive, <1>2, <3>1 DEF RevisionRows
      <4> QED BY <1>1, <2>2, <3>1, <4>1, <4>2
    <3> QED BY <3>3, <3>4
  <2>4. NeverWorse(n, choice, new) BY <1>1, <2>2, <2>3 DEF NeverWorse
  <2> QED BY <1>1, <1>2, <1>7, <2>1, <2>2, <2>4, OneSkill, <1>3 DEF Placed
<1> QED BY <1>8, <1>9

LEMMA SkillsAlways == SkillsSpec => [](AutomaticNeverWorse /\ SkillsTypeOK)
<1>1. SkillsInv /\ [SkillsNext]_svars => SkillsInv'
  <2> SUFFICES ASSUME SkillsInv, [SkillsNext]_svars PROVE SkillsInv' OBVIOUS
  <2>1. CASE UNCHANGED svars BY <2>1 DEF svars, SkillsInv, SkillRows
  <2>2. CASE SkillsNext
    BY <2>2, CreateSkillStep, CreateRevisionStep, PromoteStep, EvaluateStep DEF SkillsNext, RollbackSkill
  <2> QED BY <2>1, <2>2
<1>2. SkillsInv => AutomaticNeverWorse BY DEF SkillsInv, AutomaticNeverWorse, NeverWorse
<1>3. SkillsInv => SkillsTypeOK
  <2> SUFFICES ASSUME SkillsInv, NEW k \in SkillIds
               PROVE  /\ skill[k].policy \in Policies \cup {"none"}
                      /\ skill[k].active_revision \in 0 .. Len(revisions[k])
                      /\ \A r \in DOMAIN revisions[k] :
                            revisions[k][r].evaluation \in Evaluations \cup {NotEvaluated} BY DEF SkillsTypeOK
  <2>1. /\ skill[k] \in [policy : Policies \cup {"none"}, active_revision : Nat]
        /\ revisions[k] \in Seq(RevisionRows) BY DEF SkillsInv, SkillRows
  <2>2. \A r \in DOMAIN revisions[k] : revisions[k][r] \in RevisionRows BY <2>1
  <2> QED BY <2>1, <2>2 DEF RevisionRows, SkillsInv, Placed
<1> QED BY <1>1, <1>2, <1>3, SkillsInitInv, PTL DEF SkillsSpec

(***************************************************************************)
(* Autobiography                                                           *)
(***************************************************************************)
BookBodies == {body \in Seq(Facts) : ValidBody(body)}
ProposalRows == [base : Nat, before : BookBodies, after : BookBodies,
                 status : {"pending", "accepted", "rejected"}]
UpdaterRows == [pc : {"policy", "book", "model", "write", "done"}, read : BookBodies, merged : BookBodies]

AutobiographyRows ==
    /\ autoPolicy \in AutoPolicies
    /\ autoBook \in [body : BookBodies, revision : 1 .. MaxBookRevisions]
    /\ bookHistory \in Seq(BookBodies)
    /\ proposal \in Seq(ProposalRows)
    /\ updater \in [AutoRuns -> UpdaterRows]

\* A proposal, against the history of the book: it was made of a revision, and
\* what was accepted is the next one.
InPlace(p, hist) ==
    /\ p.base \in DOMAIN hist /\ hist[p.base] = p.before
    /\ p.status = "accepted" => p.base + 1 \in DOMAIN hist /\ hist[p.base + 1] = p.after

AutobiographyInv ==
    /\ AutobiographyRows
    /\ Len(bookHistory) = autoBook.revision /\ bookHistory[autoBook.revision] = autoBook.body
    /\ \A n \in DOMAIN proposal : InPlace(proposal[n], bookHistory)

LEMMA NoText == <<>> \in BookBodies
  BY EmptySeq, AutobiographyAssumption DEF BookBodies, ValidBody

\* What validate_body_and_reason lets through.
LEMMA TextsAreBodies == ASSUME NEW text \in Texts, ValidBody(text) PROVE text \in BookBodies
<1>1. CASE text = <<>> BY <1>1, NoText
<1>2. ASSUME NEW f \in Facts, text = <<f>> PROVE text \in Seq(Facts) BY <1>2
<1>3. ASSUME NEW f \in Facts, NEW g \in Facts, text = <<f, g>> PROVE text \in Seq(Facts) BY <1>3
<1> QED BY <1>1, <1>2, <1>3 DEF Texts, BookBodies

LEMMA AutobiographyInitInv == AutobiographyInit => AutobiographyInv
<1> SUFFICES ASSUME AutobiographyInit PROVE AutobiographyInv OBVIOUS
<1>1. <<>> \in BookBodies /\ DOMAIN (<<>>) = {} /\ <<>> \in Seq(ProposalRows) BY NoText, EmptySeq
<1>2. << <<>> >> \in Seq(BookBodies) /\ Len(<< <<>> >>) = 1 /\ << <<>> >>[1] = <<>> BY <1>1
<1> QED
  BY <1>1, <1>2, AutobiographyAssumption DEF AutobiographyInv, AutobiographyInit, AutobiographyRows, AutoPolicies,
    UpdaterRows

\* The book as it is, at the end of its history
LEMMA BookNow ==
  ASSUME AutobiographyInv
  PROVE  /\ autoBook.body \in BookBodies /\ autoBook.revision \in Nat \ {0}
         /\ bookHistory \in Seq(BookBodies) /\ DOMAIN bookHistory = 1 .. autoBook.revision
         /\ bookHistory[autoBook.revision] = autoBook.body
         /\ proposal \in Seq(ProposalRows) /\ DOMAIN proposal = 1 .. Len(proposal)
         /\ Len(proposal) \in Nat
         /\ \A n \in DOMAIN proposal : proposal[n] \in ProposalRows
         /\ \A n \in DOMAIN proposal : InPlace(proposal[n], bookHistory)
  BY AutobiographyAssumption DEF AutobiographyInv, AutobiographyRows

\* The next revision ends the history, and what was there stays.
LEMMA NextRevision ==
  ASSUME AutobiographyInv, NEW text \in BookBodies, ReplaceBookBody(text)
  PROVE  /\ autoBook' \in [body : BookBodies, revision : 1 .. MaxBookRevisions]
         /\ bookHistory' \in Seq(BookBodies)
         /\ Len(bookHistory') = autoBook'.revision
         /\ bookHistory'[autoBook'.revision] = autoBook'.body
         /\ autoBook'.revision = autoBook.revision + 1
         /\ bookHistory'[autoBook.revision + 1] = text
         /\ DOMAIN bookHistory' = 1 .. autoBook.revision + 1
         /\ \A n \in DOMAIN proposal : InPlace(proposal[n], bookHistory')
<1>1. /\ bookHistory \in Seq(BookBodies) /\ Len(bookHistory) = autoBook.revision
      /\ autoBook.revision \in Nat \ {0} BY BookNow DEF AutobiographyInv
<1>2. bookHistory' = Append(bookHistory, text)
      /\ autoBook' = [body |-> text, revision |-> autoBook.revision + 1]
      /\ autoBook.revision + 1 \in 1 .. MaxBookRevisions BY <1>1, AutobiographyAssumption DEF ReplaceBookBody
<1>3. /\ bookHistory' \in Seq(BookBodies) /\ Len(bookHistory') = autoBook.revision + 1
      /\ \A i \in 1 .. autoBook.revision : bookHistory'[i] = bookHistory[i]
      /\ bookHistory'[autoBook.revision + 1] = text BY <1>1, <1>2, AppendProperties
<1>4. DOMAIN bookHistory' = 1 .. autoBook.revision + 1 /\ DOMAIN bookHistory = 1 .. autoBook.revision BY <1>1, <1>3
<1>5. \A n \in DOMAIN proposal : InPlace(proposal[n], bookHistory')
  <2> SUFFICES ASSUME NEW n \in DOMAIN proposal PROVE InPlace(proposal[n], bookHistory') OBVIOUS
  <2> QED BY <1>1, <1>3, <1>4 DEF InPlace, AutobiographyInv
<1> QED BY <1>1, <1>2, <1>3, <1>4, <1>5

LEMMA CreateProposalStep ==
  ASSUME AutobiographyInv, NEW after \in Texts, CreateProposal(after)
  PROVE  AutobiographyInv'
<1> DEFINE p == [base |-> autoBook.revision, before |-> autoBook.body, after |-> after,
                 status |-> IF autoPolicy = "automatic" THEN "accepted" ELSE "pending"]
<1>1. after \in BookBodies BY TextsAreBodies DEF CreateProposal
<1>2. /\ p \in ProposalRows /\ p.base = autoBook.revision /\ p.before = autoBook.body
      /\ p.after = after /\ (p.status = "accepted" <=> autoPolicy = "automatic") BY <1>1, BookNow DEF ProposalRows
<1>3. proposal' = Append(proposal, p) /\ UNCHANGED <<autoPolicy, updater>> BY DEF CreateProposal
<1> HIDE DEF p
<1>4. /\ proposal' \in Seq(ProposalRows) /\ DOMAIN proposal' = 1 .. Len(proposal) + 1
      /\ \A n \in DOMAIN proposal : proposal'[n] = proposal[n]
      /\ proposal'[Len(proposal) + 1] = p BY <1>2, <1>3, BookNow, AppendProperties
<1>5. \A n \in DOMAIN proposal' : n \in DOMAIN proposal \/ n = Len(proposal) + 1 BY <1>4, BookNow
<1>6. CASE autoPolicy = "automatic"
  <2>1. ReplaceBookBody(after) BY <1>6 DEF CreateProposal
  <2>2. InPlace(p, bookHistory')
    <3>1. autoBook.revision \in Nat \ {0} /\ bookHistory'[autoBook.revision] = autoBook.body
      BY <1>1, BookNow, AppendProperties, <2>1 DEF ReplaceBookBody, AutobiographyInv
    <3> QED BY <1>1, <1>2, <2>1, <3>1, NextRevision DEF InPlace
  <2> QED BY <1>1, <1>3, <1>4, <2>1, NextRevision, <1>5, <2>2 DEF AutobiographyInv, AutobiographyRows
<1>7. CASE autoPolicy # "automatic"
  <2>1. UNCHANGED <<autoBook, bookHistory>> BY <1>7 DEF CreateProposal
  <2> QED BY <1>3, <1>4, <2>1, <1>5, BookNow, <1>2, <1>7 DEF AutobiographyInv, AutobiographyRows, InPlace
<1> QED BY <1>6, <1>7

\* A review does not change what was proposed.
LEMMA ReviewStep ==
  ASSUME AutobiographyInv, NEW n \in 1 .. MaxProposals, NEW accept \in BOOLEAN,
         ReviewProposal(n, accept)
  PROVE  AutobiographyInv'
<1> DEFINE p == [proposal[n] EXCEPT !.status = IF accept THEN "accepted" ELSE "rejected"]
<1>1. n \in DOMAIN proposal /\ proposal[n] \in ProposalRows /\ proposal[n].status = "pending"
  BY BookNow DEF ReviewProposal
<1>2. /\ p \in ProposalRows /\ p.base = proposal[n].base /\ p.before = proposal[n].before
      /\ p.after = proposal[n].after /\ (p.status = "accepted" <=> accept) BY <1>1 DEF ProposalRows
<1>3. proposal' = [proposal EXCEPT ![n] = p] /\ UNCHANGED <<autoPolicy, updater>> BY DEF ReviewProposal
<1> HIDE DEF p
<1>4. /\ proposal' \in Seq(ProposalRows) /\ DOMAIN proposal' = DOMAIN proposal
      /\ proposal'[n] = p /\ \A i \in DOMAIN proposal \ {n} : proposal'[i] = proposal[i] BY <1>1, <1>2, <1>3, BookNow
<1>5. CASE accept
  <2>1. ReplaceBookBody(proposal[n].after) /\ autoBook.revision = proposal[n].base BY <1>5 DEF ReviewProposal, Current
  <2>2. proposal[n].after \in BookBodies BY <1>1 DEF ProposalRows
  <2>3. InPlace(p, bookHistory')
    <3>1. p.base + 1 \in DOMAIN bookHistory' /\ bookHistory'[p.base + 1] = p.after
      BY <1>2, <2>1, <2>2, BookNow, NextRevision
    <3> QED BY <1>2, <3>1, <1>1, <2>1, <2>2, NextRevision DEF InPlace
  <2> QED BY <1>3, <1>4, <2>1, <2>2, NextRevision, <2>3 DEF AutobiographyInv, AutobiographyRows
<1>6. CASE ~accept
  <2>1. UNCHANGED <<autoBook, bookHistory>> BY <1>6 DEF ReviewProposal
  <2> QED BY <1>3, <1>4, <2>1, BookNow, <1>1, <1>2, <1>6 DEF AutobiographyInv, AutobiographyRows, InPlace
<1> QED BY <1>5, <1>6

\* The other writers replace the text as it is now, whatever they had read.
LEMMA ReplaceStep ==
  ASSUME AutobiographyInv, NEW text \in BookBodies, ReplaceBookBody(text),
         UNCHANGED <<autoPolicy, proposal>>, updater' \in [AutoRuns -> UpdaterRows]
  PROVE  AutobiographyInv'
  BY NextRevision DEF AutobiographyInv, AutobiographyRows

LEMMA UpdaterStep ==
  ASSUME AutobiographyInv, UNCHANGED autoRows, updater' \in [AutoRuns -> UpdaterRows]
  PROVE  AutobiographyInv'
  BY DEF AutobiographyInv, AutobiographyRows, autoRows

LEMMA UpdaterMoves ==
  ASSUME AutobiographyInv, NEW r \in AutoRuns, NEW u \in UpdaterRows,
         updater' = [updater EXCEPT ![r] = u]
  PROVE  updater' \in [AutoRuns -> UpdaterRows]
  BY DEF AutobiographyInv, AutobiographyRows

LEMMA MergedIsBody ==
  ASSUME NEW text \in BookBodies, NEW f \in Facts
  PROVE  MergeBody(text, f) \in BookBodies
<1>1. text \in Seq(Facts) /\ Len(text) \in Nat /\ MaxParagraphs \in Nat \ {0}
  BY AutobiographyAssumption DEF BookBodies
<1>2. CASE Len(text) + 1 <= MaxParagraphs BY <1>1, <1>2, AppendProperties DEF MergeBody, BookBodies, ValidBody
<1>3. CASE ~(Len(text) + 1 <= MaxParagraphs)
  <2>1. PICK start : start = SubSeq(text, 1, MaxParagraphs - 1) OBVIOUS
  <2>2. start \in Seq(Facts) /\ Len(start) = MaxParagraphs - 1 BY <1>1, <2>1, SubSeqProperties, <1>3
  <2> QED BY <1>1, <1>3, <2>1, <2>2, AppendProperties DEF MergeBody, BookBodies, ValidBody
<1> QED BY <1>2, <1>3

LEMMA UpdaterActs ==
  ASSUME AutobiographyInv, NEW r \in AutoRuns,
         \/ CheckPolicy(r) \/ ReadBook(r) \/ WriteUpdate(r) \/ UpdateLost(r)
         \/ \E facts \in {{}} \cup {{f} : f \in Facts} : Summarize(r, facts)
  PROVE  AutobiographyInv'
<1>1. Finished \in UpdaterRows /\ updater[r] \in UpdaterRows
  BY NoText DEF Finished, UpdaterRows, AutobiographyInv, AutobiographyRows
<1>2. CASE CheckPolicy(r) BY <1>1, <1>2, UpdaterMoves, UpdaterStep DEF CheckPolicy, UpdaterAt, UpdaterRows
<1>3. CASE ReadBook(r) BY <1>3, UpdaterMoves, UpdaterStep, <1>1, BookNow DEF ReadBook, UpdaterAt, UpdaterRows
<1>4. CASE WriteUpdate(r) BY <1>1, <1>4, UpdaterMoves, ReplaceStep DEF WriteUpdate, UpdaterAt, UpdaterRows
<1>5. CASE UpdateLost(r) BY <1>1, <1>5, UpdaterMoves, UpdaterStep DEF UpdateLost
<1>6. ASSUME NEW facts \in {{}} \cup {{f} : f \in Facts}, Summarize(r, facts)
      PROVE AutobiographyInv'
  <2>1. ASSUME NEW f \in Deduplicated(updater[r].read, facts),
               UpdaterAt(r, "model", [updater[r] EXCEPT !.pc = "write",
                                        !.merged = MergeBody(updater[r].read, f)])
        PROVE  updater' \in [AutoRuns -> UpdaterRows]
    <3>1. MergeBody(updater[r].read, f) \in BookBodies BY MergedIsBody, <1>1 DEF Deduplicated, UpdaterRows
    <3> QED BY <2>1, UpdaterMoves, <1>1, <3>1 DEF UpdaterAt, UpdaterRows
  <2>2. CASE Deduplicated(updater[r].read, facts) = {}
    BY <1>1, <1>6, <2>2, UpdaterMoves, UpdaterStep DEF Summarize, UpdaterAt
  <2>3. CASE Deduplicated(updater[r].read, facts) # {} BY <1>6, <2>1, <2>3, UpdaterStep DEF Summarize
  <2> QED BY <2>2, <2>3
<1> QED BY <1>2, <1>3, <1>4, <1>5, <1>6

LEMMA AutobiographyAlways == AutobiographySpec => [](ProposalsInPlace /\ AutobiographyTypeOK)
<1>1. AutobiographyInv /\ [AutobiographyNext]_abvars => AutobiographyInv'
  <2> SUFFICES ASSUME AutobiographyInv, [AutobiographyNext]_abvars PROVE AutobiographyInv' OBVIOUS
  <2> USE DEF AutobiographyNext
  <2>1. updater \in [AutoRuns -> UpdaterRows] BY DEF AutobiographyInv, AutobiographyRows
  <2>2. ASSUME NEW p \in AutoPolicies, UpdatePolicy(p) PROVE AutobiographyInv'
    BY <2>2 DEF UpdatePolicy, AutobiographyInv, AutobiographyRows
  <2>3. ASSUME NEW text \in Texts, NEW n \in 1 .. MaxBookRevisions, ManualUpdate(text, n)
        PROVE AutobiographyInv' BY <2>1, <2>3, ReplaceStep, TextsAreBodies DEF ManualUpdate
  <2>4. ASSUME NEW n \in 1 .. MaxBookRevisions, RollbackBook(n) PROVE AutobiographyInv'
    BY <2>1, <2>4, ReplaceStep, BookNow DEF RollbackBook
  <2>5. CASE UNCHANGED abvars BY <2>5 DEF abvars, AutobiographyInv, AutobiographyRows
  <2> QED BY <2>2, <2>3, <2>4, <2>5, CreateProposalStep, ReviewStep, UpdaterActs
<1>2. AutobiographyInv => ProposalsInPlace
  <2> SUFFICES ASSUME AutobiographyInv PROVE ProposalsInPlace OBVIOUS
  <2>1. ASSUME NEW n \in DOMAIN proposal, proposal[n].status = "accepted"
        PROVE  proposal[n].base < autoBook.revision BY BookNow, <2>1 DEF InPlace, ProposalRows
  <2> QED BY <2>1, BookNow DEF ProposalsInPlace, InPlace, AutobiographyInv
<1>3. AutobiographyInv => AutobiographyTypeOK
  <2> SUFFICES ASSUME AutobiographyInv PROVE AutobiographyTypeOK OBVIOUS
  <2> QED BY BookNow DEF AutobiographyInv, AutobiographyRows, AutobiographyTypeOK, UpdaterRows, BookBodies
<1> QED BY <1>1, <1>2, <1>3, AutobiographyInitInv, PTL DEF AutobiographySpec

(***************************************************************************)
(* Plugins                                                                 *)
(***************************************************************************)
Trusts == {"USER_PROVIDED", "UNTRUSTED", "EXTERNAL"}
Published == 1 .. MaxPublished
Resolved == [v : Releases, commit : Published, says : Releases, digest : Published]
Underway == {"download", "extract", "test", "commit"}
InstallerRows == [pc : {"idle", "ended"}] \cup [pc : {"download", "extract", "commit"}, r : Resolved]
                 \cup [pc : {"test"}, r : Resolved, archive : Archives]
PluginRows == [kind : {"row"}, id : Installers, version : Releases, digest : Published,
               manifest : Published, trust : Trusts, state : {"dormant", "enabled", "staged"}]
CompanionRows == [kind : {"book"}, version : Releases, trust : Trusts]
Installations == [status : {"none", "staged", "active", "rolled_back"}, digest : Published \cup {0}, at : Nat]
Holders == [kind : {"upgrade", "activate", "rollback"}, pc : Underway, r : Resolved]

ReleaseRows == [commit : Published, says : Releases, artifact : Published]

PluginTypes ==
    /\ release \in [Releases -> ReleaseRows]
    /\ plugin \in {NoPlugin} \cup PluginRows /\ companion \in {NoPlugin} \cup CompanionRows
    /\ instal \in [Releases -> Installations]
    /\ installer \in [Installers -> InstallerRows]
    /\ rowHolder \in {NoPlugin} \cup Holders
    /\ ops \in Nat

\* An active installation carries the digest of the row, and the companion book
\* says what the row says.
RowsAgree ==
    plugin.kind = "row" =>
        /\ \E v \in Releases : instal[v].status = "active" /\ instal[v].digest = plugin.digest
        /\ companion.kind = "book" =>
              companion.version = plugin.version /\ companion.trust = plugin.trust

\* What is installed, staged or about to be was shown.
AllShown ==
    /\ \A v \in Releases : instal[v].status # "none" => instal[v].digest \in shown
    /\ \A i \in Installers : installer[i].pc \in Underway => installer[i].r.digest \in shown

\* What stage_and_verify pinned is still so: its operation holds the row.
PinHolds ==
    rowHolder.kind # "none" =>
        /\ plugin.kind = "row"
        /\ rowHolder.kind = "activate" =>
              /\ instal[rowHolder.r.v].status = "staged"
              /\ instal[rowHolder.r.v].digest = rowHolder.r.digest
        /\ rowHolder.kind = "rollback" =>
              /\ rowHolder.r.v # plugin.version /\ instal[rowHolder.r.v].status = "active"
              /\ instal[plugin.version].status = "active"
              /\ instal[rowHolder.r.v].digest = rowHolder.r.digest

\* A staging directory has its request, or was left behind.
StagingOwned ==
    \A d \in staging :
        \/ d = "left"
        \/ d \in Installers /\ installer[d].pc \in Underway
        \/ d = "holder" /\ rowHolder.kind # "none"

ArchiveSafe(a) == FilesIn(a) <= MaxEntries /\ \A n \in DOMAIN a : a[n] # "link"
TestsSafe == \A i \in Installers : installer[i].pc = "test" => ArchiveSafe(installer[i].archive)

PluginInv == PluginTypes /\ RowsAgree /\ AllShown /\ PinHolds /\ StagingOwned /\ TestsSafe

LEMMA PluginsInitInv == PluginsInit => PluginInv
<1> SUFFICES ASSUME PluginsInit PROVE PluginInv OBVIOUS
<1> USE DEF PluginsInit, NoPlugin, NoInstall
<1>1. PluginTypes BY PluginsAssumption DEF PluginTypes, InstallerRows, Installations, Published, ReleaseRows
<1> QED BY <1>1 DEF PluginInv, RowsAgree, AllShown, PinHolds, StagingOwned, TestsSafe, Underway

\* The guards of the code, in terms of the rows.
LEMMA RowGuards ==
  ASSUME PluginTypes
  PROVE  /\ Installed <=> plugin.kind = "row"
         /\ Locked <=> rowHolder.kind # "none"
         /\ plugin.kind = "row" => plugin \in PluginRows
         /\ rowHolder.kind # "none" => rowHolder \in Holders
         /\ companion.kind = "book" <=> companion # NoPlugin
         /\ companion # NoPlugin => companion \in CompanionRows
BY DEF PluginTypes, Installed, Locked, NoPlugin, PluginRows, Holders, CompanionRows

LEMMA ResolveType ==
  ASSUME PluginTypes, NEW v \in Releases
  PROVE  Resolve(v) \in Resolved /\ Resolve(v).v = v
BY DEF PluginTypes, Resolve, Resolved, CommitOf, AssetOf, Digest, Says, ReleaseRows

LEMMA ExtractedIsSafe ==
  ASSUME NEW a \in Archives, Extracts(a)
  PROVE  ArchiveSafe(a)
<1> DEFINE files == {n \in DOMAIN a : a[n] = "file"}
<1>1. PICK size \in 1 .. MaxEntries + 1 : a \in [1 .. size -> ArchiveEntries] BY DEF Archives
<1>2. DOMAIN a = 1 .. size /\ Len(a) = size /\ size \in Nat /\ MaxEntries \in Nat
  BY <1>1, LenProperties, IsASeq, PluginsAssumption
<1>3. files \subseteq 1 .. MaxEntries
  <2>1. CASE ExtractZip(a) BY <1>2, <2>1 DEF ExtractZip
  <2>2. CASE ExtractTar(a) BY <1>2, <2>2 DEF ExtractTar
  <2> QED BY <2>1, <2>2 DEF Extracts
<1>4. IsFiniteSet(1 .. MaxEntries) /\ Cardinality(1 .. MaxEntries) = MaxEntries BY <1>2, FS_Interval
<1> HIDE DEF files
<1> QED BY <1>3, <1>4, FS_Subset DEF ArchiveSafe, FilesIn, files, Extracts, ExtractZip, ExtractTar

\* An install request takes a step.
LEMMA InstallerMoves ==
  ASSUME PluginTypes, NEW i \in Installers, NEW x \in InstallerRows,
         installer' = [installer EXCEPT ![i] = x]
  PROVE  /\ installer' \in [Installers -> InstallerRows] /\ installer'[i] = x
         /\ \A j \in Installers \ {i} : installer'[j] = installer[j]
BY DEF PluginTypes

LEMMA SourceSteps ==
  ASSUME PluginInv, \E v \in Releases : MoveTag(v) \/ ReplaceArtifact(v) \/ PreviewPlugin(v)
  PROVE  PluginInv'
<1>1. /\ UNCHANGED <<plugin, companion, instal, installer, rowHolder, staging, ops, crashed>>
      /\ shown \subseteq shown' BY DEF MoveTag, ReplaceArtifact, PreviewPlugin, pcounts
<1>2. release' \in [Releases -> ReleaseRows]
  <2>1. PICK v \in Releases : MoveTag(v) \/ ReplaceArtifact(v) \/ PreviewPlugin(v) OBVIOUS
  <2>2. release \in [Releases -> ReleaseRows] BY DEF PluginInv, PluginTypes
  <2>3. PICK row \in ReleaseRows : row = release[v] BY <2>2
  <2>4. CASE MoveTag(v)
    <3>1. PICK says \in Releases : release' = [release EXCEPT ![v] = [row EXCEPT !.commit = row.commit + 1, !.says = says]]
      BY <2>2, <2>3, <2>4 DEF MoveTag
    <3>2. row.commit < MaxPublished BY <2>3, <2>4 DEF MoveTag
    <3>3. row.commit + 1 \in Published BY <2>3, <3>2, PluginsAssumption DEF ReleaseRows, Published
    <3>4. [row EXCEPT !.commit = row.commit + 1, !.says = says] \in ReleaseRows BY <2>3, <3>3 DEF ReleaseRows
    <3> QED BY <2>2, <3>1, <3>4
  <2>5. CASE ReplaceArtifact(v)
    <3>1. /\ release' = [release EXCEPT ![v] = [row EXCEPT !.artifact = @ + 1]]
          /\ row.artifact < MaxPublished BY <2>2, <2>3, <2>5 DEF ReplaceArtifact
    <3>2. [row EXCEPT !.artifact = @ + 1] \in ReleaseRows BY <2>3, <3>1, PluginsAssumption DEF ReleaseRows, Published
    <3> QED BY <2>2, <3>1, <3>2
  <2> QED BY <2>1, <2>2, <2>4, <2>5 DEF PreviewPlugin
<1> QED BY <1>1, <1>2 DEF PluginInv, RowsAgree, PinHolds, StagingOwned, TestsSafe, PluginTypes, AllShown

\* A step of an install request that touches nothing but the request.
LEMMA InstallerStep ==
  ASSUME PluginInv, NEW i \in Installers, NEW x \in InstallerRows,
         installer' = [installer EXCEPT ![i] = x],
         x.pc \in Underway =>
            x.r.digest \in shown,
         x.pc = "test" => ArchiveSafe(x.archive),
         IF x.pc \in Underway THEN staging' \in {staging, staging \cup {i}}
         ELSE staging' \in {staging \ {i}, (staging \ {i}) \cup {"left"}},
         UNCHANGED <<release, shown, plugin, companion, instal, rowHolder, ops, crashed>>
  PROVE  PluginInv'
<1>1. /\ installer' \in [Installers -> InstallerRows] /\ installer'[i] = x
      /\ \A j \in Installers \ {i} : installer'[j] = installer[j] BY InstallerMoves DEF PluginInv
<1>2. AllShown' BY <1>1 DEF PluginInv, AllShown
<1>3. StagingOwned' BY <1>1 DEF PluginInv, StagingOwned
<1>4. TestsSafe' BY <1>1 DEF PluginInv, TestsSafe
<1> QED BY <1>2, <1>3, <1>4, <1>1 DEF PluginInv, PluginTypes, RowsAgree, PinHolds

LEMMA EndedRow == [pc |-> "ended"] \in InstallerRows /\ [pc |-> "ended"].pc = "ended"
BY DEF InstallerRows

\* What is known of a request that has resolved its release.
LEMMA InstallerRow ==
  ASSUME PluginInv, NEW i \in Installers, installer[i].pc \in Underway
  PROVE  installer[i].r \in Resolved /\ installer[i].r.digest \in shown
  BY DEF InstallerRows, PluginInv, AllShown, PluginTypes, Underway

LEMMA InstallResolveStep ==
  ASSUME PluginInv, NEW i \in Installers, NEW v \in Releases, InstallResolve(i, v)
  PROVE  PluginInv'
<1>1. Resolve(v) \in Resolved /\ Resolve(v).v = v BY ResolveType DEF PluginInv
<1>2. PICK x \in InstallerRows : x = [pc |-> "download", r |-> Resolve(v)] BY <1>1 DEF InstallerRows
<1> QED BY <1>1, InstallerStep, <1>2 DEF InstallResolve, Underway, pcounts

LEMMA InstallEndsStep ==
  ASSUME PluginInv, NEW i \in Installers, InstallEnds(i),
         UNCHANGED <<release, shown, plugin, companion, instal, rowHolder, ops, crashed>>
  PROVE  PluginInv'
BY EndedRow, InstallerStep DEF InstallEnds, Underway

LEMMA InstallDownloadStep ==
  ASSUME PluginInv, NEW i \in Installers, InstallDownload(i)
  PROVE  PluginInv'
<1>1. /\ installer[i].pc = "download"
      /\ UNCHANGED <<release, shown, plugin, companion, instal, rowHolder, ops, crashed>>
  BY DEF InstallDownload, pcounts
<1>2. installer[i].r \in Resolved /\ installer[i].r.digest \in shown BY <1>1, InstallerRow DEF Underway
<1>3. PICK x \in InstallerRows : x = [pc |-> "extract", r |-> installer[i].r] BY <1>2 DEF InstallerRows
<1>4. CASE InstallEnds(i) BY <1>1, <1>4, InstallEndsStep
<1>5. CASE installer' = [installer EXCEPT ![i].pc = "extract"] /\ UNCHANGED staging
  <2>1. [installer[i] EXCEPT !.pc = "extract"] = x BY <1>1, <1>3 DEF PluginInv, PluginTypes, InstallerRows
  <2> QED BY <1>1, <1>2, <1>3, <1>5, <2>1, InstallerStep DEF Underway
<1> QED BY <1>4, <1>5 DEF InstallDownload

LEMMA InstallExtractStep ==
  ASSUME PluginInv, NEW i \in Installers, InstallExtract(i)
  PROVE  PluginInv'
<1>1. /\ installer[i].pc = "extract"
      /\ UNCHANGED <<release, shown, plugin, companion, instal, rowHolder, ops, crashed>>
  BY DEF InstallExtract, pcounts
<1>2. installer[i].r \in Resolved /\ installer[i].r.digest \in shown BY <1>1, InstallerRow DEF Underway
<1>3. PICK a \in Archives :
        \/ /\ Extracts(a)
           /\ installer' = [installer EXCEPT ![i] =
                               [pc |-> "test", r |-> installer[i].r, archive |-> a]]
           /\ UNCHANGED staging
        \/ InstallEnds(i) BY DEF InstallExtract
<1>4. CASE InstallEnds(i) BY <1>1, <1>4, InstallEndsStep
<1>5. CASE ~InstallEnds(i)
  <2>1. PICK x \in InstallerRows : x = [pc |-> "test", r |-> installer[i].r, archive |-> a] BY <1>2 DEF InstallerRows
  <2> QED BY <1>1, <1>2, InstallerStep, <2>1, <1>3, <1>5, ExtractedIsSafe DEF Underway
<1> QED BY <1>4, <1>5

LEMMA InstallDroppedStep ==
  ASSUME PluginInv, NEW i \in Installers, InstallDropped(i)
  PROVE  PluginInv'
<1>1. /\ UNCHANGED <<release, shown, plugin, companion, instal, rowHolder, ops, crashed>>
      /\ installer' = [installer EXCEPT ![i] = [pc |-> "ended"]]
      /\ staging' \in {staging \ {i}, (staging \ {i}) \cup {"left"}}
  BY DEF InstallDropped, LeftBehind, pcounts
<1> QED BY <1>1, EndedRow, InstallerStep DEF Underway

LEMMA InstallSelfTestStep ==
  ASSUME PluginInv, NEW i \in Installers, InstallSelfTest(i)
  PROVE  PluginInv'
<1>1. /\ installer[i].pc = "test"
      /\ UNCHANGED <<release, shown, plugin, companion, instal, rowHolder, ops, crashed>>
      /\ \/ /\ installer' = [installer EXCEPT ![i] = [pc |-> "commit", r |-> installer[i].r]]
            /\ UNCHANGED staging
         \/ InstallEnds(i) BY DEF InstallSelfTest, pcounts
<1>2. installer[i].r \in Resolved /\ installer[i].r.digest \in shown BY <1>1, InstallerRow DEF Underway
<1>3. PICK x \in InstallerRows : x = [pc |-> "commit", r |-> installer[i].r] BY <1>2 DEF InstallerRows
<1>4. CASE InstallEnds(i) BY <1>1, <1>4, InstallEndsStep
<1>5. CASE installer' = [installer EXCEPT ![i] = x] /\ UNCHANGED staging BY <1>1, <1>2, <1>5, InstallerStep, <1>3 DEF Underway
<1> QED BY <1>1, <1>3, <1>4, <1>5

LEMMA InstallCommitStep ==
  ASSUME PluginInv, NEW i \in Installers, InstallCommit(i)
  PROVE  PluginInv'
<1> DEFINE r == installer[i].r
           first == [v \in Releases |->
                        IF v = r.says THEN [status |-> "active", digest |-> r.digest, at |-> ops]
                        ELSE NoInstall]
<1>1. /\ installer[i].pc = "commit" /\ InstallEnds(i)
      /\ UNCHANGED <<release, shown, rowHolder, ops, crashed>>
      /\ IF Installed THEN UNCHANGED <<plugin, companion, instal>>
         ELSE /\ plugin' = PluginRow(i, r, "USER_PROVIDED", "dormant")
              /\ companion' = Companion(PluginRow(i, r, "USER_PROVIDED", "dormant"))
              /\ instal' = first BY DEF InstallCommit, pcounts, PluginRow, FetchManifest
<1>2. r \in Resolved /\ r.digest \in shown BY <1>1, InstallerRow DEF Underway
<1>3. CASE Installed BY <1>1, <1>3, InstallEndsStep
<1>4. CASE ~Installed
  <2>1. r.says \in Releases /\ r.digest \in Published /\ r.commit \in Published /\ ops \in Nat
    BY <1>2 DEF Resolved, PluginInv, PluginTypes
  <2>2. /\ plugin' \in PluginRows /\ plugin'.kind = "row" /\ plugin'.version = r.says
        /\ plugin'.digest = r.digest /\ plugin'.trust = "USER_PROVIDED"
    BY <1>1, <1>4, <2>1 DEF PluginRow, PluginRows, FetchManifest, Trusts
  <2>3. /\ companion' \in CompanionRows /\ companion'.version = r.says
        /\ companion'.trust = "USER_PROVIDED" BY <1>1, <1>4, <2>1 DEF PluginRow, FetchManifest, Companion, CompanionRows, Trusts
  <2>4. /\ instal' \in [Releases -> Installations]
        /\ instal'[r.says].status = "active" /\ instal'[r.says].digest = r.digest
        /\ \A v \in Releases \ {r.says} : instal'[v].status = "none" BY <1>1, <1>4, <2>1 DEF Installations, NoInstall
  <2>5. /\ installer' \in [Installers -> InstallerRows] /\ installer'[i].pc = "ended"
        /\ \A j \in Installers \ {i} : installer'[j] = installer[j]
        /\ staging' = staging \ {i} BY <1>1, EndedRow, InstallerMoves DEF InstallEnds, PluginInv
  <2> HIDE DEF r, first
  <2>6. RowsAgree' /\ PinHolds' BY <1>1, <2>1, <2>2, <2>3, <2>4, <1>4, RowGuards DEF RowsAgree, PinHolds, PluginInv
  <2>7. StagingOwned' BY <1>1, <2>5 DEF PluginInv, StagingOwned
  <2>8. TestsSafe' BY <2>5 DEF PluginInv, TestsSafe
  <2> QED BY <2>6, <2>7, <2>8, <1>1, <2>2, <2>3, <2>4, <2>5, <1>2 DEF PluginInv, PluginTypes, AllShown, Underway
<1> QED BY <1>3, <1>4

\* An operation takes the plugin's row, and what it pinned is so now.
LEMMA HoldRowStep ==
  ASSUME PluginInv, NEW h \in Holders, HoldRow(h),
         staging' \in {staging, staging \cup {"holder"}},
         h.kind = "activate" => /\ instal[h.r.v].status = "staged"
                                /\ instal[h.r.v].digest = h.r.digest,
         h.kind = "rollback" => /\ h.r.v # plugin.version /\ instal[h.r.v].status = "active"
                                /\ instal[plugin.version].status = "active"
                                /\ instal[h.r.v].digest = h.r.digest
  PROVE  PluginInv'
<1>1. /\ UNCHANGED <<release, shown, plugin, companion, instal, installer, crashed>>
      /\ rowHolder' = h /\ ops' = ops + 1 /\ plugin.kind = "row" BY RowGuards DEF HoldRow, PluginInv
<1>2. PinHolds' BY <1>1 DEF PinHolds
<1>3. StagingOwned' BY <1>1 DEF PluginInv, StagingOwned, Holders
<1> QED BY <1>2, <1>3, <1>1 DEF PluginInv, PluginTypes, RowsAgree, AllShown, TestsSafe

LEMMA UpgradeResolveStep ==
  ASSUME PluginInv, NEW v \in Releases, UpgradeResolve(v)
  PROVE  PluginInv'
<1>1. PICK h \in Holders : h = [kind |-> "upgrade", pc |-> "commit", r |-> Resolve(v)]
  BY ResolveType DEF PluginInv, Holders, Underway
<1> QED BY HoldRowStep, <1>1 DEF UpgradeResolve

LEMMA PinSteps ==
  ASSUME PluginInv, NEW v \in Releases, Activate(v) \/ Rollback(v)
  PROVE  PluginInv'
<1>1. PICK op \in {"activate", "rollback"} :
        /\ StageAndVerify(op, v)
        /\ op = "activate" => instal[v].status = "staged"
        /\ op = "rollback" => /\ Installed => v # plugin.version /\ instal[plugin.version].status = "active"
                              /\ instal[v].status = "active"
  BY DEF Activate, Rollback
<1>2. PICK h \in Holders : h = [kind |-> op, pc |-> "download", r |-> Resolve(v)]
  BY ResolveType DEF PluginInv, Holders, Underway
<1> QED BY <1>1, HoldRowStep, <1>2, ResolveType DEF StageAndVerify, Pinned, HoldRow, PluginInv

\* The row is let go, with new contents or as it was.
LEMMA LetRowGoStep ==
  ASSUME PluginInv, LetRowGo, PluginTypes', RowsAgree', shown \subseteq shown',
         \A v \in Releases : instal'[v].status # "none" => instal'[v].digest \in shown',
         UNCHANGED <<installer, crashed>>
  PROVE  PluginInv'
<1>1. rowHolder'.kind = "none" /\ staging' = staging \ {"holder"} BY DEF LetRowGo, NoPlugin
<1>2. StagingOwned' BY <1>1 DEF PluginInv, StagingOwned
<1> QED BY <1>2, <1>1 DEF PluginInv, AllShown, PinHolds, TestsSafe

LEMMA LetGoUnchanged ==
  ASSUME PluginInv, LetRowGo,
         UNCHANGED <<release, shown, plugin, companion, instal, installer, ops, crashed>>
  PROVE  PluginInv'
  BY LetRowGoStep DEF AllShown, PluginInv, PluginTypes, LetRowGo, RowsAgree

LEMMA HolderSteps ==
  ASSUME PluginInv, HolderDownload \/ HolderExtract \/ HolderSelfTest
  PROVE  PluginInv'
<1>1. UNCHANGED <<release, shown, plugin, companion, instal, installer, ops, crashed>> /\ Locked
  BY RowGuards DEF HolderDownload, HolderExtract, HolderSelfTest, pcounts, PluginInv, NoPlugin, Locked
<1>2. CASE LetRowGo BY <1>1, <1>2, LetGoUnchanged
<1>3. ASSUME NEW step \in {"extract", "test", "commit"},
             rowHolder' = [rowHolder EXCEPT !.pc = step] /\ UNCHANGED staging
      PROVE  PluginInv'
  <2>1. rowHolder' \in Holders /\ rowHolder'.kind = rowHolder.kind /\ rowHolder'.r = rowHolder.r
    BY <1>3, <1>1, RowGuards DEF Holders, Underway, PluginInv
  <2> QED BY <1>1, <2>1, <1>3 DEF PluginInv, PluginTypes, RowsAgree, AllShown, TestsSafe, PinHolds, StagingOwned
<1>4. HolderDownload \/ HolderExtract \/ HolderSelfTest =>
        LetRowGo \/ \E step \in {"extract", "test", "commit"} :
                       rowHolder' = [rowHolder EXCEPT !.pc = step] /\ UNCHANGED staging
  BY DEF HolderDownload, HolderExtract, HolderSelfTest
<1> QED BY <1>2, <1>3, <1>4

LEMMA HolderDroppedStep ==
  ASSUME PluginInv, HolderDropped
  PROVE  PluginInv'
<1>1. /\ UNCHANGED <<release, shown, plugin, companion, instal, installer, ops, crashed>>
      /\ rowHolder' = NoPlugin
      /\ staging' \in {staging \ {"holder"}, (staging \ {"holder"}) \cup {"left"}}
  BY DEF HolderDropped, LeftBehind, pcounts
<1>2. StagingOwned' BY <1>1 DEF PluginInv, StagingOwned
<1> QED BY <1>1, <1>2 DEF PluginInv, PluginTypes, RowsAgree, AllShown, PinHolds, TestsSafe, NoPlugin

\* The operation that holds the row, and what it is about.
LEMMA HolderRow ==
  ASSUME PluginInv, rowHolder.kind # "none"
  PROVE  /\ plugin \in PluginRows /\ rowHolder.r \in Resolved
         /\ rowHolder.r.v \in Releases /\ rowHolder.r.says \in Releases /\ rowHolder.r.digest \in Published /\ rowHolder.r.commit \in Published
BY RowGuards DEF PluginInv, PinHolds, Holders, Resolved

LEMMA UpgradeCommitStep ==
  ASSUME PluginInv, UpgradeCommit
  PROVE  PluginInv'
<1> DEFINE r == rowHolder.r
           w == rowHolder.r.says
<1>1. /\ rowHolder.kind = "upgrade" /\ LetRowGo
      /\ UNCHANGED <<release, companion, installer, ops, crashed>>
      /\ IF MayStage(instal[w].status)
         THEN /\ instal' = [instal EXCEPT ![w].status = "staged", ![w].digest = r.digest]
              /\ plugin' = [plugin EXCEPT !.state = "staged"]
              /\ shown' = shown \cup {r.digest}
         ELSE UNCHANGED <<instal, plugin, shown>> BY DEF UpgradeCommit, FetchManifest, pcounts
<1>2. plugin \in PluginRows /\ w \in Releases /\ r.digest \in Published /\ plugin.kind = "row"
  BY <1>1, HolderRow DEF PluginRows
<1>3. CASE ~MayStage(instal[w].status) BY <1>1, <1>3, LetGoUnchanged
<1>4. CASE MayStage(instal[w].status)
  <2>1. /\ plugin' \in PluginRows /\ plugin'.version = plugin.version
        /\ plugin'.digest = plugin.digest /\ plugin'.trust = plugin.trust BY <1>1, <1>2, <1>4 DEF PluginRows
  <2>2. /\ instal' \in [Releases -> Installations] /\ instal'[w].digest = r.digest
        /\ \A v \in Releases \ {w} : instal'[v] = instal[v]
    <3>1. instal \in [Releases -> Installations] /\ instal[w] \in Installations BY <1>2 DEF PluginInv, PluginTypes
    <3>2. PICK x \in Installations : /\ x = [instal[w] EXCEPT !.status = "staged", !.digest = r.digest]
                                     /\ x.digest = r.digest
      <4> HIDE DEF r, w
      <4>1. /\ [instal[w] EXCEPT !.status = "staged", !.digest = r.digest] \in Installations
            /\ [instal[w] EXCEPT !.status = "staged", !.digest = r.digest].digest = r.digest
        BY <1>2, <3>1 DEF Installations
      <4> QED BY <4>1
    <3> HIDE DEF r, w
    <3> QED BY <1>2, <3>1, <3>2, <1>1, <1>4 DEF Installations
  <2> HIDE DEF r, w
  <2>3. /\ shown \subseteq shown' /\ r.digest \in shown'
        /\ \A v \in Releases : instal'[v].status # "none" => instal'[v].digest \in shown'
    BY <1>1, <1>4, <2>2 DEF PluginInv, AllShown
  <2> QED
    BY <1>1, <2>3, LetRowGoStep, <2>1, <2>2, <1>2, <1>4 DEF PluginInv, PluginTypes, LetRowGo, RowsAgree, PluginRows,
      MayStage
<1> QED BY <1>3, <1>4

\* The rows after SwapIn.
LEMMA SwappedIn ==
  ASSUME PluginInv, plugin \in PluginRows, NEW r \in Resolved, SwapIn(r)
  PROVE  /\ plugin' \in PluginRows /\ plugin'.digest = r.digest
         /\ companion' \in {NoPlugin} \cup CompanionRows
         /\ companion'.kind = "book" =>
               companion'.version = plugin'.version /\ companion'.trust = plugin'.trust
<1>1. /\ plugin' = PluginRow(plugin.id, r, NewTrust, "dormant")
      /\ companion' = IF companion = NoPlugin THEN NoPlugin ELSE Companion(plugin') BY DEF SwapIn
<1>2. /\ plugin' \in PluginRows /\ plugin'.digest = r.digest
  BY <1>1 DEF PluginRow, PluginRows, Resolved, FetchManifest, NewTrust, Trusts
<1>3. NoPlugin.kind = "none" BY DEF NoPlugin
<1> QED BY <1>1, <1>2, <1>3 DEF Companion, CompanionRows, PluginRows

LEMMA ActivateCommitStep ==
  ASSUME PluginInv, ActivateCommit
  PROVE  PluginInv'
<1> DEFINE r == rowHolder.r
<1>1. /\ rowHolder.kind = "activate" /\ SwapIn(r) /\ LetRowGo
      /\ instal' = [instal EXCEPT ![r.v].status = "active", ![r.v].at = ops]
      /\ UNCHANGED <<release, shown, installer, ops, crashed>> BY DEF ActivateCommit, pcounts
<1>2. plugin \in PluginRows /\ r \in Resolved /\ r.v \in Releases BY <1>1, HolderRow
<1>3. instal[r.v].status = "staged" /\ instal[r.v].digest = r.digest BY <1>1 DEF PluginInv, PinHolds
<1>4. /\ instal' \in [Releases -> Installations]
      /\ instal'[r.v].status = "active" /\ instal'[r.v].digest = r.digest
      /\ \A v \in Releases \ {r.v} : instal'[v] = instal[v]
  BY <1>1, <1>2, <1>3 DEF PluginInv, PluginTypes, Installations
<1> HIDE DEF r
<1>5. /\ plugin' \in PluginRows /\ plugin'.digest = r.digest
      /\ companion' \in {NoPlugin} \cup CompanionRows
      /\ companion'.kind = "book" =>
            companion'.version = plugin'.version /\ companion'.trust = plugin'.trust BY <1>2, SwappedIn, <1>1
<1>6. \A v \in Releases : instal'[v].status # "none" => instal'[v].digest \in shown'
  BY <1>1, <1>3, <1>4 DEF PluginInv, AllShown
<1> QED BY <1>1, <1>6, LetRowGoStep, <1>4, <1>5 DEF PluginInv, PluginTypes, LetRowGo, RowsAgree

LEMMA RollbackCommitStep ==
  ASSUME PluginInv, RollbackCommit
  PROVE  PluginInv'
<1> DEFINE r == rowHolder.r
           was == plugin.version
<1>1. /\ rowHolder.kind = "rollback" /\ SwapIn(r) /\ LetRowGo
      /\ instal' = [instal EXCEPT ![was].status = "rolled_back",
                                  ![r.v].status = "active", ![r.v].at = ops]
      /\ UNCHANGED <<release, shown, installer, ops, crashed>> BY DEF RollbackCommit, pcounts
<1>2. plugin \in PluginRows /\ r \in Resolved /\ r.v \in Releases /\ was \in Releases
  BY <1>1, HolderRow DEF PluginRows
<1>3. r.v # was /\ instal[r.v].status = "active" /\ instal[r.v].digest = r.digest BY <1>1 DEF PluginInv, PinHolds
<1>4. instal[was].status = "active" BY <1>1 DEF PluginInv, PinHolds
<1>5. /\ instal' \in [Releases -> Installations]
      /\ instal'[r.v].status = "active" /\ instal'[r.v].digest = r.digest
      /\ \A v \in Releases : /\ instal'[v].digest = instal[v].digest
                             /\ instal'[v].status = "none" <=> instal[v].status = "none"
  <2> HIDE DEF r, was
  <2>1. instal \in [Releases -> Installations] /\ ops \in Nat BY DEF PluginInv, PluginTypes
  <2>2. DOMAIN instal' = Releases /\ \A v \in Releases \ {was, r.v} : instal'[v] = instal[v] BY <1>1, <2>1
  <2>3. /\ instal'[was] \in Installations /\ instal'[was].digest = instal[was].digest
        /\ instal'[was].status = "rolled_back" BY <1>2, <2>1, <1>1, <1>3 DEF Installations
  <2>4. /\ instal'[r.v] \in Installations /\ instal'[r.v].digest = instal[r.v].digest
        /\ instal'[r.v].status = "active"
    <3>1. PICK x \in Installations : x = instal[r.v] BY <1>2, <2>1
    <3>2. PICK n \in Nat : n = ops BY <2>1
    <3> QED BY <3>1, <3>2, <1>1, <1>2, <1>3, <2>1 DEF Installations
  <2> QED BY <1>3, <1>4, <2>2, <2>3, <2>4, <2>1, <1>1
<1> HIDE DEF r, was
<1>6. /\ plugin' \in PluginRows /\ plugin'.digest = r.digest
      /\ companion' \in {NoPlugin} \cup CompanionRows
      /\ companion'.kind = "book" =>
            companion'.version = plugin'.version /\ companion'.trust = plugin'.trust BY <1>2, SwappedIn, <1>1
<1>7. \A v \in Releases : instal'[v].status # "none" => instal'[v].digest \in shown'
  BY <1>1, <1>5 DEF PluginInv, AllShown
<1>8. RowsAgree' BY <1>2, <1>5, <1>6 DEF RowsAgree
<1>9. PluginTypes' BY <1>1, <1>5, <1>6 DEF PluginInv, PluginTypes, LetRowGo
<1> QED BY <1>1, <1>7, <1>8, <1>9, LetRowGoStep

LEMMA PatchPluginStep ==
  ASSUME PluginInv, NEW trust \in {"UNTRUSTED", "EXTERNAL"}, PatchPlugin("enabled", trust)
  PROVE  PluginInv'
<1>1. /\ Installed /\ plugin' = [plugin EXCEPT !.state = "enabled", !.trust = trust]
      /\ companion' = IF companion = NoPlugin THEN NoPlugin ELSE [companion EXCEPT !.trust = trust]
      /\ ops' = ops + 1
      /\ UNCHANGED <<release, shown, instal, installer, rowHolder, staging, crashed>> BY DEF PatchPlugin
<1>2. plugin \in PluginRows /\ plugin.kind = "row" BY <1>1, RowGuards DEF PluginInv
<1>3. /\ plugin' \in PluginRows /\ plugin'.version = plugin.version /\ plugin'.kind = "row"
      /\ plugin'.digest = plugin.digest /\ plugin'.trust = trust BY <1>1, <1>2 DEF PluginRows, Trusts
<1>4. /\ companion' \in {NoPlugin} \cup CompanionRows
      /\ companion'.kind = "book" =>
            /\ companion.kind = "book" /\ companion'.version = companion.version
            /\ companion'.trust = trust
  <2>1. CASE companion = NoPlugin BY <1>1, <2>1 DEF NoPlugin
  <2>2. CASE companion # NoPlugin BY <1>1, <2>2 DEF CompanionRows, Trusts, PluginInv, PluginTypes
  <2> QED BY <2>1, <2>2
<1>5. AllShown' /\ StagingOwned' /\ TestsSafe' BY <1>1 DEF PluginInv, AllShown, StagingOwned, TestsSafe
<1> QED BY <1>5, <1>1, <1>3, <1>4, <1>2 DEF PluginInv, PluginTypes, RowsAgree, PinHolds

LEMMA DeletePluginStep ==
  ASSUME PluginInv, DeletePlugin
  PROVE  PluginInv'
<1>1. /\ plugin' = NoPlugin /\ companion' = NoPlugin /\ instal' = [v \in Releases |-> NoInstall]
      /\ UNCHANGED <<release, shown, installer, rowHolder, staging, ops, crashed>>
      /\ rowHolder.kind = "none" BY RowGuards DEF DeletePlugin, pcounts, PluginInv
<1> QED
  BY <1>1 DEF PluginInv, PluginTypes, NoInstall, Installations, RowsAgree, AllShown, PinHolds, StagingOwned,
    TestsSafe, NoPlugin

LEMMA PluginServerCrashStep ==
  ASSUME PluginInv, PluginServerCrash
  PROVE  PluginInv'
<1>1. /\ crashed' = TRUE /\ rowHolder' = NoPlugin
      /\ installer' = [i \in Installers |->
            IF installer[i].pc = "idle" THEN installer[i] ELSE [pc |-> "ended"]]
      /\ staging' \subseteq {"left"}
      /\ UNCHANGED <<release, shown, plugin, companion, instal, ops>> BY DEF PluginServerCrash
<1>2. /\ installer' \in [Installers -> InstallerRows]
      /\ \A i \in Installers : installer'[i].pc \in {"idle", "ended"} BY <1>1, EndedRow DEF PluginInv, PluginTypes
<1> QED BY <1>1, <1>2 DEF PluginInv, PluginTypes, RowsAgree, AllShown, PinHolds, StagingOwned, TestsSafe, NoPlugin, Underway

LEMMA PluginsAlways == PluginsSpec => [](PluginAsApproved /\ PluginsTypeOK)
<1>1. PluginInv /\ [PluginsNext]_pvars => PluginInv'
  <2> SUFFICES ASSUME PluginInv, [PluginsNext]_pvars PROVE PluginInv' OBVIOUS
  <2>1. CASE UNCHANGED pvars
    BY <2>1 DEF pvars, PluginInv, PluginTypes, RowsAgree, AllShown, PinHolds, StagingOwned, TestsSafe
  <2>2. CASE PluginsNext
    BY <2>2, SourceSteps, InstallResolveStep, InstallDownloadStep, InstallExtractStep, InstallSelfTestStep, InstallCommitStep,
      InstallDroppedStep, HolderDroppedStep,
      UpgradeResolveStep, UpgradeCommitStep, PinSteps, HolderSteps, ActivateCommitStep, RollbackCommitStep,
      PatchPluginStep, DeletePluginStep, PluginServerCrashStep DEF PluginsNext
  <2> QED BY <2>1, <2>2
<1>2. PluginInv => PluginAsApproved
  <2> SUFFICES ASSUME PluginInv PROVE PluginAsApproved OBVIOUS
  <2>1. ASSUME Installed
        PROVE  /\ plugin.digest \in shown
               /\ \E v \in Releases : instal[v].status = "active" /\ instal[v].digest = plugin.digest
               /\ companion # NoPlugin =>
                     companion.version = plugin.version /\ companion.trust = plugin.trust
    BY RowGuards, <2>1 DEF PluginInv, RowsAgree, AllShown, PluginRows
  <2> QED BY <2>1, RowGuards DEF PluginAsApproved, PluginInv, StagingOwned, TestsSafe, ArchiveSafe, Underway
<1>3. PluginInv => PluginsTypeOK
  <2> SUFFICES ASSUME PluginInv PROVE PluginsTypeOK OBVIOUS
  <2>1. rowHolder.kind \in {"none", "upgrade", "activate", "rollback"}
    BY DEF PluginInv, PluginTypes, NoPlugin, Holders
  <2> QED BY <2>1, RowGuards DEF PluginRows, Published, PluginsTypeOK, PluginInv, PluginTypes, Installations
<1> QED BY <1>1, <1>2, <1>3, PluginsInitInv, PTL DEF PluginsSpec

(***************************************************************************)
(* Interface packages                                                      *)
(***************************************************************************)
PackageStates == {"none", "candidate", "active", "previous", "rolled_back"}
Busy == {"insert", "delete", "rmdir"}
UiRequestRows == {Quiet} \cup [pc : Busy \cup {"write"}, p : Packages]

UiRows ==
    /\ pkg \in [Packages -> PackageStates]
    /\ dirs \subseteq Packages /\ active_ui \in Packages \cup {"none"}
    /\ req \in [UiRequests -> UiRequestRows]
    /\ page \in [pc : {"none", "policy", "served"}, policy : Packages \cup {"none"},
                 shows : Packages \cup {"none", "builtin", "recovery"}, moved : BOOLEAN]
    /\ astray \in BOOLEAN

\* One package is active, at most, and one to roll back to, if one is active.
OneOfEach ==
    /\ \A p, q \in Packages : pkg[p] = pkg[q] /\ pkg[p] \in {"active", "previous"} => p = q
    /\ \A p \in Packages : pkg[p] = "previous" => \E q \in Packages : pkg[q] = "active"

\* A row has its directory, and a package is installed or deleted by one
\* request at a time.
RowsOnDisk ==
    /\ \A p \in Packages : pkg[p] # "none" => p \in dirs
    /\ \A h \in UiRequests : req[h].pc \in Busy =>
          /\ req[h].p \in dirs
          /\ IF req[h].pc = "delete" THEN pkg[req[h].p] \notin {"none", "active"}
             ELSE pkg[req[h].p] = "none"
    /\ \A h, k \in UiRequests :
          req[h].pc \in Busy /\ req[k].pc \in Busy /\ req[h].p = req[k].p => h = k

\* Unless the last commit's write went astray, one request at most has still to
\* write active_ui, and it writes the active package.
MemoryFollows ==
    ~astray =>
        /\ \A h \in UiRequests : req[h].pc = "write" =>
              /\ pkg[req[h].p] = "active"
              /\ \A k \in UiRequests : req[k].pc = "write" => h = k
        /\ (\A h \in UiRequests : req[h].pc # "write") =>
              /\ \A p \in Packages : pkg[p] = "active" => active_ui = p
              /\ active_ui # "none" => pkg[active_ui] = "active"

\* The page that is loaded, against active_ui.
PageAgrees ==
    ~page.moved => /\ page.pc = "policy" => page.policy = active_ui
                   /\ page.shows \in Packages => page.policy = page.shows

UiInv == UiRows /\ OneOfEach /\ RowsOnDisk /\ MemoryFollows /\ PageAgrees

LEMMA UiInitInv == UiInit => UiInv
<1> SUFFICES ASSUME UiInit PROVE UiInv OBVIOUS
<1> USE DEF UiInit, Quiet, NoPage
<1>1. UiRows BY DEF UiRows, UiRequestRows, PackageStates
<1> QED BY <1>1, UiAssumption DEF UiInv, OneOfEach, RowsOnDisk, MemoryFollows, Busy, PageAgrees

\* A request moves on.
LEMMA RequestMoves ==
  ASSUME UiRows, NEW h \in UiRequests, NEW step \in Busy \cup {"write"}, NEW p \in Packages,
         req' = [req EXCEPT ![h] = [pc |-> step, p |-> p]]
  PROVE  /\ req' \in [UiRequests -> UiRequestRows]
         /\ req'[h].pc = step /\ req'[h].p = p
         /\ \A k \in UiRequests \ {h} : req'[k] = req[k]
<1>1. PICK x \in UiRequestRows : x = [pc |-> step, p |-> p] BY DEF UiRequestRows
<1> QED BY <1>1 DEF UiRows

LEMMA UiRequestEnds ==
  ASSUME UiRows, NEW h \in UiRequests, req' = [req EXCEPT ![h] = Quiet]
  PROVE  /\ req' \in [UiRequests -> UiRequestRows]
         /\ req'[h].pc = "idle"
         /\ \A k \in UiRequests \ {h} : req'[k] = req[k]
BY DEF UiRows, UiRequestRows, Quiet

LEMMA BusyRow ==
  ASSUME UiRows, NEW h \in UiRequests, req[h].pc \in Busy \cup {"write"}
  PROVE  req[h].p \in Packages
BY DEF UiRows, UiRequestRows, Quiet, Busy

LEMMA InstallUiStep ==
  ASSUME UiInv, NEW h \in UiRequests, NEW p \in Packages, InstallUi(h, p)
  PROVE  UiInv'
<1>1. /\ req[h].pc = "idle" /\ pkg[p] = "none" /\ p \notin dirs /\ dirs' = dirs \cup {p}
      /\ req' = [req EXCEPT ![h] = [pc |-> "insert", p |-> p]]
      /\ UNCHANGED <<pkg, active_ui, page, astray>> BY DEF InstallUi, Accepts
<1>2. /\ req' \in [UiRequests -> UiRequestRows] /\ req'[h].pc = "insert" /\ req'[h].p = p
      /\ \A k \in UiRequests \ {h} : req'[k] = req[k] BY <1>1, RequestMoves DEF UiInv, Busy
<1>3. RowsOnDisk' BY <1>1, <1>2 DEF UiInv, RowsOnDisk, Busy
<1>4. MemoryFollows' BY <1>1, <1>2 DEF UiInv, MemoryFollows
<1> QED BY <1>3, <1>4, <1>1, <1>2 DEF UiInv, UiRows, OneOfEach, PageAgrees

LEMMA InsertUiStep ==
  ASSUME UiInv, NEW h \in UiRequests, InsertUi(h)
  PROVE  UiInv'
<1> DEFINE p == req[h].p
<1>1. /\ req[h].pc = "insert" /\ req' = [req EXCEPT ![h] = Quiet]
      /\ UNCHANGED <<dirs, active_ui, page, astray>>
      /\ pkg' = [pkg EXCEPT ![p] = "candidate"] \/ pkg' = pkg BY DEF InsertUi
<1>2. /\ req' \in [UiRequests -> UiRequestRows] /\ req'[h].pc = "idle"
      /\ \A k \in UiRequests \ {h} : req'[k] = req[k] BY <1>1, UiRequestEnds DEF UiInv
<1>3. p \in Packages /\ p \in dirs /\ pkg[p] = "none" BY <1>1, BusyRow DEF UiInv, RowsOnDisk, Busy
<1>4. /\ pkg' \in [Packages -> PackageStates] /\ \A q \in Packages \ {p} : pkg'[q] = pkg[q]
      /\ pkg'[p] \in {"none", "candidate"} BY <1>1, <1>3 DEF UiInv, UiRows, PackageStates
<1> HIDE DEF p
<1>5. RowsOnDisk' BY <1>1, <1>2, <1>3, <1>4, BusyRow DEF UiInv, RowsOnDisk, Busy, p
<1>6. MemoryFollows' BY <1>1, <1>2, <1>3, <1>4, BusyRow DEF UiInv, UiRows, MemoryFollows
<1> QED BY <1>5, <1>6, <1>1, <1>2, <1>4, <1>3 DEF UiInv, UiRows, OneOfEach, PageAgrees

\* Activation and rollback: the rows as the transaction leaves them.
LEMMA CommitsStep ==
  ASSUME UiInv, NEW h \in UiRequests, NEW p \in Packages, req[h].pc = "idle", Commits(h, p),
         pkg' \in [Packages -> PackageStates], pkg[p] # "none", pkg'[p] = "active",
         \A k \in UiRequests : req[k].pc = "delete" => req[k].p # p,
         \A q \in Packages \ {p} :
            \/ pkg'[q] = pkg[q] /\ pkg[q] \notin {"active", "previous"}
            \/ pkg[q] = "active" /\ pkg'[q] \in {"previous", "rolled_back"}
            \/ pkg[q] = "previous" /\ pkg'[q] = "rolled_back"
  PROVE  UiInv'
<1>1. /\ req' = [req EXCEPT ![h] = [pc |-> "write", p |-> p]]
      /\ UNCHANGED <<dirs, active_ui, page>>
      /\ astray' = (\E k \in UiRequests : req[k].pc = "write") BY DEF Commits, Writing
<1>2. /\ req' \in [UiRequests -> UiRequestRows] /\ req'[h].pc = "write" /\ req'[h].p = p
      /\ \A k \in UiRequests \ {h} : req'[k] = req[k] BY <1>1, RequestMoves DEF UiInv
<1>3. UiRows' BY <1>1, <1>2 DEF UiInv, UiRows
<1>4. RowsOnDisk'
  <2>1. \A q \in Packages \ {p} : pkg'[q] # "active" OBVIOUS
  <2> QED BY <1>1, <1>2, <2>1, BusyRow DEF UiInv, RowsOnDisk, Busy
<1>5. PageAgrees' BY <1>1 DEF UiInv, PageAgrees
<1> QED BY <1>3, <1>4, <1>5, <1>1, <1>2 DEF UiInv, OneOfEach, MemoryFollows

LEMMA ActivateUiStep ==
  ASSUME UiInv, NEW h \in UiRequests, NEW p \in Packages, ActivateUi(h, p)
  PROVE  UiInv'
<1>1. /\ req[h].pc = "idle" /\ pkg[p] \in Activatable /\ pkg' = Demote(p) /\ Commits(h, p)
      /\ ~RowLocked(p) BY DEF ActivateUi, Accepts
<1>2. pkg[p] # "none" /\ pkg'[p] = "active" BY <1>1 DEF Activatable, Demote
<1>3. \A q \in Packages \ {p} :
            \/ pkg'[q] = pkg[q] /\ pkg[q] \notin {"active", "previous"}
            \/ pkg[q] = "active" /\ pkg'[q] \in {"previous", "rolled_back"}
            \/ pkg[q] = "previous" /\ pkg'[q] = "rolled_back" BY <1>1 DEF Demote
<1> QED BY <1>1, <1>2, <1>3, CommitsStep DEF UiInv, UiRows, Demote, PackageStates, RowLocked

LEMMA RollbackUiStep ==
  ASSUME UiInv, NEW h \in UiRequests, RollbackUi(h)
  PROVE  UiInv'
<1>1. PICK p \in In("previous") :
        /\ \A q \in {p} \cup In("active") : ~RowLocked(q)
        /\ pkg' = [q \in Packages |-> IF q = p THEN "active"
                                      ELSE IF pkg[q] = "active" THEN "rolled_back"
                                      ELSE pkg[q]]
        /\ Commits(h, p) BY DEF RollbackUi
<1>2. req[h].pc = "idle" /\ p \in Packages /\ pkg[p] = "previous" BY <1>1 DEF RollbackUi, Accepts, In
<1>3. \A q \in Packages \ {p} :
            \/ pkg'[q] = pkg[q] /\ pkg[q] \notin {"active", "previous"}
            \/ pkg[q] = "active" /\ pkg'[q] \in {"previous", "rolled_back"}
            \/ pkg[q] = "previous" /\ pkg'[q] = "rolled_back" BY <1>1, <1>2 DEF UiInv, OneOfEach
<1>4. pkg'[p] = "active" /\ pkg[p] # "none" BY <1>1, <1>2
<1> QED BY <1>1, <1>2, <1>3, <1>4, CommitsStep DEF UiInv, UiRows, PackageStates, RowLocked

LEMMA WriteActiveStep ==
  ASSUME UiInv, NEW h \in UiRequests, WriteActive(h)
  PROVE  UiInv'
<1> DEFINE p == req[h].p
<1>1. /\ req[h].pc = "write" /\ req' = [req EXCEPT ![h] = Quiet] /\ active_ui' = p
      /\ page' = [page EXCEPT !.moved = @ \/ page.pc = "policy"]
      /\ UNCHANGED <<pkg, dirs, astray>> BY DEF WriteActive
<1>2. /\ req' \in [UiRequests -> UiRequestRows] /\ req'[h].pc = "idle"
      /\ \A k \in UiRequests \ {h} : req'[k] = req[k] BY <1>1, UiRequestEnds DEF UiInv
<1>3. p \in Packages BY <1>1, BusyRow DEF UiInv
<1>4. UiRows' BY <1>1, <1>2, <1>3 DEF UiInv, UiRows
<1>5. MemoryFollows' BY <1>1, <1>2, <1>3 DEF MemoryFollows, UiInv, OneOfEach
<1> QED BY <1>4, <1>5, <1>1, <1>2 DEF UiInv, RowsOnDisk, Busy, OneOfEach, PageAgrees, UiRows

LEMMA DeleteUiStep ==
  ASSUME UiInv, NEW h \in UiRequests, NEW p \in Packages, DeleteUi(h, p)
  PROVE  UiInv'
<1>1. /\ req[h].pc = "idle" /\ pkg[p] \notin {"none", "active"} /\ ~RowLocked(p)
      /\ req' = [req EXCEPT ![h] = [pc |-> "delete", p |-> p]]
      /\ UNCHANGED <<pkg, dirs, active_ui, page, astray>> BY DEF DeleteUi, Accepts, Present, DeletablePackage
<1>2. /\ req' \in [UiRequests -> UiRequestRows] /\ req'[h].pc = "delete" /\ req'[h].p = p
      /\ \A k \in UiRequests \ {h} : req'[k] = req[k] BY <1>1, RequestMoves DEF UiInv, Busy
<1>3. RowsOnDisk' BY <1>1, <1>2 DEF UiInv, RowsOnDisk, Busy, RowLocked
<1>4. MemoryFollows' BY <1>1, <1>2 DEF UiInv, MemoryFollows
<1> QED BY <1>3, <1>4, <1>1, <1>2 DEF UiInv, UiRows, OneOfEach, PageAgrees

LEMMA DeleteCommitStep ==
  ASSUME UiInv, NEW h \in UiRequests, DeleteCommit(h)
  PROVE  UiInv'
<1> DEFINE p == req[h].p
<1>1. /\ req[h].pc = "delete" /\ req' = [req EXCEPT ![h] = [pc |-> "rmdir", p |-> p]]
      /\ pkg' = [pkg EXCEPT ![p] = "none"] /\ UNCHANGED <<dirs, active_ui, page, astray>> BY DEF DeleteCommit
<1>2. p \in Packages /\ p \in dirs /\ pkg[p] \notin {"none", "active"} BY <1>1, BusyRow DEF UiInv, RowsOnDisk, Busy
<1>3. /\ req' \in [UiRequests -> UiRequestRows] /\ req'[h].pc = "rmdir" /\ req'[h].p = p
      /\ \A k \in UiRequests \ {h} : req'[k] = req[k] BY <1>1, <1>2, RequestMoves DEF UiInv, Busy
<1>4. /\ pkg' \in [Packages -> PackageStates] /\ pkg'[p] = "none"
      /\ \A q \in Packages \ {p} : pkg'[q] = pkg[q] BY <1>1, <1>2 DEF UiInv, UiRows, PackageStates
<1>5. \A k \in UiRequests \ {h} : req[k].pc \in Busy => req[k].p # p /\ req[k].p \in Packages
  BY <1>1, BusyRow DEF UiInv, RowsOnDisk, Busy
<1> HIDE DEF p
<1>6. RowsOnDisk' BY <1>1, <1>2, <1>3, <1>4, <1>5 DEF UiInv, RowsOnDisk, Busy
<1>7. MemoryFollows' BY <1>1, <1>2, <1>3, <1>4, BusyRow DEF UiInv, UiRows, MemoryFollows
<1> QED BY <1>6, <1>7, <1>1, <1>3, <1>4, <1>2 DEF UiInv, UiRows, OneOfEach, PageAgrees

LEMMA DeleteFilesStep ==
  ASSUME UiInv, NEW h \in UiRequests, DeleteFiles(h)
  PROVE  UiInv'
<1> DEFINE p == req[h].p
<1>1. /\ req[h].pc = "rmdir" /\ req' = [req EXCEPT ![h] = Quiet]
      /\ dirs' = dirs \ {p} /\ UNCHANGED <<pkg, active_ui, page, astray>> BY DEF DeleteFiles
<1>2. /\ req' \in [UiRequests -> UiRequestRows] /\ req'[h].pc = "idle"
      /\ \A k \in UiRequests \ {h} : req'[k] = req[k] BY <1>1, UiRequestEnds DEF UiInv
<1>3. pkg[p] = "none" /\ \A k \in UiRequests \ {h} : req[k].pc \in Busy => req[k].p # p
  BY <1>1 DEF UiInv, RowsOnDisk, Busy
<1> HIDE DEF p
<1>4. RowsOnDisk' BY <1>1, <1>2, <1>3 DEF UiInv, RowsOnDisk, Busy
<1>5. MemoryFollows' BY <1>1, <1>2 DEF UiInv, MemoryFollows
<1> QED BY <1>4, <1>5, <1>1, <1>2 DEF UiInv, UiRows, OneOfEach, PageAgrees

LEMMA RestartUiStep ==
  ASSUME UiInv, RestartUi
  PROVE  UiInv'
<1>1. /\ req' = [h \in UiRequests |-> Quiet] /\ active_ui' = LoadActiveUi /\ page' = NoPage
      /\ astray' = FALSE /\ UNCHANGED <<pkg, dirs>> BY DEF RestartUi
<1>2. IF In("active") = {} THEN LoadActiveUi = "none" ELSE LoadActiveUi \in In("active") BY DEF LoadActiveUi
<1>3. MemoryFollows'
  <2>1. active_ui' # "none" => pkg'[active_ui'] = "active" BY <1>1, <1>2 DEF In
  <2> QED BY <2>1, <1>1, <1>2 DEF MemoryFollows, Quiet, UiInv, OneOfEach, In
<1>4. PageAgrees' BY <1>1, UiAssumption DEF PageAgrees, NoPage
<1> QED BY <1>3, <1>4, <1>1, <1>2 DEF UiInv, UiRows, UiRequestRows, NoPage, In, OneOfEach, RowsOnDisk, Quiet, Busy

LEMMA DropUiStep ==
  ASSUME UiInv, NEW h \in UiRequests, DropUi(h)
  PROVE  UiInv'
<1>1. /\ req' = [req EXCEPT ![h] = Quiet] /\ astray' = (astray \/ req[h].pc = "write")
      /\ UNCHANGED <<pkg, dirs, active_ui, page>> BY DEF DropUi
<1>2. /\ req' \in [UiRequests -> UiRequestRows] /\ req'[h].pc = "idle"
      /\ \A k \in UiRequests \ {h} : req'[k] = req[k] BY <1>1, UiRequestEnds DEF UiInv
<1>3. RowsOnDisk' BY <1>1, <1>2 DEF UiInv, RowsOnDisk, Busy
<1>4. MemoryFollows' BY <1>1, <1>2 DEF UiInv, MemoryFollows
<1> QED BY <1>3, <1>4, <1>1, <1>2 DEF UiInv, UiRows, OneOfEach, PageAgrees

LEMMA PageSteps ==
  ASSUME UiInv, BuildPolicy \/ ServePage
  PROVE  UiInv'
<1>1. UNCHANGED <<pkg, dirs, active_ui, req, astray>> BY DEF BuildPolicy, ServePage
<1>2. OneOfEach' /\ RowsOnDisk' /\ MemoryFollows' BY <1>1 DEF UiInv, OneOfEach, RowsOnDisk, MemoryFollows
<1> DEFINE Pages == [pc : {"none", "policy", "served"}, policy : Packages \cup {"none"},
                     shows : Packages \cup {"none", "builtin", "recovery"}, moved : BOOLEAN]
<1>3. CASE BuildPolicy BY <1>1, <1>2, UiAssumption, <1>3 DEF UiInv, UiRows, PageAgrees, BuildPolicy, NoPage
<1>4. CASE ServePage BY <1>1, <1>2, <1>4, UiAssumption DEF UiInv, UiRows, PageAgrees, ServePage, Shown
<1> QED BY <1>3, <1>4

LEMMA AtMostOne ==
  ASSUME NEW S, \A x, y \in S : x = y
  PROVE  Cardinality(S) <= 1
<1>1. CASE S = {} BY <1>1, FS_EmptySet
<1>2. CASE S # {}
  <2>1. PICK x \in S : S = {x} BY <1>2
  <2> QED BY <2>1, FS_Singleton
<1> QED BY <1>1, <1>2

LEMMA UiAlways == UiSpec => [](UiServesActive /\ UiTypeOK)
<1>1. UiInv /\ [UiNext]_uvars => UiInv'
  <2> SUFFICES ASSUME UiInv, [UiNext]_uvars PROVE UiInv' OBVIOUS
  <2>1. CASE UNCHANGED uvars BY <2>1 DEF uvars, UiInv, UiRows, OneOfEach, RowsOnDisk, MemoryFollows, PageAgrees
  <2>2. CASE UiNext
    BY <2>2, InstallUiStep, InsertUiStep, ActivateUiStep, RollbackUiStep, WriteActiveStep, DeleteUiStep,
      DeleteCommitStep, DeleteFilesStep, DropUiStep, RestartUiStep, PageSteps DEF UiNext
  <2> QED BY <2>1, <2>2
<1>2. UiInv => UiServesActive
  <2> SUFFICES ASSUME UiInv PROVE UiServesActive OBVIOUS
  <2>1. Cardinality(In("active")) <= 1 /\ Cardinality(In("previous")) <= 1 BY AtMostOne DEF In, UiInv, OneOfEach
  <2>2. page.shows \in Packages /\ ~page.moved => page.policy = page.shows BY DEF UiInv, PageAgrees
  <2> QED BY <2>1, <2>2 DEF UiServesActive, In, UiInv, UiRows, MemoryFollows, OneOfEach, RowsOnDisk
<1>3. UiInv => UiTypeOK BY DEF UiInv, UiRows, PackageStates, UiTypeOK
<1> QED BY <1>1, <1>2, <1>3, UiInitInv, PTL DEF UiSpec

(***************************************************************************)
(* Sessions                                                                *)
(***************************************************************************)
SessionRows == [auth_epoch : Nat, expired : BOOLEAN, step_up : BOOLEAN]
AuthRows == [pc : {"idle", "setup", "login", "wrong"}]
            \cup [pc : {"revoke"}, list : SUBSET SessionIds] \cup [pc : {"stepup"}, s : SessionIds]
            \cup [pc : {"passkey"}, e : Nat] \cup [pc : {"method"}, m : {"password", "passkey"}]

SessionTypes ==
    /\ users \in {0, 1} /\ epoch \in Nat /\ methods \subseteq {"password", "passkey"}
    /\ sess \in [SessionIds -> SessionRows] /\ revoked \subseteq SessionIds
    /\ gone \subseteq SessionIds
    /\ areq \in [AuthRequests -> AuthRows]

\* No session and no login in progress is of an epoch still to come.
EpochsPast ==
    /\ \A s \in SessionIds : sess[s].auth_epoch <= epoch
    /\ \A q \in AuthRequests : areq[q].pc = "passkey" => areq[q].e <= epoch

\* What ended is deleted, revoked, expired or of an older epoch.
Ended(s) == sess[s] = NoSession \/ s \in revoked \/ sess[s].expired \/ sess[s].auth_epoch < epoch

SessionInv == SessionTypes /\ EpochsPast /\ \A s \in gone : Ended(s)

LEMMA SessionsInitInv == SessionsInit => SessionInv
<1> SUFFICES ASSUME SessionsInit PROVE SessionInv OBVIOUS
<1> USE DEF SessionsInit
<1> QED BY DEF SessionInv, SessionTypes, NoSession, SessionRows, AuthIdle, AuthRows, EpochsPast

\* A new session takes the id of none that has ended.
LEMMA NextIdIsNew ==
  ASSUME HasId
  PROVE  NextId \in SessionIds /\ sess[NextId] = NoSession /\ NextId \notin gone
<1> DEFINE free == {s \in SessionIds : sess[s] = NoSession /\ s \notin gone}
           R == OpToRel(<, Nat)
<1>1. free # {} /\ free \subseteq Nat BY SessionsAssumption DEF HasId
<1>2. IsWellFoundedOn(R, Nat) BY NatLessThanWellFounded
<1>3. \A x, y \in Nat : <<y, x>> \in R <=> y < x BY DEF OpToRel
<1> HIDE DEF R, free
<1>4. PICK s \in free : \A r \in free : ~(<<r, s>> \in R) BY <1>1, <1>2, WFMin
<1> QED BY <1>1, <1>3, <1>4 DEF NextId, free

\* Live is what require_user accepts.
LEMMA LiveIsAccepted == \A s \in SessionIds : s \in Live <=> RequireUser(s)
BY DEF Live, RequireUser

LEMMA AcceptedOrEnded ==
  ASSUME SessionTypes, EpochsPast, NEW s \in SessionIds
  PROVE  Ended(s) <=> ~RequireUser(s)
  BY DEF Ended, RequireUser, SessionTypes, SessionRows, EpochsPast

\* A request moves on; nothing else is touched that is looked at here.
LEMMA AuthStep ==
  ASSUME SessionInv, areq' \in [AuthRequests -> AuthRows],
         \A q \in AuthRequests : areq'[q].pc = "passkey" => areq'[q].e <= epoch,
         users' = users, methods' \subseteq {"password", "passkey"}, UNCHANGED <<epoch, sess, revoked, gone>>
  PROVE  SessionInv'
  BY DEF SessionInv, Ended, SessionTypes, EpochsPast

LEMMA ServedStep ==
  ASSUME SessionInv, NEW q \in AuthRequests, NEW r \in AuthRows, ServeAuth(q, r),
         r.pc = "passkey" => r.e <= epoch,
         users' = users, methods' = methods, UNCHANGED <<epoch, sess, revoked, gone>>
  PROVE  SessionInv'
  BY AuthStep DEF SessionInv, SessionTypes, EpochsPast, ServeAuth

LEMMA DoneRequest ==
  ASSUME SessionInv, NEW q \in AuthRequests, AuthDone(q)
  PROVE  /\ areq' \in [AuthRequests -> AuthRows]
         /\ \A p \in AuthRequests : areq'[p].pc = "passkey" =>
               areq[p].pc = "passkey" /\ areq'[p].e = areq[p].e
  BY DEF AuthIdle, AuthRows, AuthDone, SessionInv, SessionTypes

\* What a request does to the rows of sessions: a session that was accepted and
\* is not any more is recorded, and what ended stays ended.
LEMMA RowsStep ==
  ASSUME SessionInv, SessionTypes', EpochsPast',
         \A s \in gone : Ended(s)', Buried
  PROVE  SessionInv'
<1>1. ASSUME NEW s \in gone' PROVE Ended(s)'
  <2>1. CASE s \in gone BY <2>1
  <2>2. CASE s \notin gone
    <3>1. s \in SessionIds /\ ~RequireUser(s)' BY <2>2, <1>1 DEF Buried, Live, RequireUser
    <3> QED BY <3>1 DEF Ended, RequireUser, SessionTypes, SessionRows, EpochsPast
  <2> QED BY <2>1, <2>2
<1> QED BY <1>1 DEF SessionInv

LEMMA BuriedType ==
  ASSUME SessionInv, Buried
  PROVE  gone' \subseteq SessionIds
BY DEF Buried, Live, SessionInv, SessionTypes

\* A session is created, of this epoch or an older one.
LEMMA Created ==
  ASSUME SessionInv, NEW e \in Nat, e <= epoch, CreateSession(e), epoch' = epoch,
         revoked \subseteq revoked'
  PROVE  /\ sess' \in [SessionIds -> SessionRows]
         /\ \A s \in SessionIds : sess'[s].auth_epoch <= epoch'
         /\ \A s \in gone : Ended(s)'
         /\ NextId \in SessionIds /\ sess'[NextId].auth_epoch = e
<1> DEFINE n == NextId
<1>1. n \in SessionIds /\ sess[n] = NoSession /\ n \notin gone BY NextIdIsNew DEF CreateSession
<1>2. PICK x \in SessionRows : x = [auth_epoch |-> e, expired |-> FALSE, step_up |-> FALSE] BY DEF SessionRows
<1>3. x.auth_epoch = e BY <1>2
<1>4. sess' = [sess EXCEPT ![n] = x] BY <1>2 DEF CreateSession
<1> HIDE DEF n
<1>5. sess' \in [SessionIds -> SessionRows] /\ sess'[n] = x /\ \A s \in SessionIds \ {n} : sess'[s] = sess[s]
  BY <1>1, <1>4 DEF SessionInv, SessionTypes
<1> QED BY <1>1, <1>3, <1>5 DEF n, SessionInv, SessionTypes, Ended, EpochsPast

LEMMA SetupCommitStep ==
  ASSUME SessionInv, NEW q \in AuthRequests, SetupCommit(q)
  PROVE  SessionInv'
<1>1. /\ AuthDone(q) /\ UNCHANGED <<epoch, methods, revoked>> /\ Buried
      /\ \/ users > 0 /\ UNCHANGED <<users, sess>>
         \/ ~(users > 0) /\ users' = users + 1 /\ CreateSession(epoch) BY DEF SetupCommit
<1>2. epoch \in Nat /\ users \in {0, 1} BY DEF SessionInv, SessionTypes
<1>3. /\ sess' \in [SessionIds -> SessionRows]
      /\ \A s \in SessionIds : sess'[s].auth_epoch <= epoch'
      /\ \A s \in gone : Ended(s)'
  <2>1. CASE UNCHANGED sess BY <1>1, <2>1 DEF SessionInv, SessionTypes, EpochsPast, Ended
  <2>2. CASE CreateSession(epoch) BY <1>1, <1>2, <2>2, Created
  <2> QED BY <1>1, <2>1, <2>2
<1> QED BY <1>1, <1>3, RowsStep, DoneRequest, BuriedType, <1>2 DEF SessionInv, EpochsPast, SessionTypes

LEMMA LoginCommitStep ==
  ASSUME SessionInv, NEW q \in AuthRequests, LoginCommit(q)
  PROVE  SessionInv'
<1>1. /\ AuthDone(q) /\ UNCHANGED <<users, epoch, methods>> /\ Buried /\ CreateSession(epoch)
      /\ revoked' = revoked \cup (IF Cardinality(Counted4Limit) > SessionLimit THEN Stale ELSE {}) BY DEF LoginCommit
<1>2. revoked \subseteq revoked' /\ revoked' \subseteq SessionIds
  BY <1>1 DEF SessionInv, SessionTypes, Stale, Counted4Limit
<1>3. /\ sess' \in [SessionIds -> SessionRows]
      /\ \A s \in SessionIds : sess'[s].auth_epoch <= epoch'
      /\ \A s \in gone : Ended(s)' BY <1>1, <1>2, Created DEF SessionInv, SessionTypes
<1> QED BY <1>1, <1>3, RowsStep, <1>2, DoneRequest, BuriedType DEF SessionInv, SessionTypes, EpochsPast

LEMMA PasskeyCommitStep ==
  ASSUME SessionInv, NEW q \in AuthRequests, PasskeyCommit(q)
  PROVE  SessionInv'
<1> DEFINE e == areq[q].e
<1>1. /\ areq[q].pc = "passkey" /\ CreateSession(e) /\ AuthDone(q)
      /\ gone' = IF e = epoch THEN gone ELSE gone \cup {NextId}
      /\ UNCHANGED <<users, epoch, methods, revoked>> BY DEF PasskeyCommit, account
<1>2. e \in Nat /\ epoch \in Nat /\ e <= epoch BY <1>1 DEF AuthRows, SessionInv, SessionTypes, EpochsPast
<1> HIDE DEF e
<1>3. /\ sess' \in [SessionIds -> SessionRows]
      /\ \A s \in SessionIds : sess'[s].auth_epoch <= epoch'
      /\ \A s \in gone : Ended(s)'
      /\ NextId \in SessionIds /\ sess'[NextId].auth_epoch = e BY <1>1, <1>2, Created
<1>4. \A s \in gone' : Ended(s)' BY <1>1, <1>2, <1>3 DEF Ended
<1> QED BY <1>4, <1>1, <1>3, DoneRequest DEF SessionInv, SessionTypes, EpochsPast

\* Logout and expiry: the session ends and is recorded.
LEMMA SessionEndsStep ==
  ASSUME SessionInv, NEW s \in SessionIds, Logout(s) \/ SessionExpires(s)
  PROVE  SessionInv'
<1>1. /\ gone' = gone \cup {s} /\ UNCHANGED <<users, epoch, methods, revoked, areq>>
      /\ \/ sess' = [sess EXCEPT ![s] = NoSession]
         \/ sess' = [sess EXCEPT ![s].expired = TRUE] BY DEF Logout, SessionExpires, account
<1>2. PICK x \in SessionRows : /\ sess' = [sess EXCEPT ![s] = x]
                               /\ x = NoSession \/ x.expired
                               /\ x.auth_epoch <= epoch
  <2>1. sess[s] \in SessionRows /\ sess[s].auth_epoch <= epoch /\ epoch \in Nat
    BY DEF SessionInv, SessionTypes, EpochsPast
  <2>2. CASE sess' = [sess EXCEPT ![s] = NoSession]
    <3>1. NoSession \in SessionRows /\ NoSession.auth_epoch = 0 BY DEF NoSession, SessionRows
    <3>2. NoSession.auth_epoch <= epoch BY <2>1, <3>1
    <3> QED BY <2>2, <3>1, <3>2
  <2>3. CASE sess' = [sess EXCEPT ![s].expired = TRUE]
    <3>1. PICK x \in SessionRows : x = [sess[s] EXCEPT !.expired = TRUE] BY <2>1 DEF SessionRows
    <3> QED BY <2>1, <3>1, <2>3 DEF SessionRows
  <2> QED BY <1>1, <2>2, <2>3
<1>3. sess' \in [SessionIds -> SessionRows] /\ sess'[s] = x /\ \A r \in SessionIds \ {s} : sess'[r] = sess[r]
  BY <1>2 DEF SessionInv, SessionTypes
<1>4. \A r \in gone' : Ended(r)' BY <1>1, <1>2, <1>3 DEF SessionInv, SessionTypes, Ended
<1> QED BY <1>4, <1>1, <1>3, <1>2 DEF SessionInv, SessionTypes, EpochsPast

\* Rotation and revocation: no row of a session is written.
LEMMA RevokesStep ==
  ASSUME SessionInv, UNCHANGED <<users, methods, sess>>, Buried,
         epoch' \in Nat, epoch' >= epoch, revoked \subseteq revoked', revoked' \subseteq SessionIds,
         areq' \in [AuthRequests -> AuthRows],
         \A q \in AuthRequests : areq'[q].pc = "passkey" => areq[q].pc = "passkey" /\ areq'[q].e = areq[q].e
  PROVE  SessionInv'
<1>1. EpochsPast'
  <2>1. ASSUME NEW s \in SessionIds PROVE sess'[s].auth_epoch <= epoch'
    BY DEF SessionInv, SessionTypes, SessionRows, EpochsPast
  <2>2. ASSUME NEW q \in AuthRequests, areq'[q].pc = "passkey" PROVE areq'[q].e <= epoch'
    BY <2>2 DEF SessionInv, SessionTypes, AuthRows, EpochsPast
  <2> QED BY <2>1, <2>2 DEF EpochsPast
<1> QED BY <1>1, RowsStep, BuriedType DEF SessionInv, SessionTypes, SessionRows, Ended

LEMMA MarkStepUpStep ==
  ASSUME SessionInv, NEW q \in AuthRequests, MarkStepUp(q)
  PROVE  SessionInv'
<1> DEFINE s == areq[q].s
<1>1. /\ AuthDone(q) /\ areq[q].pc = "stepup" /\ UNCHANGED <<users, epoch, methods, revoked, gone>>
      /\ sess' = IF sess[s] = NoSession THEN sess ELSE [sess EXCEPT ![s].step_up = TRUE] BY DEF MarkStepUp, account
<1>2. s \in SessionIds BY <1>1 DEF AuthRows, SessionInv, SessionTypes
<1>3. sess \in [SessionIds -> SessionRows] BY DEF SessionInv, SessionTypes
<1> HIDE DEF s
<1>4. /\ sess' \in [SessionIds -> SessionRows]
      /\ \A r \in SessionIds : /\ sess'[r].auth_epoch = sess[r].auth_epoch
                               /\ sess'[r].expired = sess[r].expired
                               /\ sess[r] = NoSession => sess'[r] = NoSession
  <2>1. CASE sess[s] = NoSession BY <1>1, <1>3, <2>1
  <2>2. CASE sess[s] # NoSession
    <3>1. PICK x \in SessionRows : x = [sess[s] EXCEPT !.step_up = TRUE] BY <1>2, <1>3 DEF SessionRows
    <3> QED BY <1>2, <1>3, <2>2, <3>1, <1>1 DEF SessionRows
  <2> QED BY <2>1, <2>2
<1>5. \A r \in gone' : Ended(r)' BY <1>1, <1>4 DEF SessionInv, SessionTypes, Ended
<1> QED BY <1>5, <1>1, <1>4, DoneRequest DEF SessionInv, SessionTypes, EpochsPast

\* A request is served: it looks at a session or a method, and writes nothing.
LEMMA ServesStep ==
  ASSUME SessionInv, NEW q \in AuthRequests,
         \/ SetupStart(q) \/ LoginStart(q, TRUE) \/ LoginStart(q, FALSE) \/ PasskeyVerified(q)
         \/ \E s \in SessionIds : RevokeStart(q, s) \/ StepUpStart(q, s)
         \/ \E m \in methods : DeleteMethod(q, m)
  PROVE  SessionInv'
<1>1. \E r \in AuthRows : ServeAuth(q, r) /\ (r.pc = "passkey" => r.e <= epoch)
  <2>1. CASE SetupStart(q) BY <2>1 DEF SetupStart, AuthRows
  <2>2. CASE LoginStart(q, TRUE) BY <2>2 DEF LoginStart, AuthRows
  <2>3. CASE LoginStart(q, FALSE) BY <2>3 DEF LoginStart, AuthRows
  <2>4. CASE PasskeyVerified(q)
    <3>1. epoch \in Nat BY DEF SessionInv, SessionTypes
    <3>2. PICK r \in AuthRows : r = [pc |-> "passkey", e |-> epoch] BY <3>1 DEF AuthRows
    <3> QED BY <2>4, <3>1, <3>2 DEF PasskeyVerified
  <2>5. ASSUME NEW s \in SessionIds, RevokeStart(q, s) \/ StepUpStart(q, s)
        PROVE  \E r \in AuthRows : ServeAuth(q, r) /\ (r.pc = "passkey" => r.e <= epoch)
    <3>1. CASE RevokeStart(q, s)
      <4> DEFINE all == {r \in SessionIds : sess[r] # NoSession} \ {s}
      <4>1. all \in SUBSET SessionIds OBVIOUS
      <4> HIDE DEF all
      <4> QED BY <3>1, <4>1 DEF RevokeStart, all, AuthRows
    <3>2. CASE StepUpStart(q, s) BY <3>2 DEF StepUpStart, AuthRows
    <3> QED BY <2>5, <3>1, <3>2
  <2>6. ASSUME NEW m \in methods, DeleteMethod(q, m)
        PROVE  \E r \in AuthRows : ServeAuth(q, r) /\ (r.pc = "passkey" => r.e <= epoch)
    <3>1. [pc |-> "method", m |-> m] \in AuthRows BY DEF AuthRows, SessionInv, SessionTypes
    <3> QED BY <2>6, <3>1 DEF DeleteMethod
  <2> QED BY <2>1, <2>2, <2>3, <2>4, <2>5, <2>6
<1> QED
  BY <1>1, ServedStep DEF SetupStart, LoginStart, PasskeyVerified, RevokeStart, StepUpStart, DeleteMethod, account

LEMMA SessionsStep == SessionInv /\ [SessionsNext]_avars => SessionInv'
<1> SUFFICES ASSUME SessionInv, [SessionsNext]_avars PROVE SessionInv' OBVIOUS
<1>1. CASE UNCHANGED avars BY <1>1 DEF avars, SessionInv, SessionTypes, EpochsPast, Ended
<1>2. ASSUME NEW q \in AuthRequests, LoginFails(q) \/ MethodDeleted(q) PROVE SessionInv'
  BY DoneRequest, AuthStep, <1>2 DEF SessionInv, SessionTypes, EpochsPast, LoginFails, MethodDeleted
<1>3. ASSUME NEW q \in AuthRequests, RevokeOthers(q) PROVE SessionInv'
  <2>1. areq[q].list \subseteq SessionIds BY <1>3 DEF AuthRows, RevokeOthers, SessionInv, SessionTypes
  <2> QED BY DoneRequest, RevokesStep, <1>3, <2>1 DEF SessionInv, SessionTypes, RevokeOthers
<1>4. ASSUME NEW s \in SessionIds, RevokeOne(s) PROVE SessionInv'
  BY RevokesStep, <1>4 DEF SessionInv, SessionTypes, RevokeOne
<1>5. CASE RotateSessions BY RevokesStep, <1>5 DEF SessionInv, SessionTypes, RotateSessions
<1>6. CASE RegisterStart \/ RegisterComplete \/ PasskeyStart \/ WindowMoves
  BY AuthStep, <1>6 DEF SessionInv, SessionTypes, EpochsPast, RegisterStart, RegisterComplete, PasskeyStart,
    WindowMoves
<1> QED
  BY <1>1, <1>2, <1>3, <1>4, <1>5, <1>6, ServesStep, SetupCommitStep, LoginCommitStep, PasskeyCommitStep,
    MarkStepUpStep, SessionEndsStep DEF SessionsNext

\* The counters stop at their limits, and only an account can be locked.
LoginsCounted ==
    /\ failures \in 0 .. FailureLimit /\ attempts \in 0 .. ThrottleLimit
    /\ locked => users > 0
    /\ \A q \in AuthRequests : areq[q].pc \in {"login", "wrong"} => users > 0

LEMMA LoginsCountedStay ==
  ASSUME SessionInv, LoginsCounted, [SessionsNext]_avars
  PROVE  LoginsCounted'
<1>1. areq \in [AuthRequests -> AuthRows] /\ users \in {0, 1} BY DEF SessionInv, SessionTypes
<1>2. ASSUME RecordAttempt
      PROVE  attempts' \in 0 .. ThrottleLimit BY <1>2, SessionsAssumption DEF RecordAttempt, LoginsCounted
<1>3. ASSUME UNCHANGED <<failures, attempts, locked, areq>>, users' = users \/ users' = users + 1
      PROVE  LoginsCounted' BY <1>1, <1>3 DEF LoginsCounted
<1>4. ASSUME NEW q \in AuthRequests, areq' = [areq EXCEPT ![q] = AuthIdle],
             users' = users \/ users' = users + 1,
             locked' => users > 0,
             failures' \in 0 .. FailureLimit, attempts' \in 0 .. ThrottleLimit
      PROVE  LoginsCounted' BY <1>4, <1>1 DEF LoginsCounted, AuthIdle
<1>5. ASSUME NEW q \in AuthRequests, NEW r, ServeAuth(q, r), r.pc \in {"login", "wrong"} => users > 0,
             UNCHANGED <<users, failures, attempts, locked>>
      PROVE  LoginsCounted' BY <1>1, <1>5 DEF LoginsCounted, ServeAuth
<1>6. ASSUME NEW q \in AuthRequests,
             \/ SetupStart(q) \/ LoginStart(q, TRUE) \/ LoginStart(q, FALSE) \/ PasskeyVerified(q)
             \/ \E s \in SessionIds : RevokeStart(q, s) \/ StepUpStart(q, s)
             \/ \E m \in methods : DeleteMethod(q, m)
      PROVE  LoginsCounted'
  <2>1. CASE SetupStart(q) BY <1>5, <2>1 DEF SetupStart, account
  <2>2. CASE LoginStart(q, TRUE) \/ LoginStart(q, FALSE) BY <1>5, <2>2 DEF LoginStart, account
  <2>3. CASE PasskeyVerified(q) BY <1>5, <2>3 DEF PasskeyVerified
  <2>4. ASSUME NEW s \in SessionIds, RevokeStart(q, s)
        PROVE  LoginsCounted' BY <1>5, <2>4 DEF RevokeStart, account
  <2>5. ASSUME NEW s \in SessionIds, StepUpStart(q, s)
        PROVE  LoginsCounted' BY <1>5, <2>5 DEF StepUpStart, account
  <2>6. ASSUME NEW m \in methods, DeleteMethod(q, m)
        PROVE  LoginsCounted' BY <1>5, <2>6 DEF DeleteMethod, account
  <2> QED BY <1>6, <2>1, <2>2, <2>3, <2>4, <2>5, <2>6
<1>7. ASSUME NEW q \in AuthRequests, RevokeOthers(q) \/ MarkStepUp(q) \/ PasskeyCommit(q) \/ MethodDeleted(q)
      PROVE  LoginsCounted'
  BY <1>4, <1>7 DEF AuthDone, LoginsCounted, RevokeOthers, MarkStepUp, PasskeyCommit, MethodDeleted, account
<1>8. ASSUME NEW q \in AuthRequests, SetupCommit(q)
      PROVE  LoginsCounted' BY <1>4, <1>2, <1>8 DEF AuthDone, LoginsCounted, SetupCommit
<1>9. ASSUME NEW q \in AuthRequests, LoginFails(q)
      PROVE  LoginsCounted'
  <2>1. /\ AuthDone(q) /\ RecordAttempt /\ UNCHANGED users /\ areq[q].pc = "wrong"
        /\ failures' = IF failures < FailureLimit THEN failures + 1 ELSE failures BY <1>9 DEF LoginFails
  <2> QED BY <1>2, <1>4, <2>1, SessionsAssumption DEF AuthDone, LoginsCounted
<1>10. ASSUME NEW q \in AuthRequests, LoginCommit(q)
       PROVE  LoginsCounted'
  <2>1. 0 \in 0 .. FailureLimit BY SessionsAssumption
  <2> QED BY <1>2, <1>4, <2>1, <1>10 DEF AuthDone, LoginCommit
<1>11. ASSUME NEW s \in SessionIds, Logout(s) \/ SessionExpires(s) \/ RevokeOne(s)
       PROVE  LoginsCounted' BY <1>3, <1>11 DEF Logout, SessionExpires, RevokeOne, account
<1>12. CASE RegisterStart \/ RegisterComplete \/ RotateSessions \/ PasskeyStart
  BY <1>3, <1>12 DEF RegisterStart, RegisterComplete, RotateSessions, PasskeyStart
<1>13. CASE WindowMoves
  <2>1. attempts' = 0 /\ locked' \in {locked, FALSE} /\ UNCHANGED <<users, failures, areq>> BY <1>13 DEF WindowMoves
  <2>2. 0 \in 0 .. ThrottleLimit BY SessionsAssumption
  <2>3. CASE locked' = locked BY <1>1, <2>1, <2>2, <2>3 DEF LoginsCounted
  <2>4. CASE ~locked' BY <1>1, <2>1, <2>2, <2>4 DEF LoginsCounted
  <2> QED BY <2>1, <2>3, <2>4
<1>14. CASE UNCHANGED avars BY <1>3, <1>14 DEF avars
<1> QED BY <1>6, <1>7, <1>8, <1>9, <1>10, <1>11, <1>12, <1>13, <1>14 DEF SessionsNext

LEMMA SessionsAlways == SessionsSpec => [](EndedSessionsStayEnded /\ SessionsTypeOK)
<1>1. SessionInv => EndedSessionsStayEnded
  <2> SUFFICES ASSUME SessionInv PROVE EndedSessionsStayEnded OBVIOUS
  <2> QED BY AcceptedOrEnded DEF EndedSessionsStayEnded, SessionInv, SessionTypes
<1>2. SessionsInit => SessionInv /\ LoginsCounted
  BY SessionsInitInv, SessionsAssumption DEF SessionsInit, LoginsCounted, AuthIdle
<1>3. SessionInv /\ LoginsCounted /\ [SessionsNext]_avars => (SessionInv /\ LoginsCounted)'
  BY SessionsStep, LoginsCountedStay
<1>4. SessionInv /\ LoginsCounted => SessionsTypeOK BY DEF SessionInv, SessionTypes, LoginsCounted, SessionsTypeOK
<1> QED BY <1>1, <1>2, <1>3, <1>4, PTL DEF SessionsSpec

(***************************************************************************)
(* WebChat                                                                 *)
(***************************************************************************)
\* The least number of a set, as a witness.
LEMMA LeastNumber ==
  ASSUME NEW S, S \subseteq Nat, S # {}
  PROVE  \E n \in S : \A m \in S : n <= m
<1> DEFINE R == OpToRel(<, Nat)
<1>1. IsWellFoundedOn(R, Nat) BY NatLessThanWellFounded
<1> HIDE DEF R
<1>2. PICK n \in S : \A m \in S : ~(<<m, n>> \in R) BY <1>1, WFMin
<1>3. \A m \in S : ~(m < n) BY <1>2 DEF R, OpToRel
<1>4. \A m \in S : n <= m BY <1>3
<1> QED BY <1>4

-----------------------------------------------------------------------------
(* The chat page: texts and lists *)

\* What holds at the first number of a stretch, and at the next one whenever it
\* holds at a number, holds everywhere in it.
LEMMA Onward ==
  ASSUME NEW a \in Nat, NEW b \in Nat, NEW G, a \in G,
         \A k \in (a + 1) .. b : k - 1 \in G => k \in G
  PROVE  \A k \in a .. b : k \in G
<1> DEFINE Missed == {k \in a .. b : k \notin G}
<1>1. SUFFICES Missed = {} OBVIOUS
<1>2. SUFFICES ASSUME Missed # {} PROVE FALSE OBVIOUS
<1>3. Missed \subseteq Nat OBVIOUS
<1>4. PICK k \in Missed : \A m \in Missed : k <= m
  <2> HIDE DEF Missed
  <2> QED BY <1>2, <1>3, LeastNumber
<1>5. k \in a .. b /\ k \notin G /\ k # a BY <1>4
<1>6. k \in (a + 1) .. b /\ k - 1 \in a .. b /\ ~(k <= k - 1) BY <1>5
<1>7. k - 1 \notin Missed
  <2> HIDE DEF Missed
  <2> QED BY <1>4, <1>6
<1> QED BY <1>5, <1>6, <1>7

\* The texts after each event, from one cursor to another.
Unfolds(f, text, r, log, a, b) ==
    f[a] = text /\ \A k \in (a + 1) .. b : f[k] = TextAfter(f[k - 1], log, r, k)

LEMMA UnfoldsSomehow ==
  ASSUME NEW a \in Nat, NEW b \in Nat, a <= b, NEW text, NEW r, NEW log
  PROVE  \E f : DOMAIN f = a .. b /\ Unfolds(f, text, r, log, a, b)
<1> DEFINE G == {k \in a .. b : \E f : DOMAIN f = a .. k /\ Unfolds(f, text, r, log, a, k)}
<1>1. a \in G
  <2>1. Unfolds([i \in a .. a |-> text], text, r, log, a, a) BY DEF Unfolds
  <2>2. a \in a .. b OBVIOUS
  <2> QED BY <2>1, <2>2
<1>2. ASSUME NEW k \in (a + 1) .. b, k - 1 \in G PROVE k \in G
  <2>1. PICK f : DOMAIN f = a .. (k - 1) /\ Unfolds(f, text, r, log, a, k - 1) BY <1>2
  <2>2. k \in Nat /\ k \in a .. b /\ a <= k - 1 /\ k - 1 \in Nat OBVIOUS
  <2> DEFINE g == [i \in a .. k |-> IF i = k THEN TextAfter(f[k - 1], log, r, k) ELSE f[i]]
  <2>3. \A i \in a .. (k - 1) : g[i] = f[i] BY <2>2
  <2>4. g[k] = TextAfter(f[k - 1], log, r, k) BY <2>2
  <2>5. DOMAIN g = a .. k OBVIOUS
  <2> HIDE DEF g
  <2>6. g[a] = text BY <2>1, <2>3, <2>2 DEF Unfolds
  <2>7. ASSUME NEW i \in (a + 1) .. k PROVE g[i] = TextAfter(g[i - 1], log, r, i)
    <3>1. CASE i = k BY <2>4, <3>1, <2>3, <2>2
    <3>2. CASE i # k
      <4>1. i \in (a + 1) .. (k - 1) /\ i \in a .. (k - 1) /\ i - 1 \in a .. (k - 1) BY <2>2, <3>2
      <4> QED BY <2>3, <4>1, <2>1 DEF Unfolds
    <3> QED BY <3>1, <3>2
  <2> QED BY <2>2, <2>5, <2>6, <2>7 DEF Unfolds
<1>3. b \in G
  <2> HIDE DEF G
  <2> QED BY <1>1, <1>2, Onward
<1> QED BY <1>3

LEMMA StreamedUnfolds ==
  ASSUME NEW a \in Nat, NEW b \in Nat, a <= b, NEW text, NEW r, NEW log
  PROVE  \E f : Unfolds(f, text, r, log, a, b) /\ Streamed(text, r, log, a, b) = f[b]
<1> DEFINE Is(f) == f = [k \in a .. b |-> IF k = a THEN text ELSE TextAfter(f[k - 1], log, r, k)]
<1>1. PICK f : DOMAIN f = a .. b /\ Unfolds(f, text, r, log, a, b) BY UnfoldsSomehow
<1> DEFINE h == [k \in a .. b |-> f[k]]
<1>2. \A k \in a .. b : h[k] = f[k] OBVIOUS
<1>3. h = [k \in a .. b |-> h[k]] OBVIOUS
<1> HIDE DEF h
<1>4. ASSUME NEW k \in a .. b PROVE h[k] = IF k = a THEN text ELSE TextAfter(h[k - 1], log, r, k)
  <2>1. CASE k = a BY <1>1, <1>2, <2>1 DEF Unfolds
  <2>2. CASE k # a
    <3>1. k \in (a + 1) .. b /\ k - 1 \in a .. b BY <2>2
    <3> QED BY <2>2, <1>2, <3>1, <1>1 DEF Unfolds
  <2> QED BY <2>1, <2>2
<1>5. Is(h) BY <1>3, <1>4
<1> DEFINE after == CHOOSE g : Is(g)
<1>6. Is(after)
  <2> HIDE DEF Is
  <2> QED BY <1>5
<1>7. Streamed(text, r, log, a, b) = after[b] BY DEF Streamed
<1> HIDE DEF after
<1>8. \A k \in a .. b : after[k] = IF k = a THEN text ELSE TextAfter(after[k - 1], log, r, k) BY <1>6
<1>9. Unfolds(after, text, r, log, a, b)
  <2>1. after[a] = text BY <1>8
  <2>2. ASSUME NEW k \in (a + 1) .. b PROVE after[k] = TextAfter(after[k - 1], log, r, k) BY <1>8
  <2> QED BY <2>1, <2>2 DEF Unfolds
<1> QED BY <1>7, <1>9

\* Events of which one log has what the other has make the same text.
LEMMA UnfoldAlike ==
  ASSUME NEW a \in Nat, NEW b \in Nat, a <= b, NEW text, NEW r, NEW log, NEW other, NEW f, NEW g,
         Unfolds(f, text, r, log, a, b), Unfolds(g, text, r, other, a, b),
         \A k \in (a + 1) .. b : log[k] = other[k]
  PROVE  f[b] = g[b]
<1> DEFINE G == {k \in a .. b : f[k] = g[k]}
<1>1. a \in G BY DEF Unfolds
<1>2. ASSUME NEW k \in (a + 1) .. b, k - 1 \in G PROVE k \in G
  <2>1. f[k] = TextAfter(f[k - 1], log, r, k) /\ g[k] = TextAfter(g[k - 1], other, r, k) /\ log[k] = other[k]
    BY DEF Unfolds
  <2> QED BY <2>1, <1>2 DEF TextAfter
<1>3. \A k \in a .. b : k \in G
  <2> HIDE DEF G
  <2> QED BY <1>1, <1>2, Onward
<1> QED BY <1>3

LEMMA UnfoldOnce ==
  ASSUME NEW a \in Nat, NEW b \in Nat, a <= b, NEW text, NEW r, NEW log, NEW f, NEW g,
         Unfolds(f, text, r, log, a, b), Unfolds(g, text, r, log, a, b)
  PROVE  f[b] = g[b]
<1>1. PICK other : other = log OBVIOUS
<1> QED BY UnfoldAlike, <1>1

LEMMA UnfoldParts ==
  ASSUME NEW a \in Nat, NEW c \in Nat, NEW b \in Nat, a <= c, c <= b, NEW text, NEW r, NEW log, NEW f,
         Unfolds(f, text, r, log, a, b)
  PROVE  Unfolds(f, text, r, log, a, c) /\ Unfolds(f, f[c], r, log, c, b)
  BY DEF Unfolds

LEMMA StreamedNothing ==
  ASSUME NEW a \in Nat, NEW text, NEW r, NEW log
  PROVE  Streamed(text, r, log, a, a) = text
<1>1. PICK f : Unfolds(f, text, r, log, a, a) /\ Streamed(text, r, log, a, a) = f[a] BY StreamedUnfolds
<1> QED BY <1>1 DEF Unfolds

LEMMA StreamedAlike ==
  ASSUME NEW a \in Nat, NEW b \in Nat, a <= b, NEW text, NEW r, NEW log, NEW other,
         \A k \in (a + 1) .. b : log[k] = other[k]
  PROVE  Streamed(text, r, log, a, b) = Streamed(text, r, other, a, b)
<1>1. PICK f : Unfolds(f, text, r, log, a, b) /\ Streamed(text, r, log, a, b) = f[b] BY StreamedUnfolds
<1>2. PICK g : Unfolds(g, text, r, other, a, b) /\ Streamed(text, r, other, a, b) = g[b] BY StreamedUnfolds
<1> QED BY <1>1, <1>2, UnfoldAlike

\* One page of events after another is as good as both at once.
LEMMA StreamedOn ==
  ASSUME NEW a \in Nat, NEW c \in Nat, NEW b \in Nat, a <= c, c <= b, NEW text, NEW r, NEW log
  PROVE  Streamed(Streamed(text, r, log, a, c), r, log, c, b) = Streamed(text, r, log, a, b)
<1>1. PICK f : Unfolds(f, text, r, log, a, b) /\ Streamed(text, r, log, a, b) = f[b] BY StreamedUnfolds
<1>2. PICK e : Unfolds(e, text, r, log, a, c) /\ Streamed(text, r, log, a, c) = e[c] BY StreamedUnfolds
<1>3. PICK g : Unfolds(g, e[c], r, log, c, b) /\ Streamed(e[c], r, log, c, b) = g[b] BY StreamedUnfolds
<1>4. Unfolds(f, e[c], r, log, c, b) BY <1>2, UnfoldOnce, <1>1, UnfoldParts
<1> QED BY <1>1, <1>2, <1>3, <1>4, UnfoldOnce

LEMMA StreamedType ==
  ASSUME NEW a \in Nat, NEW b \in Nat, a <= b, NEW text \in Seq(Nat \X Nat), NEW r \in Nat, NEW log
  PROVE  Streamed(text, r, log, a, b) \in Seq(Nat \X Nat)
<1> DEFINE T == Seq(Nat \X Nat)
<1>1. PICK f : Unfolds(f, text, r, log, a, b) /\ Streamed(text, r, log, a, b) = f[b] BY StreamedUnfolds
<1> DEFINE G == {k \in a .. b : f[k] \in T}
<1>2. a \in G BY <1>1 DEF Unfolds
<1>3. ASSUME NEW k \in (a + 1) .. b, k - 1 \in G PROVE k \in G
  <2>1. f[k - 1] \in T /\ k \in a .. b /\ k \in Nat BY <1>3
  <2>2. << >> \in T OBVIOUS
  <2>3. Append(f[k - 1], <<r, k>>) \in T BY <2>1
  <2>4. f[k] = TextAfter(f[k - 1], log, r, k) BY <1>1 DEF Unfolds
  <2> HIDE DEF T
  <2>5. f[k] \in T
    <3>1. CASE log[k] \in Wipes BY <2>2, <2>4, <3>1 DEF TextAfter, Wipes
    <3>2. CASE log[k] = "delta"
      <4>1. TextAfter(f[k - 1], log, r, k) = Append(f[k - 1], <<r, k>>) BY <3>2 DEF TextAfter, Wipes
      <4> QED BY <2>3, <2>4, <4>1
    <3>3. CASE log[k] \notin Wipes /\ log[k] # "delta" BY <2>1, <2>4, <3>3 DEF TextAfter
    <3> QED BY <3>1, <3>2, <3>3
  <2> QED BY <2>1, <2>5
<1>4. b \in G
  <2> HIDE DEF G
  <2>1. \A k \in a .. b : k \in G BY <1>2, <1>3, Onward
  <2> QED BY <2>1
<1> QED BY <1>1, <1>4

\* What list_messages answers, message by message.
LEMMA TranscriptLists ==
  ASSUME NEW c, Len(turns) \in Nat
  PROVE  /\ Transcript(c) \in Seq(1 .. 2 * Len(turns))
         /\ \A i \in 1 .. Len(Transcript(c)) : InTranscript(c, Transcript(c)[i])
<1> DEFINE N == 2 * Len(turns)
           T == 1 .. N
           Good(s) == s \in Seq(T) /\ \A i \in 1 .. Len(s) : InTranscript(c, s[i])
           Take(before, k) == IF InTranscript(c, k) THEN Append(before, k) ELSE before
           Fits(f, n) == f[0] = << >> /\ \A k \in 1 .. n : f[k] = Take(f[k - 1], k)
           G == {n \in 0 .. N : \E f : DOMAIN f = 0 .. n /\ Fits(f, n)}
<1>1. N \in Nat OBVIOUS
<1> HIDE DEF N
<1>2. 0 \in G
  <2>1. Fits([i \in 0 .. 0 |-> << >>], 0) OBVIOUS
  <2>2. 0 \in 0 .. N BY <1>1
  <2> QED BY <2>1, <2>2
<1>3. ASSUME NEW k \in 1 .. N, k - 1 \in G PROVE k \in G
  <2>1. PICK f : DOMAIN f = 0 .. (k - 1) /\ Fits(f, k - 1) BY <1>3
  <2>2. k \in Nat /\ k \in 0 .. N /\ k - 1 \in Nat BY <1>1
  <2> DEFINE g == [i \in 0 .. k |-> IF i = k THEN Take(f[k - 1], k) ELSE f[i]]
  <2>3. \A i \in 0 .. (k - 1) : g[i] = f[i] BY <2>2
  <2>4. g[k] = Take(f[k - 1], k) BY <2>2
  <2>5. DOMAIN g = 0 .. k OBVIOUS
  <2> HIDE DEF g, Take
  <2>6. g[0] = << >> BY <2>1, <2>3, <2>2
  <2>7. ASSUME NEW i \in 1 .. k PROVE g[i] = Take(g[i - 1], i)
    <3>1. CASE i = k BY <2>4, <3>1, <2>3, <2>2
    <3>2. CASE i # k
      <4>1. i \in 1 .. (k - 1) /\ i \in 0 .. (k - 1) /\ i - 1 \in 0 .. (k - 1) BY <2>2, <3>2
      <4> QED BY <2>3, <4>1, <2>1
    <3> QED BY <3>1, <3>2
  <2> QED BY <2>2, <2>5, <2>6, <2>7
<1>4. N \in G
  <2>1. N \in 0 .. N /\ 0 \in Nat BY <1>1
  <2> HIDE DEF G
  <2>2. \A k \in 0 .. N : k \in G BY <1>1, <1>2, <2>1, Onward, <1>3
  <2> QED BY <2>1, <2>2
<1>5. PICK f : DOMAIN f = 0 .. N /\ Fits(f, N) BY <1>4
<1> DEFINE Is(h) == h = [i \in 0 .. N |-> IF i = 0 THEN << >> ELSE IF InTranscript(c, i) THEN Append(h[i - 1], i) ELSE h[i - 1]]
           h == [i \in 0 .. N |-> f[i]]
<1>6. \A i \in 0 .. N : h[i] = f[i] OBVIOUS
<1>7. h = [i \in 0 .. N |-> h[i]] OBVIOUS
<1> HIDE DEF h
<1>8. ASSUME NEW i \in 0 .. N
      PROVE  h[i] = IF i = 0 THEN << >> ELSE IF InTranscript(c, i) THEN Append(h[i - 1], i) ELSE h[i - 1]
  <2>1. CASE i = 0 BY <1>5, <1>6, <2>1
  <2>2. CASE i # 0
    <3>1. i \in 1 .. N /\ i - 1 \in 0 .. N BY <1>1, <2>2
    <3> QED BY <2>2, <1>6, <3>1, <1>5
  <2> QED BY <2>1, <2>2
<1>9. Is(h) BY <1>7, <1>8
<1> DEFINE upto == CHOOSE g : Is(g)
<1>10. Is(upto)
  <2> HIDE DEF Is
  <2> QED BY <1>9
<1>11. Transcript(c) = upto[N] BY DEF Transcript, N
<1> HIDE DEF upto
<1>12. \A i \in 0 .. N : upto[i] = IF i = 0 THEN << >> ELSE Take(upto[i - 1], i) BY <1>10
<1> DEFINE Ok == {i \in 0 .. N : Good(upto[i])}
<1>13. 0 \in Ok
  <2>1. 0 \in 0 .. N BY <1>1
  <2>2. Good(<< >>) OBVIOUS
  <2> QED BY <2>1, <2>2, <1>12
<1>14. ASSUME NEW k \in 1 .. N, k - 1 \in Ok PROVE k \in Ok
  <2>1. k \in 0 .. N /\ k # 0 /\ k \in T BY <1>1
  <2>2. PICK s \in Seq(T) : s = upto[k - 1] BY <1>14
  <2>3. \A i \in 1 .. Len(s) : InTranscript(c, s[i]) BY <1>14, <2>2
  <2>4. Good(Take(s, k))
    <3>1. CASE InTranscript(c, k)
      <4>1. Append(s, k) \in Seq(T)
        <5> HIDE DEF T
        <5> QED BY <2>1
      <4>2. PICK u \in Seq(T) : u = Append(s, k) BY <4>1
      <4>3. Len(u) = Len(s) + 1 /\ u[Len(s) + 1] = k /\ \A i \in 1 .. Len(s) : u[i] = s[i] BY <4>2
      <4>4. \A i \in 1 .. Len(u) : InTranscript(c, u[i])
        <5> TAKE i \in 1 .. Len(u)
        <5>1. CASE i = Len(s) + 1 BY <3>1, <4>3, <5>1
        <5>2. CASE i # Len(s) + 1 BY <2>3, <4>3, <5>2
        <5> QED BY <5>1, <5>2
      <4> QED BY <3>1, <4>2, <4>4
    <3>2. CASE ~InTranscript(c, k) BY <2>3, <3>2
    <3> QED BY <3>1, <3>2
  <2> QED BY <2>1, <2>2, <2>4, <1>12
<1>15. N \in Ok
  <2>1. N \in 0 .. N /\ 0 \in Nat BY <1>1
  <2> HIDE DEF Ok
  <2>2. \A k \in 0 .. N : k \in Ok BY <1>1, <1>13, <2>1, Onward, <1>14
  <2> QED BY <2>1, <2>2
<1> QED BY <1>11, <1>15 DEF N

-----------------------------------------------------------------------------
(* The chat page: the invariant *)

SomeUser == People \cup {Nobody}
SomeChat == Chats \cup {NoChat}
SubRow   == [user : SomeUser, chat : SomeChat, id : Nat, text : Typed \cup {""}]
StoredRun == [user : SomeUser, chat : SomeChat, run : Nat]
TabRow   == [pending : SubRow, run : StoredRun]
ChatRow  == [user : SomeUser, life : Nat, leaving : BOOLEAN, selected : SomeChat,
             messages : Seq(Nat), draft : Typed \cup {""}, streamed : Seq(Nat \X Nat),
             active_run : Nat, resolving_run : BOOLEAN, submitting : BOOLEAN,
             pending : SubRow, generation : Nat]
TaskKinds == {"load", "resolve", "create", "send", "follow", "status", "reload"}
ChatTaskRow ==
    [kind : TaskKinds, life : Nat, gen : Nat, chat : SomeChat, run : Nat, sub : SubRow,
     pc : {"ask", "got"}, res : {"none", "ok", "error", "lost", "active"} \cup EndStates,
     msgs : Seq(Nat), num : Nat, cursor : Nat, seen : {"none", "active"} \cup EndStates]
RunEvents == {"delta", "reset"} \cup EndStates
TurnRow   == [chat : Chats, sub : SubRow, state : {"active"} \cup EndStates, cancel : BOOLEAN,
              log : Seq(RunEvents)]

\* Run r belongs to conversation c; so do all of these messages.
RunOf(r, c, tn) == r \in 1 .. Len(tn) /\ tn[r].chat = c
MessagesOf(ms, c, tn) == \A i \in 1 .. Len(ms) : RunOf((ms[i] + 1) \div 2, c, tn)

ServerFits(ow, tn) ==
    /\ ow \in [Chats -> SomeUser] /\ tn \in Seq(TurnRow)
    /\ \A r \in 1 .. Len(tn) : tn[r].sub.chat = tn[r].chat

\* What is stored names a run of its user.
TabFits(tb, ow, tn) ==
    /\ tb \in TabRow
    /\ tb.run.user # Nobody => /\ tb.run.chat \in Chats /\ ow[tb.run.chat] = tb.run.user
                               /\ tb.run.run # 0 /\ RunOf(tb.run.run, tb.run.chat, tn)

\* A task k is no younger than the page p, and what it was answered is about
\* its conversation.
ChatTaskFits(k, p, ow, tn) ==
    /\ k.life <= p.life /\ (k.life = p.life => k.gen <= p.generation)
    /\ k.kind # "create" => k.chat \in Chats
    /\ k.kind = "create" => /\ k.sub.user \in People
                            /\ k.life = p.life /\ p.user # Nobody => k.sub.user = p.user
                            /\ k.pc = "got" /\ k.res = "ok"
                                 => k.chat \in Chats /\ ow[k.chat] = k.sub.user
    /\ k.kind = "send" => k.sub.chat = k.chat
    /\ k.kind \in {"send", "resolve"} /\ k.pc = "got" /\ k.res = "ok" /\ (k.kind = "send" \/ k.run # 0)
         => k.run # 0 /\ RunOf(k.run, k.chat, tn)
    /\ k.kind \in {"load", "reload"} => MessagesOf(k.msgs, k.chat, tn)
    /\ k.kind \in {"follow", "status"}
         => k.run # 0 /\ RunOf(k.run, k.chat, tn) /\ k.cursor <= Len(tn[k.run].log)
    /\ k.kind = "follow" /\ k.pc = "got" /\ k.res = "ok"
         => k.cursor <= k.num /\ k.num <= Len(tn[k.run].log)

\* The tasks of these kinds that are current.
TasksNow(p, K, kinds) ==
    {k \in K : k.kind \in kinds /\ k.life = p.life /\ k.gen = p.generation /\ k.chat = p.selected}
Exactly(S, b) == (b => \E k \in S : S = {k}) /\ (~b => S = {})

\* Of a signed-in page: what is shown is of the selected conversation, and one
\* task is at work for each thing that is waited for.
ShowsSelection(p, ow, tn) ==
    /\ p.selected = NoChat => p.active_run = 0 /\ ~p.submitting /\ ~p.resolving_run
    /\ p.selected # NoChat => /\ ow[p.selected] = p.user /\ MessagesOf(p.messages, p.selected, tn)
                              /\ p.active_run # 0 => RunOf(p.active_run, p.selected, tn)
    /\ p.submitting => ~p.resolving_run /\ p.active_run = 0 /\ p.streamed = << >>
    /\ p.resolving_run => p.streamed = << >>
WaitsForTasks(p, K, tn) ==
    /\ Exactly(TasksNow(p, K, {"send"}), p.submitting)
    /\ Exactly(TasksNow(p, K, {"resolve"}), p.resolving_run)
    /\ Exactly(TasksNow(p, K, {"follow", "status"}), p.active_run # 0 /\ ~p.resolving_run)
    /\ \A k \in TasksNow(p, K, {"follow", "status"}) :
          k.run = p.active_run /\ p.streamed = Streamed(<< >>, k.run, tn[k.run].log, 0, k.cursor)

\* What a reload would find.
StoredFits(p, tb, un) ==
    /\ p.user # Nobody /\ ~p.leaving /\ p.active_run # 0
         => tb.run = [user |-> p.user, chat |-> p.selected, run |-> p.active_run]
    /\ un # NoSubmission => p.user # Nobody /\ tb.pending = un /\ p.pending = un /\ un.user = p.user

ChatFits(p, tb, K, ow, tn, un) ==
    /\ p \in ChatRow /\ K \subseteq ChatTaskRow /\ un \in SubRow
    /\ ServerFits(ow, tn) /\ TabFits(tb, ow, tn)
    /\ \A k \in K : ChatTaskFits(k, p, ow, tn)
    /\ p.user # Nobody => ShowsSelection(p, ow, tn) /\ WaitsForTasks(p, K, tn)
    /\ StoredFits(p, tb, un)

ChatInv == clicks \in Nat /\ ChatFits(chat, tab, tasks, owner, turns, unsettled)

-----------------------------------------------------------------------------
(* The chat page: what the steps have in common *)

NotBefore(p, q) ==
    \/ p.life < q.life
    \/ p.life = q.life /\ p.generation <= q.generation /\ q.user \in {p.user, Nobody}
Later(p, q) ==
    \/ p.life < q.life
    \/ p.life = q.life /\ p.generation < q.generation /\ q.user = p.user

\* Conversations are given to those who create them, runs and their events are
\* added.
OwnersStay(ow, om) == \A c \in Chats : ow[c] \in People => om[c] = ow[c]
RunGoesOn(o, m) ==
    /\ m.chat = o.chat /\ m.sub = o.sub /\ Len(o.log) <= Len(m.log)
    /\ \A k \in 1 .. Len(o.log) : m.log[k] = o.log[k]
TurnsGoOn(tn, tm) ==
    Len(tn) <= Len(tm) /\ \A r \in 1 .. Len(tn) : RunGoesOn(tn[r], tm[r])

LEMMA RunStands ==
  ASSUME NEW tn \in Seq(TurnRow), NEW tm \in Seq(TurnRow), TurnsGoOn(tn, tm), NEW r, NEW c,
         RunOf(r, c, tn)
  PROVE  RunOf(r, c, tm) /\ RunGoesOn(tn[r], tm[r]) /\ tn[r] \in TurnRow /\ tm[r] \in TurnRow
<1>1. r \in 1 .. Len(tn) /\ tn[r].chat = c BY DEF RunOf
<1> QED BY <1>1 DEF RunOf, RunGoesOn, TurnsGoOn

LEMMA MessagesStand ==
  ASSUME NEW tn \in Seq(TurnRow), NEW tm \in Seq(TurnRow), TurnsGoOn(tn, tm), NEW ms, NEW c,
         MessagesOf(ms, c, tn)
  PROVE  MessagesOf(ms, c, tm)
  BY RunStands DEF MessagesOf

LEMMA TaskStands ==
  ASSUME NEW k, NEW p \in ChatRow, NEW q \in ChatRow, NEW ow, NEW tn, k \in ChatTaskRow,
         ChatTaskFits(k, p, ow, tn), NotBefore(p, q)
  PROVE  ChatTaskFits(k, q, ow, tn)
<1>1. /\ k.life \in Nat /\ k.gen \in Nat /\ p.life \in Nat /\ q.life \in Nat
      /\ p.generation \in Nat /\ q.generation \in Nat BY DEF ChatRow, ChatTaskRow
<1> QED BY <1>1 DEF ChatTaskFits, NotBefore

LEMMA TaskStandsBy ==
  ASSUME NEW k, NEW p, NEW ow, NEW om, NEW tn \in Seq(TurnRow), NEW tm \in Seq(TurnRow),
         k \in ChatTaskRow, ChatTaskFits(k, p, ow, tn), OwnersStay(ow, om), TurnsGoOn(tn, tm)
  PROVE  ChatTaskFits(k, p, om, tm)
<1>1. k.kind \in {"send", "resolve"} /\ k.pc = "got" /\ k.res = "ok" /\ (k.kind = "send" \/ k.run # 0)
        => k.run # 0 /\ RunOf(k.run, k.chat, tm) BY RunStands DEF ChatTaskFits
<1>2. k.kind \in {"load", "reload"} => MessagesOf(k.msgs, k.chat, tm) BY MessagesStand DEF ChatTaskFits
<1>3. ASSUME k.kind \in {"follow", "status"}
      PROVE  /\ k.run # 0 /\ RunOf(k.run, k.chat, tm) /\ k.cursor <= Len(tm[k.run].log)
             /\ k.kind = "follow" /\ k.pc = "got" /\ k.res = "ok"
                  => k.cursor <= k.num /\ k.num <= Len(tm[k.run].log)
  <2>1. k.run # 0 /\ RunOf(k.run, k.chat, tn) /\ k.cursor <= Len(tn[k.run].log) BY <1>3 DEF ChatTaskFits
  <2>2. RunOf(k.run, k.chat, tm) /\ RunGoesOn(tn[k.run], tm[k.run])
        /\ tn[k.run] \in TurnRow /\ tm[k.run] \in TurnRow BY <2>1, RunStands
  <2>3. Len(tn[k.run].log) <= Len(tm[k.run].log) BY <2>2 DEF RunGoesOn
  <2>4. Len(tn[k.run].log) \in Nat /\ Len(tm[k.run].log) \in Nat /\ k.cursor \in Nat /\ k.num \in Nat
    BY <2>2 DEF TurnRow, ChatTaskRow
  <2>5. k.cursor <= Len(tm[k.run].log) BY <2>1, <2>3, <2>4
  <2>6. k.num <= Len(tn[k.run].log) => k.num <= Len(tm[k.run].log) BY <2>3, <2>4
  <2> QED BY <2>1, <2>2, <2>5, <2>6 DEF ChatTaskFits
<1> QED BY <1>1, <1>2, <1>3 DEF ChatTaskFits, OwnersStay

\* A page that is later than its tasks waits for none of them.
LEMMA NoneNow ==
  ASSUME NEW p \in ChatRow, NEW q \in ChatRow, NEW K, NEW L, NEW ow, NEW tn, NEW kinds,
         K \subseteq ChatTaskRow, \A k \in K : ChatTaskFits(k, p, ow, tn), Later(p, q), L \subseteq K
  PROVE  TasksNow(q, L, kinds) = {}
<1>1. ASSUME NEW k \in TasksNow(q, L, kinds) PROVE FALSE
  <2>1. k \in K /\ k.life = q.life /\ k.gen = q.generation BY DEF TasksNow
  <2>2. /\ k.life \in Nat /\ k.gen \in Nat /\ p.life \in Nat /\ q.life \in Nat
        /\ p.generation \in Nat /\ q.generation \in Nat BY <2>1 DEF ChatRow, ChatTaskRow
  <2> QED BY <2>1, <2>2 DEF Later, ChatTaskFits
<1> QED BY <1>1

\* A step of the page: tasks end and begin, and the page is not earlier.
LEMMA ChatPageMoves ==
  ASSUME NEW p, NEW tb, NEW K, NEW ow, NEW tn, NEW un, ChatFits(p, tb, K, ow, tn, un),
         NEW q \in ChatRow, NEW sb, NEW L, NEW N, NEW vn \in SubRow,
         NotBefore(p, q), L \subseteq K, N \subseteq ChatTaskRow,
         \A k \in N : ChatTaskFits(k, q, ow, tn),
         TabFits(sb, ow, tn), StoredFits(q, sb, vn),
         q.user # Nobody => ShowsSelection(q, ow, tn) /\ WaitsForTasks(q, L \cup N, tn)
  PROVE  ChatFits(q, sb, L \cup N, ow, tn, vn)
  BY TaskStands DEF ChatFits

\* A step that moves the generation on, or begins another life of the page.
LEMMA ChatPageTurns ==
  ASSUME NEW p, NEW tb, NEW K, NEW ow, NEW tn, NEW un, ChatFits(p, tb, K, ow, tn, un),
         NEW q \in ChatRow, NEW sb, NEW L, NEW N, NEW vn \in SubRow,
         Later(p, q), L \subseteq K, N \subseteq ChatTaskRow,
         \A k \in N : ChatTaskFits(k, q, ow, tn),
         TabFits(sb, ow, tn), StoredFits(q, sb, vn),
         q.user # Nobody => ShowsSelection(q, ow, tn) /\ WaitsForTasks(q, N, tn)
  PROVE  ChatFits(q, sb, L \cup N, ow, tn, vn)
<1>1. p \in ChatRow /\ K \subseteq ChatTaskRow /\ \A k \in K : ChatTaskFits(k, p, ow, tn) BY DEF ChatFits
<1>2. \A kinds : TasksNow(q, L, kinds) = {} BY <1>1, NoneNow
<1>3. q.user # Nobody => WaitsForTasks(q, L \cup N, tn) BY <1>2 DEF WaitsForTasks, TasksNow
<1>4. p.generation \in Nat /\ q.generation \in Nat BY <1>1 DEF ChatRow
<1>5. NotBefore(p, q) BY <1>4 DEF NotBefore, Later
<1> QED BY <1>3, <1>5, ChatPageMoves

\* The same but for one member.
LEMMA ExactlySwaps ==
  ASSUME NEW S, NEW T, NEW t, NEW u, NEW b, Exactly(S, b),
         t \in S => T = (S \ {t}) \cup {u}, t \notin S => T = S
  PROVE  Exactly(T, b)
<1>1. CASE b
  <2>1. PICK k \in S : S = {k} BY <1>1 DEF Exactly
  <2>2. CASE t \in S BY <1>1, <2>1, <2>2 DEF Exactly
  <2>3. CASE t \notin S BY <1>1, <2>1, <2>3 DEF Exactly
  <2> QED BY <2>2, <2>3
<1>2. CASE ~b BY <1>2 DEF Exactly
<1> QED BY <1>1, <1>2

SameTask(t, u) ==
    /\ u.life = t.life /\ u.gen = t.gen
    /\ \/ u.kind = t.kind /\ u.kind \notin {"follow", "status"} /\ (u.kind = "create" \/ u.chat = t.chat)
       \/ /\ u.kind \in {"follow", "status"} /\ t.kind \in {"follow", "status"}
          /\ u.chat = t.chat /\ u.run = t.run /\ u.cursor = t.cursor

LEMMA NowSwaps ==
  ASSUME NEW p, NEW K, NEW t \in K, NEW u, SameTask(t, u), NEW b,
         NEW kinds, kinds = {"send"} \/ kinds = {"resolve"} \/ kinds = {"follow", "status"},
         Exactly(TasksNow(p, K, kinds), b)
  PROVE  Exactly(TasksNow(p, (K \ {t}) \cup {u}, kinds), b)
<1> DEFINE S == TasksNow(p, K, kinds)
           T == TasksNow(p, (K \ {t}) \cup {u}, kinds)
           Now(k) == k.kind \in kinds /\ k.life = p.life /\ k.gen = p.generation /\ k.chat = p.selected
<1>1. Now(t) <=> Now(u) BY DEF SameTask
<1>2. t \in S <=> Now(t) BY DEF TasksNow
<1>3. t \in S => T = (S \ {t}) \cup {u} BY <1>1, <1>2 DEF TasksNow
<1>4. t \notin S => T = S BY <1>1, <1>2 DEF TasksNow
<1> HIDE DEF S, T
<1>5. Exactly(S, b) BY DEF S
<1>6. Exactly(T, b) BY <1>3, <1>4, <1>5, ExactlySwaps
<1> QED BY <1>6 DEF T

\* Conversations and events are added on the server.
LEMMA ChatServerGrows ==
  ASSUME NEW p, NEW tb, NEW K, NEW ow, NEW tn, NEW un, ChatFits(p, tb, K, ow, tn, un),
         NEW om, NEW tm, ServerFits(om, tm), OwnersStay(ow, om), TurnsGoOn(tn, tm)
  PROVE  ChatFits(p, tb, K, om, tm, un)
<1>1. /\ p \in ChatRow /\ K \subseteq ChatTaskRow /\ un \in SubRow
      /\ ow \in [Chats -> SomeUser] /\ tn \in Seq(TurnRow) /\ tm \in Seq(TurnRow)
      /\ TabFits(tb, ow, tn) /\ \A k \in K : ChatTaskFits(k, p, ow, tn)
      /\ StoredFits(p, tb, un) BY DEF ChatFits, ServerFits
<1>2. TabFits(tb, om, tm)
  <2>1. tb \in TabRow BY <1>1 DEF TabFits
  <2>2. ASSUME tb.run.user # Nobody
        PROVE  /\ tb.run.chat \in Chats /\ om[tb.run.chat] = tb.run.user
               /\ tb.run.run # 0 /\ RunOf(tb.run.run, tb.run.chat, tm)
    <3>1. tb.run.user \in People BY <2>2, <2>1 DEF SomeUser, TabRow, StoredRun
    <3> QED BY <3>1, <1>1, RunStands, <2>2 DEF OwnersStay, TabFits
  <2> QED BY <2>1, <2>2 DEF TabFits
<1>3. ASSUME p.user # Nobody
      PROVE  ShowsSelection(p, om, tm) /\ WaitsForTasks(p, K, tm)
  <2>1. ShowsSelection(p, ow, tn) /\ WaitsForTasks(p, K, tn) BY <1>3 DEF ChatFits
  <2>2. p.selected # NoChat => /\ om[p.selected] = p.user /\ MessagesOf(p.messages, p.selected, tm)
                               /\ p.active_run # 0 => RunOf(p.active_run, p.selected, tm)
    <3> SUFFICES ASSUME p.selected # NoChat
                 PROVE  /\ om[p.selected] = p.user /\ MessagesOf(p.messages, p.selected, tm)
                        /\ p.active_run # 0 => RunOf(p.active_run, p.selected, tm) OBVIOUS
    <3>1. /\ ow[p.selected] = p.user /\ MessagesOf(p.messages, p.selected, tn)
          /\ p.active_run # 0 => RunOf(p.active_run, p.selected, tn) BY <2>1 DEF ShowsSelection
    <3>2. om[p.selected] = p.user BY <3>1, <1>1, <1>3 DEF OwnersStay, SomeChat, ChatRow, SomeUser
    <3> QED BY <3>2, <1>1, <3>1, MessagesStand, RunStands
  <2>3. ASSUME NEW k \in TasksNow(p, K, {"follow", "status"})
        PROVE  k.run = p.active_run /\ p.streamed = Streamed(<< >>, k.run, tm[k.run].log, 0, k.cursor)
    <3>1. k \in K /\ k \in ChatTaskRow /\ k.kind \in {"follow", "status"} BY <1>1 DEF TasksNow
    <3>2. RunOf(k.run, k.chat, tn) /\ k.cursor <= Len(tn[k.run].log) BY <1>1, <3>1 DEF ChatTaskFits
    <3>3. RunGoesOn(tn[k.run], tm[k.run]) /\ tn[k.run] \in TurnRow BY <1>1, <3>2, RunStands
    <3>4. k.cursor \in Nat /\ Len(tn[k.run].log) \in Nat BY <3>1, <3>3 DEF ChatTaskRow, TurnRow
    <3>5. ASSUME NEW i \in (0 + 1) .. k.cursor PROVE tn[k.run].log[i] = tm[k.run].log[i]
      BY <3>3, <3>2, <3>4 DEF RunGoesOn
    <3> QED BY <2>1, <3>4, <3>5, StreamedAlike DEF WaitsForTasks
  <2> QED BY <2>1, <2>3, <2>2 DEF WaitsForTasks, ShowsSelection
<1> QED BY <1>1, <1>2, <1>3, TaskStandsBy DEF ChatFits

\* One task goes on as another of its kind.
LEMMA ChatTaskSwaps ==
  ASSUME NEW p, NEW tb, NEW K, NEW ow, NEW tn, NEW un, ChatFits(p, tb, K, ow, tn, un),
         NEW t \in K, NEW u \in ChatTaskRow, SameTask(t, u), ChatTaskFits(u, p, ow, tn)
  PROVE  ChatFits(p, tb, (K \ {t}) \cup {u}, ow, tn, un)
<1>1. ASSUME p.user # Nobody
      PROVE  WaitsForTasks(p, (K \ {t}) \cup {u}, tn)
  <2>1. WaitsForTasks(p, K, tn) BY <1>1 DEF ChatFits
  <2>2. ASSUME NEW k \in TasksNow(p, (K \ {t}) \cup {u}, {"follow", "status"})
        PROVE  k.run = p.active_run /\ p.streamed = Streamed(<< >>, k.run, tn[k.run].log, 0, k.cursor)
    <3>1. PICK o \in TasksNow(p, K, {"follow", "status"}) : o.run = k.run /\ o.cursor = k.cursor
      <4>1. CASE k = u BY <4>1 DEF TasksNow, SameTask
      <4>2. CASE k # u BY <4>2 DEF TasksNow
      <4> QED BY <4>1, <4>2
    <3> QED BY <3>1, <2>1 DEF WaitsForTasks
  <2> QED BY <2>2, <2>1, NowSwaps DEF WaitsForTasks
<1> QED BY <1>1 DEF ChatFits

LEMMA TheChat ==
  ASSUME ChatInv
  PROVE  /\ chat \in ChatRow /\ tasks \subseteq ChatTaskRow /\ unsettled \in SubRow /\ tab \in TabRow
         /\ owner \in [Chats -> SomeUser] /\ turns \in Seq(TurnRow) /\ Len(turns) \in Nat
         /\ clicks \in Nat
         /\ ChatFits(chat, tab, tasks, owner, turns, unsettled)
         /\ TabFits(tab, owner, turns) /\ StoredFits(chat, tab, unsettled)
         /\ \A k \in tasks : ChatTaskFits(k, chat, owner, turns)
         /\ SignedIn => /\ ShowsSelection(chat, owner, turns) /\ WaitsForTasks(chat, tasks, turns)
                        /\ chat.user \in People
         /\ SignedIn <=> chat.user # Nobody
<1>1. /\ chat \in ChatRow /\ ServerFits(owner, turns) /\ TabFits(tab, owner, turns)
      /\ clicks \in Nat /\ unsettled \in SubRow /\ tasks \subseteq ChatTaskRow
      /\ StoredFits(chat, tab, unsettled)
      /\ \A k \in tasks : ChatTaskFits(k, chat, owner, turns)
      /\ chat.user # Nobody => ShowsSelection(chat, owner, turns) /\ WaitsForTasks(chat, tasks, turns)
      /\ ChatFits(chat, tab, tasks, owner, turns, unsettled) BY DEF ChatInv, ChatFits
<1>2. chat.user # Nobody => chat.user \in People BY <1>1 DEF ChatRow, SomeUser
<1> QED BY <1>1, <1>2 DEF SignedIn, ServerFits, TabFits

LEMMA NoSubmissionRow == NoSubmission \in SubRow /\ NoSubmission.text = "" /\ NoSubmission.chat = NoChat
                         /\ NoSubmission.user = Nobody
  BY DEF NoSubmission, SubRow, SomeUser, SomeChat
LEMMA NoRunRow == NoRunSession \in StoredRun /\ NoRunSession.run = 0 /\ NoRunSession.chat = NoChat
                  /\ NoRunSession.user = Nobody
  BY DEF NoRunSession, StoredRun, SomeUser, SomeChat

LEMMA NewTaskRow ==
  ASSUME NEW which \in TaskKinds, NEW q \in ChatRow, NEW run \in Nat
  PROVE  /\ NewTask(which, q, run) \in ChatTaskRow
         /\ NewTask(which, q, run).kind = which /\ NewTask(which, q, run).life = q.life
         /\ NewTask(which, q, run).gen = q.generation /\ NewTask(which, q, run).chat = q.selected
         /\ NewTask(which, q, run).run = run /\ NewTask(which, q, run).pc = "ask"
         /\ Len(NewTask(which, q, run).msgs) = 0 /\ NewTask(which, q, run).cursor = 0
<1>1. << >> \in Seq(Nat) OBVIOUS
<1>2. PICK n : n = NewTask(which, q, run) OBVIOUS
<1>3. PICK e \in Seq(Nat) : e = << >> BY <1>1, Zenon
<1>4. /\ n \in ChatTaskRow /\ n.kind = which /\ n.life = q.life /\ n.gen = q.generation
      /\ n.chat = q.selected /\ n.run = run /\ n.pc = "ask" /\ n.msgs = e /\ n.cursor = 0
  BY NoSubmissionRow, <1>2, <1>3 DEF ChatTaskRow, ChatRow, NewTask
<1>5. Len(e) = 0 BY <1>3
<1> QED BY <1>2, <1>4, <1>5

LEMMA NoMessages ==
  ASSUME NEW ms, Len(ms) = 0, NEW c, NEW tn PROVE MessagesOf(ms, c, tn)
  BY DEF MessagesOf

LEMMA LookupTasks ==
  ASSUME NEW q \in ChatRow
  PROVE  \E j \in ChatTaskRow, k \in ChatTaskRow :
             /\ j = NewTask("load", q, 0) /\ k = NewTask("resolve", q, 0)
             /\ j.kind = "load" /\ j.life = q.life /\ j.gen = q.generation /\ j.chat = q.selected
             /\ j.pc = "ask" /\ Len(j.msgs) = 0
             /\ k.kind = "resolve" /\ k.life = q.life /\ k.gen = q.generation /\ k.chat = q.selected
             /\ k.pc = "ask" /\ Len(k.msgs) = 0
<1>1. "load" \in TaskKinds /\ "resolve" \in TaskKinds /\ 0 \in Nat BY DEF TaskKinds
<1> DEFINE Is(n, which) == /\ n \in ChatTaskRow /\ n.kind = which /\ n.life = q.life /\ n.gen = q.generation
                           /\ n.chat = q.selected /\ n.pc = "ask" /\ Len(n.msgs) = 0
<1>2. \A which \in TaskKinds : Is(NewTask(which, q, 0), which) BY <1>1, NewTaskRow
<1>3. Is(NewTask("load", q, 0), "load") /\ Is(NewTask("resolve", q, 0), "resolve")
  <2> HIDE DEF Is
  <2> QED BY <1>1, <1>2
<1> QED BY <1>3

LEMMA RestoredTasks ==
  ASSUME NEW q \in ChatRow, q.resolving_run
  PROVE  \E j \in ChatTaskRow, k \in ChatTaskRow :
             /\ RestoreTasks(q) = {j, k}
             /\ j.kind = "load" /\ j.life = q.life /\ j.gen = q.generation /\ j.chat = q.selected
             /\ j.pc = "ask" /\ Len(j.msgs) = 0
             /\ k.kind = "resolve" /\ k.life = q.life /\ k.gen = q.generation /\ k.chat = q.selected
             /\ k.pc = "ask" /\ Len(k.msgs) = 0
  BY LookupTasks DEF RestoreTasks

LEMMA NewTaskFits ==
  ASSUME NEW k \in ChatTaskRow, NEW q \in ChatRow, NEW ow, NEW tn \in Seq(TurnRow),
         k.life = q.life, k.gen = q.generation, k.chat = q.selected, q.selected \in Chats,
         k.pc = "ask",
         \/ k.kind \in {"load", "resolve", "reload"} /\ Len(k.msgs) = 0
         \/ k.kind = "send" /\ k.sub.chat = k.chat
         \/ k.kind = "follow" /\ k.run # 0 /\ RunOf(k.run, q.selected, tn) /\ k.cursor = 0
  PROVE  ChatTaskFits(k, q, ow, tn)
<1>1. q.life \in Nat /\ q.generation \in Nat BY DEF ChatRow
<1>2. k.life <= q.life /\ (k.life = q.life => k.gen <= q.generation) BY <1>1
<1>3. CASE k.kind \in {"load", "resolve", "reload"} /\ Len(k.msgs) = 0 BY <1>2, <1>3 DEF ChatTaskFits, MessagesOf
<1>4. CASE k.kind = "send" /\ k.sub.chat = k.chat BY <1>2, <1>4 DEF ChatTaskFits
<1>5. CASE k.kind = "follow" /\ k.run # 0 /\ RunOf(k.run, q.selected, tn) /\ k.cursor = 0
  BY <1>2, <1>5 DEF ChatTaskFits, TurnRow, RunOf
<1> QED BY <1>3, <1>4, <1>5

LEMMA WaitsForNone ==
  ASSUME NEW q, NEW tn, ~q.submitting, ~q.resolving_run, q.active_run = 0
  PROVE  WaitsForTasks(q, {}, tn)
  BY DEF WaitsForTasks, Exactly, TasksNow

LEMMA WaitsForSend ==
  ASSUME NEW q, NEW tn, NEW k, k.kind = "send", k.life = q.life, k.gen = q.generation, k.chat = q.selected,
         q.submitting, ~q.resolving_run, q.active_run = 0
  PROVE  WaitsForTasks(q, {k}, tn)
  BY DEF WaitsForTasks, Exactly, TasksNow

LEMMA WaitsForResolve ==
  ASSUME NEW q, NEW tn, NEW j, NEW k, j.kind = "load", k.kind = "resolve",
         k.life = q.life, k.gen = q.generation, k.chat = q.selected,
         ~q.submitting, q.resolving_run
  PROVE  WaitsForTasks(q, {j, k}, tn)
  BY DEF WaitsForTasks, Exactly, TasksNow

\* Whatever was stored, a page that is mounted is in order.
LEMMA MountedFits ==
  ASSUME NEW u \in People, NEW life \in Nat, NEW ow, NEW tn \in Seq(TurnRow),
         TabFits(tab, ow, tn), NEW un \in SubRow,
         un # NoSubmission => tab.pending = un /\ un.user = u
  PROVE  LET q == Mounted(u, life) IN
         /\ q \in ChatRow /\ q.user = u /\ q.life = life
         /\ RestoreTasks(q) \subseteq ChatTaskRow
         /\ \A k \in RestoreTasks(q) : ChatTaskFits(k, q, ow, tn)
         /\ StoredFits(q, tab, un)
         /\ ShowsSelection(q, ow, tn) /\ WaitsForTasks(q, RestoreTasks(q), tn)
<1>1. PICK sub \in SubRow : sub = IF tab.pending.user = u THEN tab.pending ELSE NoSubmission
  BY NoSubmissionRow DEF TabFits, TabRow
<1>2. PICK s \in StoredRun : s = IF tab.run.user = u THEN tab.run ELSE NoRunSession BY NoRunRow DEF TabFits, TabRow
<1>3. u # Nobody BY ChatAssumption
<1>4. PICK found \in BOOLEAN : found = (s # NoRunSession) OBVIOUS
<1>5. ASSUME found
      PROVE  /\ s = tab.run /\ s.user = u /\ s.chat \in Chats /\ ow[s.chat] = u /\ s.run # 0
             /\ RunOf(s.run, s.chat, tn) BY <1>3, <1>2, <1>4, <1>5 DEF TabFits
<1>6. ~found => s.run = 0 /\ s.chat = NoChat BY <1>4, NoRunRow
<1>7. PICK e \in Seq(Nat) : e = << >>
  <2>1. << >> \in Seq(Nat) OBVIOUS
  <2> QED BY <2>1, Zenon
<1>8. PICK g \in Seq(Nat \X Nat) : g = << >>
  <2>1. << >> \in Seq(Nat \X Nat) OBVIOUS
  <2> QED BY <2>1, Zenon
<1>9. PICK d \in Typed \cup {""} : d = IF found /\ s.chat # sub.chat THEN "" ELSE sub.text BY DEF SubRow
<1>10. PICK n \in Nat : n = IF found THEN 1 ELSE 0 OBVIOUS
<1>11. PICK q : q = Mounted(u, life) OBVIOUS
<1>12. /\ q \in ChatRow /\ q.user = u /\ q.life = life /\ q.leaving = FALSE /\ q.selected = s.chat
       /\ q.messages = e /\ q.streamed = g /\ q.active_run = s.run /\ q.resolving_run = found
       /\ q.submitting = FALSE /\ q.pending = sub /\ q.generation = n
  BY <1>1, <1>2, <1>4, <1>7, <1>8, <1>9, <1>10, <1>11 DEF ChatRow, SomeUser, Mounted, StoredRun
<1>13. StoredFits(q, tab, un)
  <2>1. ASSUME q.active_run # 0
        PROVE  tab.run = [user |-> q.user, chat |-> q.selected, run |-> q.active_run]
    <3>1. s = [user |-> s.user, chat |-> s.chat, run |-> s.run] BY DEF StoredRun
    <3> QED BY <1>12, <3>1, <1>5, <1>6, <2>1
  <2>2. ASSUME un # NoSubmission
        PROVE  q.user # Nobody /\ tab.pending = un /\ q.pending = un /\ un.user = q.user BY <1>1, <1>3, <1>12, <2>2
  <2> QED BY <2>1, <2>2 DEF StoredFits
<1>14. ShowsSelection(q, ow, tn)
  <2>1. q.selected # NoChat => /\ ow[q.selected] = q.user /\ MessagesOf(q.messages, q.selected, tn)
                               /\ q.active_run # 0 => RunOf(q.active_run, q.selected, tn)
    <3>1. Len(e) = 0 BY <1>7
    <3> QED BY <1>5, <1>6, <1>12, NoMessages, <3>1
  <2> QED BY <1>8, <1>12, <2>1, <1>5, <1>6, ChatAssumption DEF ShowsSelection
<1>15. /\ RestoreTasks(q) \subseteq ChatTaskRow
       /\ \A k \in RestoreTasks(q) : ChatTaskFits(k, q, ow, tn)
       /\ WaitsForTasks(q, RestoreTasks(q), tn)
  <2>1. CASE found
    <3>1. PICK j \in ChatTaskRow, k \in ChatTaskRow :
             /\ RestoreTasks(q) = {j, k}
             /\ j.kind = "load" /\ j.life = q.life /\ j.gen = q.generation /\ j.chat = q.selected
             /\ j.pc = "ask" /\ Len(j.msgs) = 0
             /\ k.kind = "resolve" /\ k.life = q.life /\ k.gen = q.generation /\ k.chat = q.selected
             /\ k.pc = "ask" /\ Len(k.msgs) = 0 BY <1>12, <2>1, RestoredTasks
    <3>2. WaitsForTasks(q, {j, k}, tn) BY <1>12, <2>1, <3>1, WaitsForResolve
    <3> QED BY <3>1, <3>2, <1>12, NewTaskFits, <1>5, <2>1
  <2>2. CASE ~found BY <1>12, <2>2, <1>6, WaitsForNone DEF RestoreTasks
  <2> QED BY <2>1, <2>2
<1> QED BY <1>11, <1>12, <1>13, <1>14, <1>15

-----------------------------------------------------------------------------
(* The chat page: clicks, and another life of the page *)

LEMMA TabKeeps ==
  ASSUME NEW tb, NEW sb \in TabRow, NEW ow, NEW tn, TabFits(tb, ow, tn),
         sb.run = tb.run \/ sb.run = NoRunSession
  PROVE  TabFits(sb, ow, tn)
<1>1. CASE sb.run = tb.run BY <1>1 DEF TabFits
<1>2. CASE sb.run = NoRunSession BY <1>2, NoRunRow DEF TabFits
<1> QED BY <1>1, <1>2

LEMMA ClearedPendingRow ==
  ASSUME NEW sub, tab \in TabRow
  PROVE  /\ ClearedPending(sub) \in TabRow /\ ClearedPending(sub).run = tab.run
         /\ tab.pending # sub => ClearedPending(sub) = tab
<1>1. PICK n : n = [tab EXCEPT !.pending = NoSubmission] OBVIOUS
<1> QED BY <1>1, NoSubmissionRow DEF ClearedPending, TabRow

LEMMA NothingStored ==
  ASSUME NEW tb, tb = [pending |-> NoSubmission, run |-> NoRunSession]
  PROVE  tb \in TabRow /\ tb.run = NoRunSession
  BY NoSubmissionRow, NoRunRow DEF TabRow

LEMMA ReloadKeeps == ASSUME ChatInv, Reload PROVE ChatInv'
<1>1. /\ chat.user # Nobody /\ chat.user \in People /\ clicks' = clicks
      /\ chat' = Mounted(chat.user, chat.life + 1) /\ tasks' = RestoreTasks(chat')
      /\ tab' = tab /\ unsettled' = unsettled /\ owner' = owner /\ turns' = turns
  BY TheChat DEF Reload, PageLoad, SignedIn, serverVars
<1>2. chat.life \in Nat /\ chat.life + 1 \in Nat
  <2>1. chat.life \in Nat BY TheChat DEF ChatRow
  <2> QED BY <2>1
<1>3. PICK q : q = Mounted(chat.user, chat.life + 1) OBVIOUS
<1>4. /\ q \in ChatRow /\ q.user = chat.user /\ q.life = chat.life + 1
      /\ RestoreTasks(q) \subseteq ChatTaskRow
      /\ \A k \in RestoreTasks(q) : ChatTaskFits(k, q, owner, turns)
      /\ StoredFits(q, tab, unsettled)
      /\ ShowsSelection(q, owner, turns) /\ WaitsForTasks(q, RestoreTasks(q), turns)
  BY <1>1, <1>2, <1>3, TheChat, MountedFits DEF StoredFits
<1>5. Later(chat, q) BY <1>2, <1>4 DEF Later
<1>6. ChatFits(q, tab, {} \cup RestoreTasks(q), owner, turns, unsettled) BY <1>4, <1>5, TheChat, ChatPageTurns
<1> QED BY <1>1, <1>3, <1>6, TheChat DEF ChatInv

LEMMA SignInKeeps == ASSUME ChatInv, NEW u \in People, SignIn(u) PROVE ChatInv'
<1>1. /\ chat.user = Nobody /\ clicks' = clicks
      /\ chat' = Mounted(u, chat.life + 1) /\ tasks' = tasks \cup RestoreTasks(chat')
      /\ tab' = tab /\ unsettled' = unsettled /\ owner' = owner /\ turns' = turns
  BY DEF SignIn, PageLoad, SignedIn, serverVars
<1>2. chat.life \in Nat /\ chat.life + 1 \in Nat
  <2>1. chat.life \in Nat BY TheChat DEF ChatRow
  <2> QED BY <2>1
<1>3. PICK q : q = Mounted(u, chat.life + 1) OBVIOUS
<1>4. /\ q \in ChatRow /\ q.user = u /\ q.life = chat.life + 1
      /\ RestoreTasks(q) \subseteq ChatTaskRow
      /\ \A k \in RestoreTasks(q) : ChatTaskFits(k, q, owner, turns)
      /\ StoredFits(q, tab, unsettled)
      /\ ShowsSelection(q, owner, turns) /\ WaitsForTasks(q, RestoreTasks(q), turns)
  BY <1>2, <1>3, TheChat, MountedFits, <1>1 DEF StoredFits
<1>5. Later(chat, q) BY <1>2, <1>4 DEF Later
<1> QED BY <1>1, <1>3, TheChat, <1>4, <1>5, ChatPageTurns DEF ChatInv

LEMMA SignOutKeeps == ASSUME ChatInv, SignOut PROVE ChatInv'
<1>1. /\ chat.user # Nobody /\ clicks' = clicks + 1
      /\ chat' = [chat EXCEPT !.leaving = TRUE] /\ tasks' = tasks
      /\ tab' = [pending |-> NoSubmission, run |-> NoRunSession] /\ unsettled' = NoSubmission
      /\ owner' = owner /\ turns' = turns BY DEF SignOut, Click, SignedIn, serverVars
<1>2. PICK q : q = [chat EXCEPT !.leaving = TRUE] OBVIOUS
<1>3. /\ q \in ChatRow /\ q.leaving = TRUE /\ q.user = chat.user /\ q.life = chat.life
      /\ q.generation = chat.generation /\ q.selected = chat.selected /\ q.messages = chat.messages
      /\ q.streamed = chat.streamed /\ q.active_run = chat.active_run
      /\ q.resolving_run = chat.resolving_run /\ q.submitting = chat.submitting BY <1>2, TheChat DEF ChatRow
<1>4. PICK sb \in TabRow : sb = tab' /\ sb.run = NoRunSession BY <1>1, NothingStored
<1>5. TabFits(sb, owner, turns) BY <1>4, TheChat, TabKeeps
<1>6. StoredFits(q, sb, NoSubmission) BY <1>3 DEF StoredFits
<1>7. ShowsSelection(q, owner, turns) /\ WaitsForTasks(q, tasks, turns)
  <2>1. ShowsSelection(chat, owner, turns) /\ WaitsForTasks(chat, tasks, turns) BY <1>1, TheChat
  <2> QED BY <1>3, <2>1 DEF ShowsSelection, WaitsForTasks, TasksNow
<1>8. NotBefore(chat, q) /\ tasks \cup {} = tasks /\ chat.generation \in Nat
  <2>1. chat.generation \in Nat BY TheChat DEF ChatRow
  <2> QED BY <1>3, <2>1 DEF NotBefore
<1>9. ChatFits(q, sb, tasks \cup {}, owner, turns, NoSubmission)
  BY <1>3, <1>5, <1>6, <1>7, <1>8, TheChat, NoSubmissionRow, ChatPageMoves
<1> QED BY <1>1, <1>2, <1>4, <1>8, <1>9, TheChat DEF ChatInv

LEMMA SignedOutKeeps == ASSUME ChatInv, SignedOut PROVE ChatInv'
<1>1. PICK q : q = [chat EXCEPT !.user = Nobody, !.leaving = FALSE] OBVIOUS
<1>2. /\ q \in ChatRow /\ q.user = Nobody /\ q.life = chat.life /\ q.generation = chat.generation
  BY <1>1, TheChat DEF ChatRow, SomeUser
<1>3. NotBefore(chat, q) /\ tasks \cup {} = tasks
  <2>1. chat.generation \in Nat BY TheChat DEF ChatRow
  <2> QED BY <1>2, <2>1 DEF NotBefore
<1>4. ChatFits(q, tab, tasks \cup {}, owner, turns, NoSubmission)
  BY <1>2, <1>3, TheChat, NoSubmissionRow, ChatPageMoves DEF StoredFits
<1> QED BY <1>1, <1>3, <1>4, TheChat DEF ChatInv, SignedOut, serverVars, webBudget

LEMMA NoLists == \E e \in Seq(Nat), g \in Seq(Nat \X Nat) : e = << >> /\ g = << >> /\ Len(e) = 0
<1>1. << >> \in Seq(Nat) OBVIOUS
<1>2. << >> \in Seq(Nat \X Nat) OBVIOUS
<1>3. PICK e \in Seq(Nat) : e = << >> BY <1>1, Zenon
<1>4. PICK g \in Seq(Nat \X Nat) : g = << >> BY <1>2, Zenon
<1>5. Len(e) = 0 BY <1>3
<1> QED BY <1>3, <1>4, <1>5, Zenon

LEMMA StoredStays ==
  ASSUME NEW p, NEW q, NEW tb, NEW un, StoredFits(p, tb, un), q.user = p.user, q.active_run = 0,
         q.pending = p.pending
  PROVE  StoredFits(q, tb, un)
  BY DEF StoredFits

\* Nobody waits for a task of another kind, or of an earlier page.
WaitedFor == {"send", "resolve", "follow", "status"}
LEMMA OthersWait ==
  ASSUME NEW p, NEW q, NEW K, NEW L, NEW tn, WaitsForTasks(p, K, tn),
         q.life = p.life, q.generation = p.generation, q.selected = p.selected,
         q.submitting = p.submitting, q.resolving_run = p.resolving_run,
         q.active_run = p.active_run, q.streamed = p.streamed,
         \A k : k.kind \in WaitedFor /\ k.life = p.life /\ k.gen = p.generation /\ k.chat = p.selected
                  => (k \in L <=> k \in K)
  PROVE  WaitsForTasks(q, L, tn)
<1>1. TasksNow(q, L, {"send"}) = TasksNow(p, K, {"send"}) BY DEF TasksNow, WaitedFor
<1>2. TasksNow(q, L, {"resolve"}) = TasksNow(p, K, {"resolve"}) BY DEF TasksNow, WaitedFor
<1>3. TasksNow(q, L, {"follow", "status"}) = TasksNow(p, K, {"follow", "status"}) BY DEF TasksNow, WaitedFor
<1> QED BY <1>1, <1>2, <1>3 DEF WaitsForTasks

LEMMA OneMoreClick == ASSUME ChatInv PROVE clicks + 1 \in Nat
  BY TheChat
LEMMA NextGeneration == ASSUME NEW p \in ChatRow PROVE p.generation \in Nat /\ p.generation + 1 \in Nat
                                                     /\ p.generation < p.generation + 1
<1>1. p.generation \in Nat BY DEF ChatRow
<1> QED BY <1>1

LEMMA SamePage ==
  ASSUME NEW p \in ChatRow, NEW q, q.life = p.life, q.generation = p.generation,
         q.user = p.user
  PROVE  NotBefore(p, q)
  BY NextGeneration DEF NotBefore

LEMMA OpenKeeps == ASSUME ChatInv, NEW c \in Chats, OpenConversation(c) PROVE ChatInv'
<1>1. /\ chat.user # Nobody /\ owner[c] = chat.user /\ clicks' = clicks + 1
      /\ chat' = [chat EXCEPT !.generation = @ + 1, !.selected = c, !.messages = <<>>, !.streamed = <<>>,
                            !.active_run = 0, !.resolving_run = TRUE, !.submitting = FALSE,
                            !.draft = IF chat.pending.chat = c THEN chat.pending.text ELSE ""]
      /\ tasks' = tasks \cup {NewTask("load", chat', 0), NewTask("resolve", chat', 0)}
      /\ tab' = tab /\ unsettled' = unsettled /\ owner' = owner /\ turns' = turns
  BY DEF OpenConversation, Click, SignedIn, serverVars
<1>2. PICK d \in Typed \cup {""} : d = IF chat.pending.chat = c THEN chat.pending.text ELSE ""
  BY TheChat DEF SubRow, ChatRow
<1>3. PICK e \in Seq(Nat), g \in Seq(Nat \X Nat) : e = << >> /\ g = << >> /\ Len(e) = 0 BY NoLists
<1>4. chat \in ChatRow BY TheChat
<1>5. PICK n \in Nat : n = chat.generation + 1 /\ chat.generation < n BY <1>4, NextGeneration
<1>6. PICK q : q = [chat EXCEPT !.generation = n, !.selected = c, !.messages = e, !.streamed = g,
                            !.active_run = 0, !.resolving_run = TRUE, !.submitting = FALSE, !.draft = d] OBVIOUS
<1>7. /\ q \in ChatRow /\ q.generation = n /\ q.selected = c /\ q.messages = e /\ q.streamed = g
      /\ q.active_run = 0 /\ q.resolving_run = TRUE /\ q.submitting = FALSE
      /\ q.user = chat.user /\ q.life = chat.life /\ q.pending = chat.pending BY <1>4, <1>6 DEF ChatRow, SomeChat
<1>8. Later(chat, q) BY <1>5, <1>7 DEF Later
<1>9. ShowsSelection(q, owner, turns) BY <1>1, <1>3, <1>7, ChatAssumption, NoMessages DEF ShowsSelection
<1>10. PICK j \in ChatTaskRow, k \in ChatTaskRow :
             /\ j = NewTask("load", q, 0) /\ k = NewTask("resolve", q, 0)
             /\ j.kind = "load" /\ j.life = q.life /\ j.gen = q.generation /\ j.chat = q.selected
             /\ j.pc = "ask" /\ Len(j.msgs) = 0
             /\ k.kind = "resolve" /\ k.life = q.life /\ k.gen = q.generation /\ k.chat = q.selected
             /\ k.pc = "ask" /\ Len(k.msgs) = 0 BY <1>7, LookupTasks
<1>11. ChatTaskFits(j, q, owner, turns) /\ ChatTaskFits(k, q, owner, turns) BY <1>7, <1>10, TheChat, NewTaskFits
<1>12. WaitsForTasks(q, {j, k}, turns) BY <1>7, <1>10, WaitsForResolve
<1>13. ChatFits(q, tab, tasks \cup {j, k}, owner, turns, unsettled)
  <2>1. \A i \in {j, k} : ChatTaskFits(i, q, owner, turns) BY <1>11
  <2>2. tasks \subseteq tasks /\ {j, k} \subseteq ChatTaskRow OBVIOUS
  <2> QED BY <1>7, <1>8, <1>9, <1>12, <2>1, <2>2, TheChat, ChatPageTurns, StoredStays
<1> QED BY <1>1, <1>10, <1>13, OneMoreClick, <1>2, <1>3, <1>5, <1>6 DEF ChatInv

LEMMA BackKeeps == ASSUME ChatInv, BackToList PROVE ChatInv'
<1>1. PICK e \in Seq(Nat), g \in Seq(Nat \X Nat) : e = << >> /\ g = << >> /\ Len(e) = 0 BY NoLists
<1>2. chat \in ChatRow BY TheChat
<1>3. PICK n \in Nat : n = chat.generation + 1 /\ chat.generation < n BY <1>2, NextGeneration
<1>4. PICK q : q = [chat EXCEPT !.generation = n, !.selected = NoChat, !.streamed = g,
                            !.active_run = 0, !.resolving_run = FALSE, !.submitting = FALSE] OBVIOUS
<1>5. /\ q \in ChatRow /\ q.generation = n /\ q.selected = NoChat
      /\ q.active_run = 0 /\ q.resolving_run = FALSE /\ q.submitting = FALSE
      /\ q.user = chat.user /\ q.life = chat.life /\ q.pending = chat.pending BY <1>2, <1>4 DEF ChatRow, SomeChat
<1>6. Later(chat, q) BY <1>3, <1>5 DEF Later
<1>7. ShowsSelection(q, owner, turns) BY <1>5 DEF ShowsSelection
<1>8. WaitsForTasks(q, {}, turns) BY <1>5, WaitsForNone
<1>9. tasks \cup {} = tasks /\ tasks \subseteq tasks /\ {} \subseteq ChatTaskRow OBVIOUS
<1>10. ChatFits(q, tab, tasks \cup {}, owner, turns, unsettled)
  <2>1. \A i \in {} : ChatTaskFits(i, q, owner, turns) OBVIOUS
  <2> QED BY <1>5, <1>6, <1>7, <1>8, <1>9, <2>1, TheChat, ChatPageTurns, StoredStays
<1> QED BY <1>9, <1>10, OneMoreClick, <1>1, <1>3, <1>4 DEF ChatInv, BackToList, Click, SignedIn, serverVars

\* Tasks come and go for which nobody waits.
LEMMA BystandersMove ==
  ASSUME ChatInv, NEW N, N \subseteq ChatTaskRow, NEW L, L \subseteq tasks,
         \A k \in N : ChatTaskFits(k, chat, owner, turns) /\ k.kind \notin WaitedFor,
         chat.user # Nobody
           => \A k \in tasks \ L : ~(/\ k.kind \in WaitedFor /\ k.life = chat.life
                                     /\ k.gen = chat.generation /\ k.chat = chat.selected)
  PROVE  ChatFits(chat, tab, L \cup N, owner, turns, unsettled)
<1>1. chat.user # Nobody => ShowsSelection(chat, owner, turns) /\ WaitsForTasks(chat, tasks, turns) BY TheChat
<1>2. ASSUME chat.user # Nobody
      PROVE  \A k : k.kind \in WaitedFor /\ k.life = chat.life /\ k.gen = chat.generation /\ k.chat = chat.selected
                    => (k \in L \cup N <=> k \in tasks)
  <2> SUFFICES ASSUME NEW k, k.kind \in WaitedFor, k.life = chat.life,
                      k.gen = chat.generation, k.chat = chat.selected
               PROVE  k \in L \cup N <=> k \in tasks OBVIOUS
  <2> QED BY <1>2
<1>3. chat.user # Nobody => WaitsForTasks(chat, L \cup N, turns)
  <2> SUFFICES ASSUME chat.user # Nobody PROVE WaitsForTasks(chat, L \cup N, turns) OBVIOUS
  <2> QED BY <1>2, OthersWait, <1>1
<1> QED BY <1>1, <1>3, TheChat, ChatPageMoves, SamePage

LEMMA NameKeeps == ASSUME ChatInv, NameConversation PROVE ChatInv'
<1>1. /\ chat.user # Nobody /\ chat.user \in People /\ clicks' = clicks + 1 /\ chat' = chat
      /\ tasks' = tasks \cup {[NewTask("create", chat, 0) EXCEPT !.sub.user = chat.user]}
      /\ tab' = tab /\ unsettled' = unsettled /\ owner' = owner /\ turns' = turns
  BY TheChat DEF NameConversation, Click, SignedIn, serverVars
<1>2. chat \in ChatRow /\ "create" \in TaskKinds /\ 0 \in Nat BY TheChat DEF TaskKinds
<1>3. PICK n \in ChatTaskRow : /\ n = NewTask("create", chat, 0)
                               /\ n.kind = "create" /\ n.life = chat.life /\ n.gen = chat.generation
                               /\ n.pc = "ask" BY <1>2, NewTaskRow
<1>4. PICK s : s = [n.sub EXCEPT !.user = chat.user] OBVIOUS
<1>5. s \in SubRow /\ s.user = chat.user BY <1>1, <1>4 DEF SubRow, SomeUser, ChatTaskRow
<1>6. PICK k : k = [n EXCEPT !.sub = s] OBVIOUS
<1>7. k \in ChatTaskRow /\ k.kind = "create" /\ k.life = chat.life /\ k.gen = chat.generation
      /\ k.pc = "ask" /\ k.sub = s BY <1>3, <1>5, <1>6 DEF ChatTaskRow
<1>8. ChatTaskFits(k, chat, owner, turns)
  <2>1. chat.life \in Nat /\ chat.generation \in Nat BY <1>2 DEF ChatRow
  <2> QED BY <1>1, <1>5, <1>7, <2>1 DEF ChatTaskFits
<1>9. ChatFits(chat, tab, tasks \cup {k}, owner, turns, unsettled)
  <2>1. \A i \in tasks \ tasks : ~(/\ i.kind \in WaitedFor /\ i.life = chat.life
                                   /\ i.gen = chat.generation /\ i.chat = chat.selected) OBVIOUS
  <2> QED BY <2>1, BystandersMove, <1>7, <1>8 DEF WaitedFor
<1> QED BY <1>1, <1>9, OneMoreClick, <1>3, <1>4, <1>6 DEF ChatInv

LEMMA InputKeeps == ASSUME ChatInv, NEW text \in Typed \cup {""}, Input(text) PROVE ChatInv'
<1> DEFINE edited == chat.pending # NoSubmission /\ text # chat.pending.text
<1>1. /\ chat.user # Nobody /\ clicks' = clicks /\ chat.active_run = 0
      /\ chat' = [chat EXCEPT !.draft = text, !.pending = IF edited THEN NoSubmission ELSE @]
      /\ tab' = IF edited THEN ClearedPending(chat.pending) ELSE tab
      /\ unsettled' = IF text # unsettled.text THEN NoSubmission ELSE unsettled
      /\ tasks' = tasks /\ owner' = owner /\ turns' = turns
  BY DEF Input, SignedIn, ComposerFree, serverVars, webBudget
<1>2. chat \in ChatRow /\ tab \in TabRow /\ unsettled \in SubRow BY TheChat
<1>3. PICK s \in SubRow : s = IF edited THEN NoSubmission ELSE chat.pending BY NoSubmissionRow, <1>2 DEF ChatRow
<1>4. PICK q : q = [chat EXCEPT !.draft = text, !.pending = s] OBVIOUS
<1>5. /\ q \in ChatRow /\ q.pending = s
      /\ q.user = chat.user /\ q.life = chat.life /\ q.leaving = chat.leaving
      /\ q.generation = chat.generation /\ q.selected = chat.selected /\ q.messages = chat.messages
      /\ q.streamed = chat.streamed /\ q.active_run = chat.active_run
      /\ q.resolving_run = chat.resolving_run /\ q.submitting = chat.submitting BY <1>2, <1>4 DEF ChatRow
<1>6. PICK sb \in TabRow : sb = tab' /\ sb.run = tab.run /\ (~edited => sb = tab)
  <2> HIDE DEF edited
  <2> QED BY <1>1, <1>2, ClearedPendingRow
<1>7. PICK vn \in SubRow : vn = IF text # unsettled.text THEN NoSubmission ELSE unsettled BY <1>2, NoSubmissionRow
<1>8. StoredFits(q, sb, vn)
  <2>1. ASSUME vn # NoSubmission
        PROVE  q.user # Nobody /\ sb.pending = vn /\ q.pending = vn /\ vn.user = q.user
    <3>1. vn = unsettled /\ text = unsettled.text BY <1>7, <2>1
    <3> QED BY <1>1, <1>3, <1>5, <1>6, <3>1, <2>1, TheChat DEF StoredFits
  <2> QED BY <1>1, <1>5, <2>1 DEF StoredFits
<1>9. ShowsSelection(q, owner, turns) /\ WaitsForTasks(q, tasks \cup {}, turns)
  <2>1. ShowsSelection(chat, owner, turns) /\ WaitsForTasks(chat, tasks, turns) BY <1>1, TheChat DEF SignedIn
  <2> QED BY <1>5, <2>1, OthersWait DEF ShowsSelection
<1>10. NotBefore(chat, q) BY <1>2, <1>5, SamePage
<1>11. ChatFits(q, sb, tasks \cup {}, owner, turns, vn)
  <2>1. tasks \subseteq tasks /\ {} \subseteq ChatTaskRow OBVIOUS
  <2> HIDE DEF edited
  <2> QED BY <1>5, <1>8, <1>9, <1>10, <2>1, TheChat, ChatPageMoves, <1>6, TabKeeps
<1> QED BY <1>1, <1>6, <1>11, TheChat, <1>3, <1>4, <1>7 DEF ChatInv

LEMMA SendKeeps == ASSUME ChatInv, Send PROVE ChatInv'
<1> DEFINE theSub == [user |-> chat.user, chat |-> chat.selected, text |-> chat.draft,
                      id |-> Key(chat.pending, chat.selected, chat.draft)]
<1>1. /\ chat.user # Nobody /\ chat.selected # NoChat /\ clicks' = clicks + 1
      /\ chat.active_run = 0 /\ ~chat.resolving_run
      /\ tab' = [tab EXCEPT !.pending = theSub]
      /\ chat' = [chat EXCEPT !.pending = theSub, !.submitting = TRUE, !.generation = @ + 1, !.streamed = <<>>]
      /\ tasks' = tasks \cup {[NewTask("send", chat', 0) EXCEPT !.sub = theSub]}
      /\ unsettled' = IF unsettled.chat = theSub.chat /\ unsettled.text = theSub.text THEN unsettled ELSE theSub
      /\ owner' = owner /\ turns' = turns BY DEF Send, Click, SignedIn, ComposerFree, serverVars
<1>2. chat \in ChatRow /\ tab \in TabRow /\ unsettled \in SubRow /\ clicks \in Nat BY TheChat
<1>3. chat.pending \in SubRow /\ chat.user \in SomeUser /\ chat.selected \in SomeChat
      /\ chat.draft \in Typed \cup {""} BY <1>2 DEF ChatRow
<1>4. PICK id \in Nat : id = Key(chat.pending, chat.selected, chat.draft)
  <2>1. chat.pending.id \in Nat BY <1>3 DEF SubRow
  <2> QED BY <2>1, <1>2 DEF Key
<1>5. PICK sub : sub = theSub OBVIOUS
<1>6. /\ sub \in SubRow /\ sub.user = chat.user /\ sub.chat = chat.selected /\ sub.text = chat.draft
      /\ sub.id = id BY <1>3, <1>4, <1>5 DEF SubRow
<1> HIDE DEF theSub
<1>7. PICK e \in Seq(Nat), g \in Seq(Nat \X Nat) : e = << >> /\ g = << >> /\ Len(e) = 0 BY NoLists
<1>8. PICK n \in Nat : n = chat.generation + 1 /\ chat.generation < n BY <1>2, NextGeneration
<1>9. PICK q : q = [chat EXCEPT !.pending = sub, !.submitting = TRUE, !.generation = n, !.streamed = g] OBVIOUS
<1>10. chat' = q BY <1>1, <1>5, <1>7, <1>8, <1>9
<1>11. /\ q \in ChatRow /\ q.generation = n /\ q.submitting = TRUE /\ q.streamed = g /\ q.pending = sub
       /\ q.selected = chat.selected /\ q.messages = chat.messages /\ q.active_run = chat.active_run
       /\ q.resolving_run = chat.resolving_run /\ q.user = chat.user /\ q.life = chat.life
  BY <1>2, <1>6, <1>9 DEF ChatRow
<1>12. PICK sb : sb = [tab EXCEPT !.pending = sub] OBVIOUS
<1>13. sb \in TabRow /\ sb.run = tab.run /\ sb.pending = sub BY <1>2, <1>6, <1>12 DEF TabRow
<1>14. TabFits(sb, owner, turns) BY <1>13, TheChat, TabKeeps
<1>15. PICK vn \in SubRow : vn = IF unsettled.chat = sub.chat /\ unsettled.text = sub.text
                                 THEN unsettled ELSE sub BY <1>2, <1>6
\* Sent again, the message that is unsettled has its key.
<1>16. vn # NoSubmission => vn = sub
  <2> SUFFICES ASSUME unsettled # NoSubmission, unsettled.chat = sub.chat, unsettled.text = sub.text
               PROVE  unsettled = sub BY <1>15
  <2>1. unsettled = [user |-> unsettled.user, chat |-> unsettled.chat, id |-> unsettled.id,
                     text |-> unsettled.text] BY <1>2 DEF SubRow
  <2>2. unsettled = [user |-> sub.user, chat |-> sub.chat, id |-> sub.id, text |-> sub.text]
    BY <1>6, <2>1, <1>4, TheChat DEF Key, StoredFits
  <2> QED BY <2>2, <1>6 DEF SubRow
<1>17. StoredFits(q, sb, vn) BY <1>1, <1>6, <1>11, <1>13, <1>16 DEF StoredFits
<1>18. Later(chat, q) BY <1>8, <1>11 DEF Later
<1>19. ShowsSelection(q, owner, turns) BY <1>1, <1>7, <1>11, TheChat DEF ShowsSelection, SignedIn
<1>20. PICK m \in ChatTaskRow : /\ m = NewTask("send", q, 0)
                                /\ m.kind = "send" /\ m.life = q.life /\ m.gen = q.generation
                                /\ m.chat = q.selected /\ m.pc = "ask" BY <1>11, NewTaskRow DEF TaskKinds
<1>21. PICK k : k = [m EXCEPT !.sub = sub] OBVIOUS
<1>22. k \in ChatTaskRow /\ k.kind = "send" /\ k.life = q.life /\ k.gen = q.generation
       /\ k.chat = q.selected /\ k.pc = "ask" /\ k.sub = sub BY <1>6, <1>20, <1>21 DEF ChatTaskRow
<1>23. ChatTaskFits(k, q, owner, turns) BY <1>11, <1>22, TheChat, NewTaskFits, <1>1, <1>3, <1>6 DEF SomeChat
<1>24. WaitsForTasks(q, {k}, turns) BY <1>1, <1>11, <1>22, WaitsForSend
<1>25. ChatFits(q, sb, tasks \cup {k}, owner, turns, vn)
  <2>1. \A i \in {k} : ChatTaskFits(i, q, owner, turns) BY <1>23
  <2>2. tasks \subseteq tasks /\ {k} \subseteq ChatTaskRow BY <1>22
  <2> QED BY <1>11, <1>14, <1>17, <1>18, <1>19, <1>24, <2>1, <2>2, TheChat, ChatPageTurns
<1> QED BY <1>1, <1>10, <1>25, OneMoreClick, <1>5, <1>20, <1>21, <1>12, <1>15 DEF ChatInv

\* A page that leaves its conversations, with the run and the answer of the last
\* one, for a new conversation.
LEMMA CreatedKeeps == ASSUME ChatInv, NEW t \in tasks, ConversationCreated(t) PROVE ChatInv'
<1>1. /\ t.pc = "got" /\ t.kind = "create" /\ clicks' = clicks
      /\ chat' = IF t.res = "ok" /\ SignedIn /\ t.life = chat.life
               THEN [chat EXCEPT !.generation = @ + 1, !.selected = t.chat, !.messages = <<>>,
                                 !.streamed = <<>>, !.active_run = 0, !.resolving_run = FALSE,
                                 !.submitting = FALSE]
               ELSE chat
      /\ tasks' = tasks \ {t}
      /\ tab' = tab /\ unsettled' = unsettled /\ owner' = owner /\ turns' = turns
  BY DEF ConversationCreated, Holds, TaskEnds, OnlyPage, serverVars, webBudget
<1>2. chat \in ChatRow /\ clicks \in Nat BY TheChat
<1>3. CASE t.res = "ok" /\ SignedIn /\ t.life = chat.life
  <2>1. t.chat \in Chats /\ owner[t.chat] = chat.user BY <1>1, <1>3, TheChat DEF ChatTaskFits
  <2>2. PICK e \in Seq(Nat), g \in Seq(Nat \X Nat) : e = << >> /\ g = << >> /\ Len(e) = 0 BY NoLists
  <2>3. PICK n \in Nat : n = chat.generation + 1 /\ chat.generation < n BY <1>2, NextGeneration
  <2>4. PICK c : c = t.chat OBVIOUS
  <2>5. PICK q : q = [chat EXCEPT !.generation = n, !.selected = c, !.messages = e,
                                 !.streamed = g, !.active_run = 0, !.resolving_run = FALSE,
                                 !.submitting = FALSE] OBVIOUS
  <2>6. /\ q \in ChatRow /\ q.generation = n /\ q.selected = c /\ q.messages = e /\ q.streamed = g
        /\ q.active_run = 0 /\ q.resolving_run = FALSE /\ q.submitting = FALSE
        /\ q.user = chat.user /\ q.life = chat.life /\ q.pending = chat.pending
    BY <1>2, <2>1, <2>4, <2>5 DEF ChatRow, SomeChat
  <2>7. Later(chat, q) BY <2>3, <2>6 DEF Later
  <2>8. ShowsSelection(q, owner, turns) BY <2>1, <2>4, <2>6, ChatAssumption, NoMessages, <2>2 DEF ShowsSelection
  <2>9. WaitsForTasks(q, {}, turns) BY <2>6, WaitsForNone
  <2>10. (tasks \ {t}) \cup {} = tasks \ {t} /\ tasks \ {t} \subseteq tasks /\ {} \subseteq ChatTaskRow OBVIOUS
  <2>11. ChatFits(q, tab, (tasks \ {t}) \cup {}, owner, turns, unsettled)
    <3>1. \A i \in {} : ChatTaskFits(i, q, owner, turns) OBVIOUS
    <3> QED BY <2>6, <2>7, <2>8, <2>9, <2>10, <3>1, TheChat, ChatPageTurns, StoredStays
  <2> QED BY <1>1, <1>2, <2>10, <2>11, <1>3, <2>2, <2>3, <2>4, <2>5 DEF ChatInv
<1>4. CASE ~(t.res = "ok" /\ SignedIn /\ t.life = chat.life)
  <2>1. ChatFits(chat, tab, (tasks \ {t}) \cup {}, owner, turns, unsettled)
    <3>1. \A i \in tasks \ (tasks \ {t}) : ~(/\ i.kind \in WaitedFor /\ i.life = chat.life
                                             /\ i.gen = chat.generation /\ i.chat = chat.selected)
      BY <1>1 DEF WaitedFor
    <3> QED BY <3>1, BystandersMove
  <2> QED BY <1>1, <1>2, <2>1, <1>4 DEF ChatInv
<1> QED BY <1>3, <1>4

-----------------------------------------------------------------------------
(* The chat page: the server *)

LEMMA ServerStays ==
  ASSUME ChatInv
  PROVE  ServerFits(owner, turns) /\ OwnersStay(owner, owner) /\ TurnsGoOn(turns, turns)
<1>1. turns \in Seq(TurnRow) /\ Len(turns) \in Nat BY TheChat
<1>2. ASSUME NEW r \in 1 .. Len(turns) PROVE RunGoesOn(turns[r], turns[r]) BY <1>1 DEF RunGoesOn, TurnRow
<1> QED BY <1>1, <1>2 DEF OwnersStay, TurnsGoOn, ChatInv, ChatFits

LEMMA ServerAppends ==
  ASSUME ChatInv, NEW row \in TurnRow, row.sub.chat = row.chat
  PROVE  /\ ServerFits(owner, Append(turns, row)) /\ TurnsGoOn(turns, Append(turns, row))
         /\ RunOf(Len(turns) + 1, row.chat, Append(turns, row))
<1>1. turns \in Seq(TurnRow) /\ Len(turns) \in Nat /\ owner \in [Chats -> SomeUser] BY TheChat
<1>2. PICK tm \in Seq(TurnRow) : tm = Append(turns, row)
  <2>1. Append(turns, row) \in Seq(TurnRow) BY <1>1
  <2> QED BY <2>1, Zenon
<1>3. Len(tm) = Len(turns) + 1 /\ tm[Len(turns) + 1] = row /\ \A r \in 1 .. Len(turns) : tm[r] = turns[r]
  BY <1>1, <1>2
<1>4. \A r \in 1 .. Len(tm) : tm[r].sub.chat = tm[r].chat BY <1>3, ServerStays, <1>1 DEF ServerFits
<1> QED BY <1>1, <1>2, <1>3, <1>4, ServerStays DEF ServerFits, RunOf, TurnsGoOn

LEMMA ServerUpdates ==
  ASSUME ChatInv, NEW r \in 1 .. Len(turns), NEW row \in TurnRow, row.sub = turns[r].sub,
         RunGoesOn(turns[r], row), NEW tm, tm = [turns EXCEPT ![r] = row]
  PROVE  ServerFits(owner, tm) /\ TurnsGoOn(turns, tm)
<1>1. turns \in Seq(TurnRow) /\ Len(turns) \in Nat /\ owner \in [Chats -> SomeUser] BY TheChat
<1>2. tm \in Seq(TurnRow) /\ Len(tm) = Len(turns) BY <1>1
<1>3. \A i \in 1 .. Len(turns) : tm[i] = IF i = r THEN row ELSE turns[i] BY <1>1
<1>4. \A i \in 1 .. Len(tm) : tm[i].sub.chat = tm[i].chat BY <1>2, <1>3, ServerStays DEF ServerFits, RunGoesOn
<1> QED BY <1>1, <1>2, <1>4, <1>3, ServerStays DEF ServerFits, TurnsGoOn

LEMMA CancelKeeps == ASSUME ChatInv, CancelRun PROVE ChatInv'
<1>1. PICK r : r = chat.active_run OBVIOUS
<1>2. /\ SignedIn /\ chat.selected # NoChat /\ r # 0 /\ clicks' = clicks + 1
      /\ turns' = [turns EXCEPT ![r].cancel = TRUE]
      /\ chat' = chat /\ tab' = tab /\ tasks' = tasks /\ owner' = owner /\ unsettled' = unsettled
  BY <1>1 DEF CancelRun, Click
<1>3. r \in 1 .. Len(turns) /\ turns \in Seq(TurnRow) BY <1>1, <1>2, TheChat DEF ShowsSelection, RunOf
<1>4. PICK o \in TurnRow : o = turns[r] BY <1>3
<1>5. PICK row : row = [o EXCEPT !.cancel = TRUE] OBVIOUS
<1>6. row \in TurnRow /\ row.sub = o.sub /\ row.chat = o.chat /\ row.log = o.log BY <1>5 DEF TurnRow
<1>7. RunGoesOn(turns[r], row) BY <1>4, <1>6 DEF RunGoesOn, TurnRow
<1>8. PICK tm : tm = [turns EXCEPT ![r] = row] OBVIOUS
<1>9. ChatFits(chat, tab, tasks, owner, tm, unsettled)
  BY TheChat, ChatServerGrows, <1>3, <1>4, <1>6, <1>7, <1>8, ServerUpdates, ServerStays
<1> QED BY <1>2, <1>9, OneMoreClick, <1>4, <1>5, <1>8 DEF ChatInv

LEMMA EmitKeeps == ASSUME ChatInv, NEW r \in DOMAIN turns, Emit(r) PROVE ChatInv'
<1>1. r \in 1 .. Len(turns) /\ turns \in Seq(TurnRow) /\ clicks \in Nat BY TheChat
<1>2. PICK o \in TurnRow : o = turns[r] BY <1>1
<1>3. \E e \in RunEvents, s \in {"active"} \cup EndStates :
         turns' = [turns EXCEPT ![r] = [o EXCEPT !.log = Append(o.log, e), !.state = s]]
  <2>1. CASE \E e \in {"delta", "reset"} : turns' = [turns EXCEPT ![r].log = Append(@, e)]
    <3>1. PICK e \in {"delta", "reset"} : turns' = [turns EXCEPT ![r].log = Append(@, e)] BY <2>1
    <3>2. turns' = [turns EXCEPT ![r] = [o EXCEPT !.log = Append(o.log, e)]] BY <1>2, <3>1
    <3> QED BY <3>2 DEF RunEvents, TurnRow
  <2>2. CASE \E s \in {"completed", "failed"} \cup (IF turns[r].cancel THEN {"canceled"} ELSE {}) :
             turns' = [turns EXCEPT ![r].log = Append(@, s), ![r].state = s]
    <3>1. PICK s \in {"completed", "failed"} \cup (IF turns[r].cancel THEN {"canceled"} ELSE {}) :
             turns' = [turns EXCEPT ![r].log = Append(@, s), ![r].state = s] BY <2>2
    <3> QED BY <1>1, <1>2, <3>1 DEF RunEvents, EndStates
  <2> QED BY <2>1, <2>2 DEF Emit
<1>4. PICK e \in RunEvents, s \in {"active"} \cup EndStates :
         turns' = [turns EXCEPT ![r] = [o EXCEPT !.log = Append(o.log, e), !.state = s]] BY <1>3
<1>5. o.log \in Seq(RunEvents) /\ Len(o.log) \in Nat BY DEF TurnRow
<1>6. PICK log \in Seq(RunEvents) : log = Append(o.log, e)
  <2>1. Append(o.log, e) \in Seq(RunEvents) BY <1>5
  <2> QED BY <2>1, Zenon
<1>7. PICK row : row = [o EXCEPT !.log = log, !.state = s] OBVIOUS
<1>8. row \in TurnRow /\ row.sub = o.sub /\ row.chat = o.chat /\ row.log = log BY <1>7 DEF TurnRow
<1>9. RunGoesOn(turns[r], row) BY <1>2, <1>8, <1>5, <1>6 DEF RunGoesOn
<1>10. PICK tm : tm = [turns EXCEPT ![r] = row] OBVIOUS
<1>11. ChatFits(chat, tab, tasks, owner, tm, unsettled)
  BY TheChat, ChatServerGrows, <1>1, <1>2, <1>8, <1>9, <1>10, ServerUpdates, ServerStays
<1> QED BY <1>1, <1>11, <1>4, <1>6, <1>7, <1>10 DEF ChatInv, Emit, webBudget

\* A task that is answered stays what it was.
Continues(t, u) ==
    /\ u.kind = t.kind /\ u.life = t.life /\ u.gen = t.gen /\ u.chat = t.chat /\ u.sub = t.sub
    /\ u.cursor = t.cursor /\ (t.kind \in {"follow", "status"} => u.run = t.run)

LEMMA ContinuesFits ==
  ASSUME NEW t, NEW u, NEW p, NEW ow, NEW tn, ChatTaskFits(t, p, ow, tn), Continues(t, u),
         u.kind # "create",
         u.kind \in {"send", "resolve"} /\ u.pc = "got" /\ u.res = "ok" /\ (u.kind = "send" \/ u.run # 0)
           => u.run # 0 /\ RunOf(u.run, u.chat, tn),
         u.kind \in {"load", "reload"} => MessagesOf(u.msgs, u.chat, tn),
         u.kind = "follow" /\ u.pc = "got" /\ u.res = "ok"
           => u.cursor <= u.num /\ u.num <= Len(tn[u.run].log)
  PROVE  ChatTaskFits(u, p, ow, tn)
  BY DEF ChatTaskFits, Continues

LEMMA ContinuesSame == ASSUME NEW t, NEW u, Continues(t, u) PROVE SameTask(t, u)
  BY DEF Continues, SameTask

LEMMA ReplyKeeps ==
  ASSUME ChatInv, NEW t \in tasks, NEW u \in ChatTaskRow, SameTask(t, u),
         NEW om, NEW tm, ServerFits(om, tm), OwnersStay(owner, om), TurnsGoOn(turns, tm),
         ChatTaskFits(u, chat, om, tm), Replaced(t, u), owner' = om, turns' = tm,
         chat' = chat, tab' = tab, unsettled' = unsettled, clicks' = clicks
  PROVE  ChatInv'
  BY TheChat, ChatTaskSwaps, ChatServerGrows DEF ChatInv, Replaced

\* The server has not changed.
LEMMA MereReplyKeeps ==
  ASSUME ChatInv, NEW t \in tasks, NEW u \in ChatTaskRow, Continues(t, u), u.kind # "create",
         u.kind \in {"send", "resolve"} /\ u.pc = "got" /\ u.res = "ok" /\ (u.kind = "send" \/ u.run # 0)
           => u.run # 0 /\ RunOf(u.run, u.chat, turns),
         u.kind \in {"load", "reload"} => MessagesOf(u.msgs, u.chat, turns),
         u.kind = "follow" /\ u.pc = "got" /\ u.res = "ok"
           => u.cursor <= u.num /\ u.num <= Len(turns[u.run].log),
         Replaced(t, u), owner' = owner, turns' = turns,
         chat' = chat, tab' = tab, unsettled' = unsettled, clicks' = clicks
  PROVE  ChatInv'
  BY ServerStays, ReplyKeeps, ContinuesSame, ContinuesFits, TheChat

LEMMA TranscriptOf ==
  ASSUME ChatInv, NEW c
  PROVE  Transcript(c) \in Seq(Nat) /\ MessagesOf(Transcript(c), c, turns)
<1>1. Len(turns) \in Nat BY TheChat
<1>2. PICK ms : ms = Transcript(c) OBVIOUS
<1>3. ms \in Seq(1 .. 2 * Len(turns)) /\ \A i \in 1 .. Len(ms) : InTranscript(c, ms[i]) BY <1>1, <1>2, TranscriptLists
<1>4. ASSUME NEW i \in 1 .. Len(ms) PROVE RunOf((ms[i] + 1) \div 2, c, turns)
  <2>1. PICK n \in 1 .. 2 * Len(turns) : n = ms[i] BY <1>3
  <2>2. (n + 1) \div 2 \in 1 .. Len(turns) BY <1>1
  <2> QED BY <2>1, <2>2, <1>3 DEF RunOf, InTranscript
<1> QED BY <1>2, <1>4, <1>3, <1>1 DEF MessagesOf

\* The answers of the server to a task t, as records.
LEMMA ReplyRow ==
  ASSUME NEW t \in ChatTaskRow, NEW res \in {"none", "ok", "error", "lost", "active"} \cup EndStates
  PROVE  \E u \in ChatTaskRow :
            /\ u = [t EXCEPT !.pc = "got", !.res = res]
            /\ u.pc = "got" /\ u.res = res /\ u.msgs = t.msgs /\ u.run = t.run /\ u.num = t.num
            /\ Continues(t, u)
<1>1. PICK u : u = [t EXCEPT !.pc = "got", !.res = res] OBVIOUS
<1>2. u \in ChatTaskRow /\ u.pc = "got" /\ u.res = res /\ u.msgs = t.msgs /\ u.run = t.run /\ u.num = t.num
      /\ u.kind = t.kind /\ u.life = t.life /\ u.gen = t.gen /\ u.chat = t.chat /\ u.sub = t.sub
      /\ u.cursor = t.cursor BY <1>1 DEF ChatTaskRow
<1> QED BY <1>1, <1>2 DEF Continues

LEMMA ReplyRun ==
  ASSUME NEW t \in ChatTaskRow, NEW u \in ChatTaskRow, Continues(t, u), NEW run \in Nat,
         t.kind \notin {"follow", "status"}
  PROVE  \E v \in ChatTaskRow :
            /\ v = [u EXCEPT !.run = run]
            /\ v.pc = u.pc /\ v.res = u.res /\ v.msgs = u.msgs /\ v.run = run /\ v.num = u.num
            /\ Continues(t, v)
<1>1. PICK v : v = [u EXCEPT !.run = run] OBVIOUS
<1>2. v \in ChatTaskRow /\ v.pc = u.pc /\ v.res = u.res /\ v.msgs = u.msgs /\ v.run = run /\ v.num = u.num
      /\ v.kind = u.kind /\ v.life = u.life /\ v.gen = u.gen /\ v.chat = u.chat /\ v.sub = u.sub
      /\ v.cursor = u.cursor BY <1>1 DEF ChatTaskRow
<1> QED BY <1>1, <1>2 DEF Continues

LEMMA ReplyMessages ==
  ASSUME NEW t \in ChatTaskRow, NEW u \in ChatTaskRow, Continues(t, u), NEW ms \in Seq(Nat)
  PROVE  \E v \in ChatTaskRow :
            /\ v = [u EXCEPT !.msgs = ms]
            /\ v.pc = u.pc /\ v.res = u.res /\ v.msgs = ms /\ v.run = u.run /\ v.num = u.num
            /\ Continues(t, v)
<1>1. PICK v : v = [u EXCEPT !.msgs = ms] OBVIOUS
<1>2. v \in ChatTaskRow /\ v.pc = u.pc /\ v.res = u.res /\ v.msgs = ms /\ v.run = u.run /\ v.num = u.num
      /\ v.kind = u.kind /\ v.life = u.life /\ v.gen = u.gen /\ v.chat = u.chat /\ v.sub = u.sub
      /\ v.cursor = u.cursor BY <1>1 DEF ChatTaskRow
<1> QED BY <1>1, <1>2 DEF Continues

LEMMA ReplyNumber ==
  ASSUME NEW t \in ChatTaskRow, NEW u \in ChatTaskRow, Continues(t, u), NEW n \in Nat
  PROVE  \E v \in ChatTaskRow :
            /\ v = [u EXCEPT !.num = n]
            /\ v.pc = u.pc /\ v.res = u.res /\ v.msgs = u.msgs /\ v.run = u.run /\ v.num = n
            /\ Continues(t, v)
<1>1. PICK v : v = [u EXCEPT !.num = n] OBVIOUS
<1>2. v \in ChatTaskRow /\ v.pc = u.pc /\ v.res = u.res /\ v.msgs = u.msgs /\ v.run = u.run /\ v.num = n
      /\ v.kind = u.kind /\ v.life = u.life /\ v.gen = u.gen /\ v.chat = u.chat /\ v.sub = u.sub
      /\ v.cursor = u.cursor BY <1>1 DEF ChatTaskRow
<1> QED BY <1>1, <1>2 DEF Continues

LEMMA TurnStarts ==
  ASSUME ChatInv, NEW t \in tasks, t.kind = "send", StartTurn(t), owner' = owner,
         chat' = chat, tab' = tab, unsettled' = unsettled, clicks' = clicks
  PROVE  ChatInv'
<1>1. t \in ChatTaskRow /\ turns \in Seq(TurnRow) /\ Len(turns) \in Nat /\ ChatTaskFits(t, chat, owner, turns)
  BY TheChat
<1>2. t.chat \in Chats /\ t.sub.chat = t.chat /\ t.sub \in SubRow BY <1>1 DEF ChatTaskFits, ChatTaskRow
<1>3. PICK told \in ChatTaskRow :
            /\ told = [t EXCEPT !.pc = "got", !.res = "ok"]
            /\ told.pc = "got" /\ told.res = "ok" /\ told.msgs = t.msgs
            /\ Continues(t, told) BY <1>1, ReplyRow
<1>4. PICK failed \in ChatTaskRow :
            /\ failed = [told EXCEPT !.res = "error"]
            /\ failed.pc = "got" /\ failed.res = "error" /\ Continues(t, failed)
  <2>1. PICK v : v = [told EXCEPT !.res = "error"] OBVIOUS
  <2>2. v \in ChatTaskRow /\ v.pc = "got" /\ v.res = "error"
        /\ v.kind = told.kind /\ v.life = told.life /\ v.gen = told.gen /\ v.chat = told.chat
        /\ v.sub = told.sub /\ v.cursor = told.cursor /\ v.run = told.run BY <1>3, <2>1 DEF ChatTaskRow
  <2>3. Continues(t, v) BY <1>3, <2>2 DEF Continues
  <2> QED BY <2>1, <2>2, <2>3
<1>5. t.kind \notin {"follow", "status"} /\ failed.kind = "send" BY <1>4 DEF Continues
<1>6. \A run \in Nat : \E v \in ChatTaskRow :
            /\ v = [told EXCEPT !.run = run]
            /\ v.pc = told.pc /\ v.res = told.res /\ v.msgs = told.msgs /\ v.run = run /\ v.num = told.num
            /\ Continues(t, v)
  <2>1. t \in ChatTaskRow /\ told \in ChatTaskRow /\ Continues(t, told) /\ t.kind \notin {"follow", "status"}
    BY <1>1, <1>3, <1>5
  <2> QED BY <2>1, ReplyRun
<1>7. CASE \E r \in {r \in DOMAIN turns : turns[r].sub = t.sub} :
             Replaced(t, [told EXCEPT !.run = r]) /\ turns' = turns
  <2>1. PICK r \in 1 .. Len(turns) : /\ turns[r].sub = t.sub /\ turns' = turns
                                     /\ Replaced(t, [told EXCEPT !.run = r])
    <3>1. DOMAIN turns = 1 .. Len(turns) BY <1>1
    <3> QED BY <1>7, <3>1
  <2>2. r \in Nat /\ r # 0 BY <1>1
  <2>3. PICK u \in ChatTaskRow : /\ u = [told EXCEPT !.run = r]
                                 /\ u.pc = told.pc /\ u.res = told.res /\ u.run = r /\ Continues(t, u) BY <1>6, <2>2
  <2>4. u.kind = "send" /\ u.chat = t.chat BY <2>3 DEF Continues
  <2>5. RunOf(u.run, u.chat, turns) BY <2>3, <2>4, <1>2, <2>1, ServerStays DEF RunOf, ServerFits
  <2> QED BY <2>1, <2>2, <2>3, <2>4, <2>5, MereReplyKeeps
<1>8. CASE Replaced(t, failed) /\ turns' = turns BY <1>4, <1>5, <1>8, MereReplyKeeps
<1>9. ASSUME NEW row, row = [chat |-> t.chat, sub |-> t.sub, state |-> "active", cancel |-> FALSE, log |-> <<>>],
             turns' = Append(turns, row),
             Replaced(t, [told EXCEPT !.run = Len(turns) + 1]) \/ Replaced(t, failed)
      PROVE  ChatInv'
  <2>1. row \in TurnRow /\ row.sub.chat = row.chat /\ row.chat = t.chat
    <3>1. << >> \in Seq(RunEvents) OBVIOUS
    <3>2. PICK e \in Seq(RunEvents) : e = << >> BY <3>1, Zenon
    <3> QED BY <1>2, <1>9, <3>2 DEF TurnRow
  <2>2. PICK tm : tm = Append(turns, row) OBVIOUS
  <2>3. /\ ServerFits(owner, tm) /\ TurnsGoOn(turns, tm) /\ RunOf(Len(turns) + 1, t.chat, tm)
    BY <2>1, <2>2, ServerAppends
  <2>4. OwnersStay(owner, owner) BY DEF OwnersStay
  <2>5. ChatTaskFits(t, chat, owner, tm) BY <1>1, <2>3, <2>4, TaskStandsBy DEF ServerFits
  <2>6. CASE Replaced(t, failed)
    <3>1. ChatTaskFits(failed, chat, owner, tm) BY <1>4, <1>5, <2>5, ContinuesFits
    <3> QED BY <1>9, <2>2, <2>3, <2>4, <2>6, <3>1, ReplyKeeps, <1>4, ContinuesSame
  <2>7. CASE Replaced(t, [told EXCEPT !.run = Len(turns) + 1])
    <3>1. PICK r \in Nat : r = Len(turns) + 1 /\ r # 0 BY <1>1
    <3>2. PICK u \in ChatTaskRow : /\ u = [told EXCEPT !.run = r]
                                   /\ u.pc = told.pc /\ u.res = told.res /\ u.run = r /\ Continues(t, u) BY <1>6
    <3>3. ChatTaskFits(u, chat, owner, tm) BY <2>5, <3>1, <3>2, ContinuesFits, <2>3 DEF Continues
    <3>4. Replaced(t, u) BY <2>7, <3>1, <3>2
    <3> QED BY <1>9, <2>2, <2>3, <2>4, <3>3, <3>4, ReplyKeeps, <3>2, ContinuesSame
  <2> QED BY <1>9, <2>6, <2>7
<1> QED BY <1>7, <1>8, <1>9, <1>3, <1>4 DEF StartTurn

LEMMA CreateAnswered ==
  ASSUME ChatInv, NEW t \in tasks, t.kind = "create", NEW c \in Chats, owner[c] = Nobody,
         owner' = [owner EXCEPT ![c] = t.sub.user], turns' = turns,
         Replaced(t, [t EXCEPT !.pc = "got", !.res = "ok", !.chat = c]),
         chat' = chat, tab' = tab, unsettled' = unsettled, clicks' = clicks
  PROVE  ChatInv'
<1>1. /\ t \in ChatTaskRow /\ ChatTaskFits(t, chat, owner, turns)
      /\ owner \in [Chats -> SomeUser] /\ turns \in Seq(TurnRow) BY TheChat
<1>2. t.sub.user \in People BY <1>1 DEF ChatTaskFits
<1>3. PICK om : om = [owner EXCEPT ![c] = t.sub.user] OBVIOUS
<1>4. om \in [Chats -> SomeUser] /\ om[c] = t.sub.user /\ \A i \in Chats : i # c => om[i] = owner[i]
  BY <1>1, <1>2, <1>3 DEF SomeUser
<1>5. PICK u : u = [t EXCEPT !.pc = "got", !.res = "ok", !.chat = c] OBVIOUS
<1>6. /\ u \in ChatTaskRow /\ u.kind = "create" /\ u.life = t.life /\ u.gen = t.gen /\ u.chat = c
      /\ u.sub = t.sub BY <1>1, <1>5 DEF ChatTaskRow, SomeChat
<1>7. SameTask(t, u) BY <1>6 DEF SameTask
<1>8. ChatTaskFits(u, chat, om, turns) BY <1>2, <1>4, <1>6, <1>1 DEF ChatTaskFits
<1>9. Replaced(t, u) /\ owner' = om BY <1>3, <1>5
<1> QED BY <1>6, <1>7, <1>8, <1>9, ReplyKeeps, <1>4, ChatAssumption, ServerStays DEF OwnersStay, ServerFits

LEMMA ReadAnswered ==
  ASSUME ChatInv, NEW t \in tasks, NEW u, u \in Read(t), Replaced(t, u),
         owner' = owner, turns' = turns, chat' = chat, tab' = tab, unsettled' = unsettled, clicks' = clicks
  PROVE  ChatInv'
<1>1. /\ t \in ChatTaskRow /\ ChatTaskFits(t, chat, owner, turns) /\ turns \in Seq(TurnRow)
      /\ Len(turns) \in Nat BY TheChat
<1>2. PICK told \in ChatTaskRow :
            /\ told = [t EXCEPT !.pc = "got", !.res = "ok"]
            /\ told.pc = "got" /\ told.res = "ok" /\ told.msgs = t.msgs /\ told.run = t.run
            /\ Continues(t, told) BY <1>1, ReplyRow
<1>3. t \in ChatTaskRow /\ told \in ChatTaskRow /\ Continues(t, told) BY <1>1, <1>2
<1>4. CASE t.kind \in {"load", "reload"}
  <2>1. PICK ms \in Seq(Nat) : ms = Transcript(t.chat) /\ MessagesOf(ms, t.chat, turns) BY TranscriptOf
  <2>2. u = [told EXCEPT !.msgs = ms] BY <1>2, <1>4, <2>1 DEF Read
  <2>3. u \in ChatTaskRow /\ u.msgs = ms /\ Continues(t, u) BY <2>2, <1>3, ReplyMessages
  <2> QED BY <2>1, <2>3, MereReplyKeeps, <1>4 DEF Continues
<1>5. CASE t.kind = "resolve"
  <2>1. PICK r : /\ u = [told EXCEPT !.run = r]
                 /\ r \in IF ActiveRuns(t.chat) = {} THEN {0} ELSE ActiveRuns(t.chat) BY <1>2, <1>5 DEF Read
  <2>2. r = 0 \/ (r \in 1 .. Len(turns) /\ turns[r].chat = t.chat) BY <2>1, <1>1 DEF ActiveRuns
  <2>3. r \in Nat BY <1>1, <2>2
  <2>4. u \in ChatTaskRow /\ u.run = r /\ Continues(t, u) BY <2>1, <1>3, <2>3, ReplyRun, <1>5
  <2> QED BY <2>4, MereReplyKeeps, <2>2, <1>5 DEF RunOf, Continues
<1>6. CASE t.kind = "follow"
  <2>1. PICK n : n = Len(turns[t.run].log) OBVIOUS
  <2>2. t.run # 0 /\ RunOf(t.run, t.chat, turns) /\ t.cursor <= n BY <1>1, <1>6, <2>1 DEF ChatTaskFits
  <2>3. n \in Nat BY <2>1, <1>1, <2>2 DEF TurnRow, RunOf
  <2>4. \E v \in ChatTaskRow :
            /\ v = [told EXCEPT !.num = n]
            /\ v.pc = told.pc /\ v.res = told.res /\ v.msgs = told.msgs /\ v.run = told.run /\ v.num = n
            /\ Continues(t, v) BY <1>3, <2>3, ReplyNumber
  <2>5. u \in ChatTaskRow /\ u.num = n /\ u.run = t.run /\ Continues(t, u) BY <1>2, <2>4, <1>6, <2>1 DEF Read
  <2> QED BY <2>2, <2>5, MereReplyKeeps, <1>6, <2>1, <2>3 DEF Continues
<1>7. CASE t.kind = "status"
  <2>1. PICK s : s = turns[t.run].state OBVIOUS
  <2>2. turns[t.run] \in TurnRow BY <1>1, <1>7 DEF RunOf, ChatTaskFits
  <2>3. s \in {"none", "ok", "error", "lost", "active"} \cup EndStates BY <2>1, <2>2 DEF TurnRow
  <2>4. u = [t EXCEPT !.pc = "got", !.res = s] BY <1>7, <2>1, <1>1 DEF Read, ChatTaskRow
  <2>5. u \in ChatTaskRow /\ Continues(t, u)
    <3>1. \E v \in ChatTaskRow :
            /\ v = [t EXCEPT !.pc = "got", !.res = s]
            /\ v.pc = "got" /\ v.res = s /\ v.msgs = t.msgs /\ v.run = t.run /\ v.num = t.num
            /\ Continues(t, v) BY <1>3, <2>3, ReplyRow
    <3> QED BY <2>4, <3>1
  <2> QED BY <2>5, MereReplyKeeps, <1>7 DEF Continues
<1>8. CASE t.kind \notin {"load", "reload", "resolve", "follow", "status"} BY <1>8 DEF Read
<1> QED BY <1>4, <1>5, <1>6, <1>7, <1>8

LEMMA RequestFails ==
  ASSUME ChatInv, NEW t \in tasks, t.kind # "create", NEW res \in {"error", "lost"},
         Replaced(t, [t EXCEPT !.pc = "got", !.res = res]),
         owner' = owner, turns' = turns, chat' = chat, tab' = tab, unsettled' = unsettled, clicks' = clicks
  PROVE  ChatInv'
<1>1. t \in ChatTaskRow /\ ChatTaskFits(t, chat, owner, turns) BY TheChat
<1>2. PICK u \in ChatTaskRow : /\ u = [t EXCEPT !.pc = "got", !.res = res]
                               /\ u.res = res /\ u.msgs = t.msgs /\ Continues(t, u) BY <1>1, ReplyRow
<1>3. Replaced(t, u) BY <1>2
<1> QED BY <1>2, <1>3, MereReplyKeeps, <1>1 DEF ChatTaskFits, Continues

LEMMA RespondKeeps == ASSUME ChatInv, NEW t \in tasks, Respond(t) PROVE ChatInv'
<1>1. chat' = chat /\ tab' = tab /\ unsettled' = unsettled /\ clicks' = clicks BY DEF Respond
<1>2. CASE t.kind = "send" /\ StartTurn(t) /\ owner' = owner BY <1>1, <1>2, TurnStarts
<1>3. CASE t.kind = "create" /\ turns' = turns
           /\ \E c \in Chats : /\ owner[c] = Nobody /\ owner' = [owner EXCEPT ![c] = t.sub.user]
                               /\ Replaced(t, [t EXCEPT !.pc = "got", !.res = "ok", !.chat = c])
  BY <1>1, <1>3, CreateAnswered
<1>4. CASE (\E u \in Read(t) : Replaced(t, u)) /\ owner' = owner /\ turns' = turns BY <1>1, <1>4, ReadAnswered
<1>5. CASE /\ owner' = owner /\ turns' = turns /\ (TaskIsCurrent(t) \/ t.kind = "send")
           /\ \E res \in {"error", "lost"} : Replaced(t, [t EXCEPT !.pc = "got", !.res = res])
  <2>1. CASE t.kind # "create" BY <1>1, <1>5, <2>1, RequestFails
  <2>2. CASE t.kind = "create"
    <3>1. PICK res \in {"error", "lost"} : Replaced(t, [t EXCEPT !.pc = "got", !.res = res]) BY <1>5
    <3>2. t \in ChatTaskRow /\ ChatTaskFits(t, chat, owner, turns) BY TheChat
    <3>3. PICK u \in ChatTaskRow : /\ u = [t EXCEPT !.pc = "got", !.res = res]
                                   /\ u.res = res /\ Continues(t, u) BY <3>2, ReplyRow
    <3> QED BY <1>1, <1>5, ServerStays, ReplyKeeps, <3>1, <3>3, ContinuesSame, <2>2, <3>2 DEF ChatTaskFits, Continues
  <2> QED BY <2>1, <2>2
<1> QED BY <1>2, <1>3, <1>4, <1>5 DEF Respond, serverVars

-----------------------------------------------------------------------------
(* The chat page: the tasks after their answers *)

LEMMA StaleKeeps == ASSUME ChatInv, NEW t \in tasks, StaleAnswer(t) PROVE ChatInv'
<1>1. ASSUME chat.user # Nobody, t.kind \in WaitedFor, t.life = chat.life,
             t.gen = chat.generation, t.chat = chat.selected
      PROVE  FALSE
  <2>1. TaskIsCurrent(t) BY <1>1 DEF TaskIsCurrent, SignedIn
  <2>2. t.kind \in {"follow", "status"} /\ ~RunTaskIsCurrent(t) BY <1>1, <2>1 DEF StaleAnswer, WaitedFor
  <2> QED BY <2>1, <2>2, <1>1, TheChat DEF RunTaskIsCurrent, WaitsForTasks, SignedIn, TasksNow
<1>2. ChatFits(chat, tab, (tasks \ {t}) \cup {}, owner, turns, unsettled)
  <2>1. chat.user # Nobody
          => \A i \in tasks \ (tasks \ {t}) : ~(/\ i.kind \in WaitedFor /\ i.life = chat.life
                                                /\ i.gen = chat.generation /\ i.chat = chat.selected) BY <1>1
  <2> QED BY <2>1, BystandersMove
<1> QED BY <1>2, TheChat DEF ChatInv, StaleAnswer, TaskEnds, Untouched, OnlyPage, serverVars, webBudget

\* Task t was the only one that was waited for, and nothing is waited for now.
LEMMA NothingBegins ==
  ASSUME NEW p, NEW q, NEW K, NEW t \in K, NEW N, NEW tn,
         TasksNow(p, K, {"send"}) \subseteq {t}, TasksNow(p, K, {"resolve"}) \subseteq {t},
         TasksNow(p, K, {"follow", "status"}) \subseteq {t},
         q.life = p.life, q.generation = p.generation, q.selected = p.selected,
         ~q.submitting, ~q.resolving_run, q.active_run = 0,
         \A k \in N : k.kind \notin WaitedFor
  PROVE  WaitsForTasks(q, (K \ {t}) \cup N, tn)
<1>1. TasksNow(q, (K \ {t}) \cup N, {"follow", "status"}) = {} BY DEF TasksNow, WaitedFor
<1> QED BY <1>1 DEF WaitsForTasks, Exactly, TasksNow, WaitedFor

\* ... and a run is followed from its beginning.
LEMMA FollowerBegins ==
  ASSUME NEW p, NEW q, NEW K, NEW t \in K, NEW k, NEW tn,
         TasksNow(p, K, {"send"}) \subseteq {t}, TasksNow(p, K, {"resolve"}) \subseteq {t},
         TasksNow(p, K, {"follow", "status"}) \subseteq {t},
         q.life = p.life, q.generation = p.generation, q.selected = p.selected,
         ~q.submitting, ~q.resolving_run, q.active_run # 0, q.streamed = << >>,
         k.kind = "follow", k.life = q.life, k.gen = q.generation, k.chat = q.selected,
         k.run = q.active_run, k.cursor = 0
  PROVE  WaitsForTasks(q, (K \ {t}) \cup {k}, tn)
<1>1. TasksNow(q, (K \ {t}) \cup {k}, {"follow", "status"}) = {k} BY DEF TasksNow
<1>2. Streamed(<< >>, k.run, tn[k.run].log, 0, k.cursor) = << >> BY StreamedNothing
<1> QED BY <1>1, <1>2 DEF WaitsForTasks, Exactly, TasksNow

\* The only task that is waited for, by what the page waits for.
LEMMA OnlySender ==
  ASSUME ChatInv, NEW t \in tasks, TaskIsCurrent(t), t.kind = "send"
  PROVE  /\ chat.user # Nobody /\ chat.user \in People /\ chat.selected \in Chats /\ t.chat = chat.selected
         /\ chat.active_run = 0 /\ ~chat.resolving_run /\ chat.streamed = << >>
         /\ TasksNow(chat, tasks, {"send"}) \subseteq {t} /\ TasksNow(chat, tasks, {"resolve"}) \subseteq {t}
         /\ TasksNow(chat, tasks, {"follow", "status"}) \subseteq {t}
         /\ ShowsSelection(chat, owner, turns)
<1>1. /\ chat.user # Nobody /\ chat.user \in People /\ ShowsSelection(chat, owner, turns)
      /\ WaitsForTasks(chat, tasks, turns) /\ t.life = chat.life /\ t.gen = chat.generation
      /\ t.chat = chat.selected BY TheChat DEF TaskIsCurrent
<1>2. chat.submitting /\ TasksNow(chat, tasks, {"send"}) \subseteq {t} BY <1>1 DEF WaitsForTasks, Exactly, TasksNow
<1>3. chat.active_run = 0 /\ ~chat.resolving_run /\ chat.streamed = << >> BY <1>1, <1>2 DEF ShowsSelection
<1> QED BY <1>1, <1>2, <1>3, TheChat DEF ChatTaskFits, WaitsForTasks, Exactly

LEMMA OnlyResolver ==
  ASSUME ChatInv, NEW t \in tasks, TaskIsCurrent(t), t.kind = "resolve"
  PROVE  /\ chat.user # Nobody /\ chat.user \in People /\ chat.selected \in Chats /\ t.chat = chat.selected
         /\ ~chat.submitting /\ chat.streamed = << >>
         /\ TasksNow(chat, tasks, {"send"}) \subseteq {t} /\ TasksNow(chat, tasks, {"resolve"}) \subseteq {t}
         /\ TasksNow(chat, tasks, {"follow", "status"}) \subseteq {t}
         /\ ShowsSelection(chat, owner, turns)
<1>1. /\ chat.user # Nobody /\ chat.user \in People /\ ShowsSelection(chat, owner, turns)
      /\ WaitsForTasks(chat, tasks, turns) /\ t.life = chat.life /\ t.gen = chat.generation
      /\ t.chat = chat.selected BY TheChat DEF TaskIsCurrent
<1>2. chat.resolving_run /\ TasksNow(chat, tasks, {"resolve"}) \subseteq {t}
  BY <1>1 DEF WaitsForTasks, Exactly, TasksNow
<1>3. ~chat.submitting /\ chat.streamed = << >> BY <1>1, <1>2 DEF ShowsSelection
<1> QED BY <1>1, <1>2, <1>3, TheChat DEF ChatTaskFits, WaitsForTasks, Exactly

LEMMA OnlyFollower ==
  ASSUME ChatInv, NEW t \in tasks, RunTaskIsCurrent(t), t.kind \in {"follow", "status"}
  PROVE  /\ chat.user # Nobody /\ chat.user \in People /\ chat.selected \in Chats /\ t.chat = chat.selected
         /\ ~chat.submitting /\ ~chat.resolving_run /\ chat.active_run # 0 /\ t.run = chat.active_run
         /\ chat.streamed = Streamed(<< >>, t.run, turns[t.run].log, 0, t.cursor)
         /\ t \in TasksNow(chat, tasks, {"follow", "status"})
         /\ TasksNow(chat, tasks, {"send"}) \subseteq {t} /\ TasksNow(chat, tasks, {"resolve"}) \subseteq {t}
         /\ TasksNow(chat, tasks, {"follow", "status"}) \subseteq {t}
         /\ ShowsSelection(chat, owner, turns)
<1>1. /\ chat.user # Nobody /\ chat.user \in People /\ ShowsSelection(chat, owner, turns)
      /\ WaitsForTasks(chat, tasks, turns) /\ t.life = chat.life /\ t.gen = chat.generation
      /\ t.chat = chat.selected /\ t.run = chat.active_run BY TheChat DEF TaskIsCurrent, RunTaskIsCurrent
<1>2. t \in TasksNow(chat, tasks, {"follow", "status"}) BY <1>1 DEF TasksNow
<1>3. /\ chat.active_run # 0 /\ ~chat.resolving_run
      /\ TasksNow(chat, tasks, {"follow", "status"}) \subseteq {t}
      /\ chat.streamed = Streamed(<< >>, t.run, turns[t.run].log, 0, t.cursor)
  BY <1>1, <1>2 DEF WaitsForTasks, Exactly
<1>4. ~chat.submitting BY <1>1, <1>3 DEF ShowsSelection
<1> QED BY <1>1, <1>2, <1>3, <1>4, TheChat DEF ChatTaskFits, WaitsForTasks, Exactly

LEMMA MessageAdded ==
  ASSUME NEW ms \in Seq(Nat), NEW c, NEW tn \in Seq(TurnRow), MessagesOf(ms, c, tn), NEW r, r # 0, RunOf(r, c, tn)
  PROVE  Append(ms, 2 * r - 1) \in Seq(Nat) /\ MessagesOf(Append(ms, 2 * r - 1), c, tn)
<1>1. r \in 1 .. Len(tn) /\ Len(tn) \in Nat /\ Len(ms) \in Nat BY DEF RunOf
<1>2. PICK m \in Nat : m = 2 * r - 1 /\ (m + 1) \div 2 = r BY <1>1
<1>3. PICK ns : ns = Append(ms, m) OBVIOUS
<1>4. ns \in Seq(Nat) /\ Len(ns) = Len(ms) + 1 /\ ns[Len(ms) + 1] = m /\ \A i \in 1 .. Len(ms) : ns[i] = ms[i] BY <1>3
<1>5. ASSUME NEW i \in 1 .. Len(ns) PROVE RunOf((ns[i] + 1) \div 2, c, tn)
  <2>1. CASE i = Len(ms) + 1 BY <1>2, <1>4, <2>1
  <2>2. CASE i \in 1 .. Len(ms) BY <1>4, <2>2 DEF MessagesOf
  <2> QED BY <2>1, <2>2, <1>1, <1>4
<1> QED BY <1>2, <1>3, <1>4, <1>5 DEF MessagesOf

LEMMA StoredRunNow ==
  ASSUME ChatInv, chat.user \in People, chat.selected \in Chats, NEW r \in Nat, r # 0,
         RunOf(r, chat.selected, turns), owner[chat.selected] = chat.user,
         NEW tb \in TabRow, NEW sb, sb = [tb EXCEPT !.run = Session(r)]
  PROVE  /\ sb \in TabRow /\ sb.pending = tb.pending /\ TabFits(sb, owner, turns)
         /\ sb.run = [user |-> chat.user, chat |-> chat.selected, run |-> r]
<1>1. PICK s : s = [user |-> chat.user, chat |-> chat.selected, run |-> r] OBVIOUS
<1>2. s \in StoredRun /\ s.user = chat.user /\ s.chat = chat.selected /\ s.run = r
  BY <1>1 DEF StoredRun, SomeUser, SomeChat
<1> QED BY <1>1, <1>2 DEF TabFits, TabRow, Session

LEMMA FollowTask ==
  ASSUME NEW q \in ChatRow, NEW r \in Nat, q.selected \in Chats, r # 0, NEW ow, NEW tn \in Seq(TurnRow),
         RunOf(r, q.selected, tn)
  PROVE  \E k \in ChatTaskRow :
            /\ k = NewTask("follow", q, r) /\ k.kind = "follow" /\ k.life = q.life /\ k.gen = q.generation
            /\ k.chat = q.selected /\ k.run = r /\ k.cursor = 0
            /\ ChatTaskFits(k, q, ow, tn)
<1>1. PICK k \in ChatTaskRow :
            /\ k = NewTask("follow", q, r) /\ k.kind = "follow" /\ k.life = q.life /\ k.gen = q.generation
            /\ k.chat = q.selected /\ k.run = r /\ k.cursor = 0 /\ k.pc = "ask" BY NewTaskRow DEF TaskKinds
<1> QED BY <1>1, NewTaskFits

LEMMA TurnKeeps == ASSUME ChatInv, NEW t \in tasks, TurnAnswered(t) PROVE ChatInv'
<1>1. /\ t.pc = "got" /\ t.kind = "send" /\ TaskIsCurrent(t)
      /\ owner' = owner /\ turns' = turns /\ clicks' = clicks
  BY DEF TurnAnswered, Holds, OnlyPage, serverVars, webBudget
<1>2. /\ chat.user # Nobody /\ chat.user \in People /\ chat.selected \in Chats /\ t.chat = chat.selected
      /\ chat.active_run = 0 /\ ~chat.resolving_run /\ chat.streamed = << >>
      /\ TasksNow(chat, tasks, {"send"}) \subseteq {t} /\ TasksNow(chat, tasks, {"resolve"}) \subseteq {t}
      /\ TasksNow(chat, tasks, {"follow", "status"}) \subseteq {t}
      /\ ShowsSelection(chat, owner, turns) BY <1>1, OnlySender
<1>3. /\ chat \in ChatRow /\ tab \in TabRow /\ t \in ChatTaskRow /\ ChatTaskFits(t, chat, owner, turns)
      /\ turns \in Seq(TurnRow) /\ clicks \in Nat /\ unsettled \in SubRow BY TheChat
<1>4. chat.selected # NoChat BY <1>2, ChatAssumption
<1>5. owner[chat.selected] = chat.user /\ MessagesOf(chat.messages, chat.selected, turns)
  BY <1>2, <1>4 DEF ShowsSelection
<1>6. CASE /\ t.res = "ok"
           /\ tab' = [ClearedPending(t.sub) EXCEPT !.run = Session(t.run)]
           /\ chat' = [chat EXCEPT !.submitting = FALSE, !.pending = NoSubmission, !.resolving_run = FALSE,
                                  !.draft = IF @ = t.sub.text THEN "" ELSE @,
                                  !.messages = Append(@, 2 * t.run - 1), !.active_run = t.run]
           /\ unsettled' = NoSubmission
           /\ Replaced(t, NewTask("follow", chat', t.run))
  <2>1. PICK r \in Nat : r = t.run BY <1>3 DEF ChatTaskRow
  <2>2. r # 0 /\ RunOf(r, chat.selected, turns) BY <1>1, <1>2, <1>3, <1>6, <2>1 DEF ChatTaskFits
  <2>3. PICK ms \in Seq(Nat) : ms = Append(chat.messages, 2 * r - 1) /\ MessagesOf(ms, chat.selected, turns)
    BY <1>3, <1>5, <2>2, MessageAdded DEF ChatRow
  <2>4. PICK d \in Typed \cup {""} : d = IF chat.draft = t.sub.text THEN "" ELSE chat.draft BY <1>3 DEF ChatRow
  <2>5. PICK q : q = [chat EXCEPT !.submitting = FALSE, !.pending = NoSubmission, !.resolving_run = FALSE,
                                  !.draft = d, !.messages = ms, !.active_run = r] OBVIOUS
  <2>6. chat' = q BY <1>6, <2>1, <2>3, <2>4, <2>5
  <2>7. /\ q \in ChatRow /\ q.submitting = FALSE /\ q.resolving_run = FALSE /\ q.messages = ms
        /\ q.active_run = r /\ q.life = chat.life /\ q.generation = chat.generation
        /\ q.selected = chat.selected /\ q.user = chat.user /\ q.streamed = chat.streamed
    BY <1>3, <2>5, NoSubmissionRow DEF ChatRow
  <2>8. PICK tb \in TabRow : tb = ClearedPending(t.sub) BY <1>3, ClearedPendingRow
  <2>9. PICK sb : sb = [tb EXCEPT !.run = Session(r)] OBVIOUS
  <2>10. /\ TabFits(sb, owner, turns)
         /\ sb.run = [user |-> chat.user, chat |-> chat.selected, run |-> r] BY <1>2, <1>5, <2>2, <2>9, StoredRunNow
  <2>11. StoredFits(q, sb, NoSubmission) BY <2>7, <2>10 DEF StoredFits
  <2>12. ShowsSelection(q, owner, turns) BY <1>4, <1>5, <2>2, <2>3, <2>7 DEF ShowsSelection
  <2>13. PICK k \in ChatTaskRow :
            /\ k = NewTask("follow", q, r) /\ k.kind = "follow" /\ k.life = q.life /\ k.gen = q.generation
            /\ k.chat = q.selected /\ k.run = r /\ k.cursor = 0
            /\ ChatTaskFits(k, q, owner, turns) BY <1>3, <2>2, <2>7, FollowTask, <1>2
  <2>14. WaitsForTasks(q, (tasks \ {t}) \cup {k}, turns) BY <1>2, <2>2, <2>7, <2>13, FollowerBegins
  <2>15. NotBefore(chat, q) BY <1>3, <2>7, SamePage
  <2>16. ChatFits(q, sb, (tasks \ {t}) \cup {k}, owner, turns, NoSubmission)
    <3>1. \A i \in {k} : ChatTaskFits(i, q, owner, turns) BY <2>13
    <3>2. tasks \ {t} \subseteq tasks /\ {k} \subseteq ChatTaskRow OBVIOUS
    <3> QED BY <2>7, <2>10, <2>11, <2>12, <2>14, <2>15, <3>1, <3>2, TheChat, NoSubmissionRow, ChatPageMoves
  <2> QED BY <1>1, <1>3, <1>6, <2>6, <2>16, <2>1, <2>8, <2>9, <2>13 DEF ChatInv, Replaced
<1>7. CASE /\ chat' = [chat EXCEPT !.submitting = FALSE]
           /\ TaskEnds(t) /\ tab' = tab /\ unsettled' = unsettled
  <2>1. PICK q : q = [chat EXCEPT !.submitting = FALSE] OBVIOUS
  <2>2. /\ q \in ChatRow /\ q.submitting = FALSE /\ q.resolving_run = chat.resolving_run
        /\ q.messages = chat.messages /\ q.pending = chat.pending
        /\ q.active_run = chat.active_run /\ q.life = chat.life /\ q.generation = chat.generation
        /\ q.selected = chat.selected /\ q.user = chat.user /\ q.streamed = chat.streamed BY <1>3, <2>1 DEF ChatRow
  <2>3. ShowsSelection(q, owner, turns) BY <1>2, <1>4, <1>5, <2>2 DEF ShowsSelection
  <2>4. WaitsForTasks(q, (tasks \ {t}) \cup {}, turns) BY <1>2, <2>2, NothingBegins
  <2>5. NotBefore(chat, q) BY <1>3, <2>2, SamePage
  <2>6. ChatFits(q, tab, (tasks \ {t}) \cup {}, owner, turns, unsettled)
    <3>1. tasks \ {t} \subseteq tasks /\ {} \subseteq ChatTaskRow OBVIOUS
    <3> QED BY <2>2, <2>3, <2>4, <2>5, <3>1, TheChat, ChatPageMoves, <1>2, StoredStays
  <2> QED BY <1>1, <1>3, <1>7, <2>1, <2>6 DEF ChatInv, TaskEnds
<1> QED BY <1>6, <1>7 DEF TurnAnswered

LEMMA MessagesKeep == ASSUME ChatInv, NEW t \in tasks, MessagesLoaded(t) PROVE ChatInv'
<1>1. /\ t.kind \in {"load", "reload"} /\ TaskIsCurrent(t)
      /\ chat' = [chat EXCEPT !.messages = IF t.res = "ok" THEN t.msgs ELSE @]
      /\ TaskEnds(t) /\ tab' = tab /\ unsettled' = unsettled
      /\ owner' = owner /\ turns' = turns /\ clicks' = clicks
  BY DEF MessagesLoaded, Holds, OnlyPage, serverVars, webBudget
<1>2. /\ chat \in ChatRow /\ t \in ChatTaskRow /\ ChatTaskFits(t, chat, owner, turns)
      /\ clicks \in Nat /\ unsettled \in SubRow
      /\ ShowsSelection(chat, owner, turns) /\ WaitsForTasks(chat, tasks, turns) /\ t.chat = chat.selected
      /\ StoredFits(chat, tab, unsettled) BY <1>1, TheChat DEF TaskIsCurrent
<1>3. PICK ms \in Seq(Nat) : ms = IF t.res = "ok" THEN t.msgs ELSE chat.messages
  <2>1. t.msgs \in Seq(Nat) BY <1>2 DEF ChatTaskRow
  <2>2. chat.messages \in Seq(Nat) BY <1>2 DEF ChatRow
  <2> QED BY <2>1, <2>2, Zenon
<1>4. PICK q : q = [chat EXCEPT !.messages = ms] OBVIOUS
<1>5. /\ q \in ChatRow /\ q.submitting = chat.submitting /\ q.resolving_run = chat.resolving_run
      /\ q.messages = ms /\ q.pending = chat.pending /\ q.leaving = chat.leaving
      /\ q.active_run = chat.active_run /\ q.life = chat.life /\ q.generation = chat.generation
      /\ q.selected = chat.selected /\ q.user = chat.user /\ q.streamed = chat.streamed BY <1>2, <1>4 DEF ChatRow
<1>6. ShowsSelection(q, owner, turns) BY <1>2, <1>5, <1>3, <1>1 DEF ShowsSelection, ChatTaskFits
<1>7. WaitsForTasks(q, (tasks \ {t}) \cup {}, turns) BY <1>2, <1>5, OthersWait, <1>1 DEF WaitedFor
<1>8. StoredFits(q, tab, unsettled) BY <1>2, <1>5 DEF StoredFits
<1>9. NotBefore(chat, q) BY <1>2, <1>5, SamePage
<1>10. ChatFits(q, tab, (tasks \ {t}) \cup {}, owner, turns, unsettled)
  <2>1. tasks \ {t} \subseteq tasks /\ {} \subseteq ChatTaskRow OBVIOUS
  <2> QED BY <1>5, <1>6, <1>7, <1>8, <1>9, <2>1, TheChat, ChatPageMoves
<1> QED BY <1>1, <1>2, <1>10, <1>3, <1>4 DEF ChatInv, TaskEnds

LEMMA ClearedRunFits ==
  ASSUME NEW tb \in TabRow, NEW ow, NEW tn, TabFits(tb, ow, tn), NEW sb,
         sb = tb \/ sb = [tb EXCEPT !.run = NoRunSession]
  PROVE  sb \in TabRow /\ sb.pending = tb.pending /\ TabFits(sb, ow, tn)
<1>1. PICK n : n = [tb EXCEPT !.run = NoRunSession] OBVIOUS
<1> QED BY <1>1, TabKeeps, NoRunRow DEF TabRow

LEMMA StoredStaysIdle ==
  ASSUME NEW p, NEW q, NEW tb, NEW sb, NEW un, StoredFits(p, tb, un), q.user = p.user, q.active_run = 0,
         q.pending = p.pending, sb.pending = tb.pending
  PROVE  StoredFits(q, sb, un)
  BY DEF StoredFits

LEMMA ResolvedKeeps == ASSUME ChatInv, NEW t \in tasks, RunResolved(t) PROVE ChatInv'
<1>1. /\ t.pc = "got" /\ t.kind = "resolve" /\ TaskIsCurrent(t)
      /\ owner' = owner /\ turns' = turns /\ clicks' = clicks /\ unsettled' = unsettled
  BY DEF RunResolved, Holds, OnlyPage, serverVars, webBudget
<1>2. /\ chat.user # Nobody /\ chat.user \in People /\ chat.selected \in Chats /\ t.chat = chat.selected
      /\ ~chat.submitting /\ chat.streamed = << >>
      /\ TasksNow(chat, tasks, {"send"}) \subseteq {t} /\ TasksNow(chat, tasks, {"resolve"}) \subseteq {t}
      /\ TasksNow(chat, tasks, {"follow", "status"}) \subseteq {t}
      /\ ShowsSelection(chat, owner, turns) BY <1>1, OnlyResolver
<1>3. /\ chat \in ChatRow /\ tab \in TabRow /\ t \in ChatTaskRow /\ ChatTaskFits(t, chat, owner, turns)
      /\ turns \in Seq(TurnRow) /\ clicks \in Nat /\ unsettled \in SubRow /\ tasks \subseteq ChatTaskRow
      /\ TabFits(tab, owner, turns) /\ StoredFits(chat, tab, unsettled)
      /\ \A k \in tasks : ChatTaskFits(k, chat, owner, turns) BY TheChat
<1>4. chat.selected # NoChat BY <1>2, ChatAssumption
<1>5. owner[chat.selected] = chat.user /\ MessagesOf(chat.messages, chat.selected, turns)
  BY <1>2, <1>4 DEF ShowsSelection
<1>6. CASE /\ t.res = "ok" /\ t.run # 0
           /\ chat' = [chat EXCEPT !.active_run = t.run, !.resolving_run = FALSE]
           /\ tab' = [tab EXCEPT !.run = Session(t.run)]
           /\ Replaced(t, NewTask("follow", chat', t.run))
  <2>1. PICK r \in Nat : r = t.run BY <1>3 DEF ChatTaskRow
  <2>2. r # 0 /\ RunOf(r, chat.selected, turns) BY <1>1, <1>2, <1>3, <1>6, <2>1 DEF ChatTaskFits
  <2>3. PICK q : q = [chat EXCEPT !.active_run = r, !.resolving_run = FALSE] OBVIOUS
  <2>4. /\ q \in ChatRow /\ q.submitting = chat.submitting /\ q.resolving_run = FALSE
        /\ q.messages = chat.messages /\ q.pending = chat.pending
        /\ q.active_run = r /\ q.life = chat.life /\ q.generation = chat.generation
        /\ q.selected = chat.selected /\ q.user = chat.user /\ q.streamed = chat.streamed BY <1>3, <2>3 DEF ChatRow
  <2>5. PICK tb \in TabRow : tb = tab BY <1>3
  <2>6. PICK sb : sb = [tb EXCEPT !.run = Session(r)] OBVIOUS
  <2>7. /\ TabFits(sb, owner, turns) /\ sb.pending = tb.pending
        /\ sb.run = [user |-> chat.user, chat |-> chat.selected, run |-> r]
    BY <2>6, <1>2, <1>5, <2>2, StoredRunNow DEF TabRow
  <2>8. StoredFits(q, sb, unsettled) BY <1>3, <2>4, <2>7, <2>5 DEF StoredFits
  <2>9. ShowsSelection(q, owner, turns) BY <1>2, <1>4, <1>5, <2>2, <2>4 DEF ShowsSelection
  <2>10. PICK k \in ChatTaskRow :
            /\ k = NewTask("follow", q, r) /\ k.kind = "follow" /\ k.life = q.life /\ k.gen = q.generation
            /\ k.chat = q.selected /\ k.run = r /\ k.cursor = 0
            /\ ChatTaskFits(k, q, owner, turns) BY <1>3, <2>2, <2>4, FollowTask, <1>2
  <2>11. WaitsForTasks(q, (tasks \ {t}) \cup {k}, turns) BY <1>2, <2>2, <2>4, <2>10, FollowerBegins
  <2>12. NotBefore(chat, q) BY <1>3, <2>4, SamePage
  <2>13. ChatFits(q, sb, (tasks \ {t}) \cup {k}, owner, turns, unsettled)
    <3>1. \A i \in {k} : ChatTaskFits(i, q, owner, turns) BY <2>10
    <3>2. tasks \ {t} \subseteq tasks /\ {k} \subseteq ChatTaskRow OBVIOUS
    <3> QED BY <1>3, <2>4, <2>7, <2>8, <2>9, <2>11, <2>12, <3>1, <3>2, TheChat, ChatPageMoves
  <2> QED BY <1>1, <1>3, <2>13, <1>6, <2>1, <2>6, <2>10, <2>5, <2>3 DEF ChatInv, Replaced
<1>7. CASE /\ chat' = [chat EXCEPT !.active_run = 0, !.resolving_run = FALSE,
                                  !.selected = IF t.res = "lost" THEN NoChat ELSE @]
           /\ tab' = ClearedRunOf(t.chat)
           /\ TaskEnds(t)
  <2>1. PICK c \in SomeChat : c = IF t.res = "lost" THEN NoChat ELSE chat.selected BY <1>3 DEF ChatRow, SomeChat
  <2>2. PICK q : q = [chat EXCEPT !.active_run = 0, !.resolving_run = FALSE, !.selected = c] OBVIOUS
  <2>3. /\ q \in ChatRow /\ q.submitting = chat.submitting /\ q.resolving_run = FALSE
        /\ q.messages = chat.messages /\ q.pending = chat.pending
        /\ q.active_run = 0 /\ q.life = chat.life /\ q.generation = chat.generation
        /\ q.selected = c /\ q.user = chat.user /\ q.streamed = chat.streamed BY <1>3, <2>2 DEF ChatRow
  <2>4. PICK sb : sb = ClearedRunOf(t.chat) OBVIOUS
  <2>5. sb.pending = tab.pending /\ TabFits(sb, owner, turns) BY <1>3, ClearedRunFits, <2>4 DEF ClearedRunOf
  <2>6. StoredFits(q, sb, unsettled) BY <1>3, <2>3, <2>5, StoredStaysIdle
  <2>7. ShowsSelection(q, owner, turns) BY <1>2, <1>5, <2>3, <2>1 DEF ShowsSelection
  <2>8. WaitsForTasks(q, (tasks \ {t}) \cup {}, turns)
    <3>1. CASE c = chat.selected BY <1>2, <2>3, NothingBegins, <3>1
    <3>2. CASE c = NoChat
      BY <1>2, <2>3, <3>2, ChatAssumption, <1>3 DEF WaitsForTasks, Exactly, TasksNow, WaitedFor, ChatTaskFits
    <3> QED BY <2>1, <3>1, <3>2
  <2>9. NotBefore(chat, q) BY <1>3, <2>3, SamePage
  <2>10. ChatFits(q, sb, (tasks \ {t}) \cup {}, owner, turns, unsettled)
    <3>1. \A i \in {} : ChatTaskFits(i, q, owner, turns) OBVIOUS
    <3>2. tasks \ {t} \subseteq tasks /\ {} \subseteq ChatTaskRow OBVIOUS
    <3> QED BY <1>3, <2>3, <2>5, <2>6, <2>7, <2>8, <2>9, <3>1, <3>2, TheChat, ChatPageMoves
  <2> QED BY <1>1, <1>3, <2>10, <1>7, <2>1, <2>2, <2>4 DEF ChatInv, TaskEnds
<1>8. CASE Replaced(t, [t EXCEPT !.pc = "ask"]) /\ chat' = chat /\ tab' = tab
  <2>1. PICK u : u = [t EXCEPT !.pc = "ask"] OBVIOUS
  <2>2. Replaced(t, u) BY <1>8, <2>1
  <2> QED BY <1>1, <1>8, <2>2, MereReplyKeeps, <1>3, <2>1 DEF Continues, ChatTaskRow
<1> QED BY <1>6, <1>7, <1>8 DEF RunResolved

LEMMA FollowerGoesOn ==
  ASSUME NEW p, NEW q, NEW K, NEW t \in K, NEW u, NEW tn, WaitsForTasks(p, K, tn),
         t \in TasksNow(p, K, {"follow", "status"}),
         TasksNow(p, K, {"follow", "status"}) \subseteq {t},
         u.kind \in {"follow", "status"}, u.life = t.life, u.gen = t.gen, u.chat = t.chat, u.run = t.run,
         q.life = p.life, q.generation = p.generation, q.selected = p.selected,
         q.submitting = p.submitting, q.resolving_run = p.resolving_run, q.active_run = p.active_run,
         q.streamed = Streamed(<< >>, u.run, tn[u.run].log, 0, u.cursor)
  PROVE  WaitsForTasks(q, (K \ {t}) \cup {u}, tn)
<1>1. t.kind \in {"follow", "status"} /\ t.life = p.life /\ t.gen = p.generation /\ t.chat = p.selected
  BY DEF TasksNow
<1>2. TasksNow(q, (K \ {t}) \cup {u}, {"send"}) = TasksNow(p, K, {"send"}) BY <1>1 DEF TasksNow
<1>3. TasksNow(q, (K \ {t}) \cup {u}, {"resolve"}) = TasksNow(p, K, {"resolve"}) BY <1>1 DEF TasksNow
<1>4. TasksNow(q, (K \ {t}) \cup {u}, {"follow", "status"}) = {u} BY <1>1 DEF TasksNow
<1>5. t.run = p.active_run BY DEF WaitsForTasks
<1>6. /\ Exactly(TasksNow(p, K, {"send"}), p.submitting)
      /\ Exactly(TasksNow(p, K, {"resolve"}), p.resolving_run) BY DEF WaitsForTasks
<1>7. Exactly({u}, q.active_run # 0 /\ ~q.resolving_run) BY DEF Exactly, WaitsForTasks
<1> QED BY <1>2, <1>3, <1>4, <1>5, <1>6, <1>7 DEF WaitsForTasks

\* Where a page of events ends.
LEMMA PageEnd ==
  ASSUME NEW from \in Nat, NEW num \in Nat, from <= num
  PROVE  LET last == IF num > from + PollLimit THEN from + PollLimit ELSE num
         IN  last \in Nat /\ from <= last /\ last <= num
  BY ChatAssumption

LEMMA EventsKeep == ASSUME ChatInv, NEW t \in tasks, EventsAnswered(t) PROVE ChatInv'
<1> DEFINE theLast == IF t.num > t.cursor + PollLimit THEN t.cursor + PollLimit ELSE t.num
           ends == {k \in t.cursor + 1 .. theLast : turns[t.run].log[k] \in EndStates}
           full == theLast - t.cursor = PollLimit
<1>1. /\ t.pc = "got" /\ t.kind = "follow" /\ RunTaskIsCurrent(t)
      /\ owner' = owner /\ turns' = turns /\ clicks' = clicks /\ unsettled' = unsettled /\ tab' = tab
      /\ \/ /\ t.res = "ok"
            /\ chat' = [chat EXCEPT !.streamed = Streamed(@, t.run, turns[t.run].log, t.cursor, theLast)]
            /\ Replaced(t, [t EXCEPT !.pc = "ask", !.kind = IF full THEN "follow" ELSE "status",
                                     !.res = "none", !.num = 0, !.cursor = theLast,
                                     !.seen = IF ends = {} THEN @ ELSE turns[t.run].state])
         \/ /\ t.res = "error" /\ chat' = chat
            /\ Replaced(t, [t EXCEPT !.pc = "ask", !.kind = "status", !.res = "none"])
  BY DEF EventsAnswered, Holds, OnlyPage, serverVars, webBudget
<1>2. /\ chat.user # Nobody /\ chat.selected \in Chats /\ t.chat = chat.selected
      /\ ~chat.submitting /\ ~chat.resolving_run /\ chat.active_run # 0 /\ t.run = chat.active_run
      /\ chat.streamed = Streamed(<< >>, t.run, turns[t.run].log, 0, t.cursor)
      /\ t \in TasksNow(chat, tasks, {"follow", "status"})
      /\ TasksNow(chat, tasks, {"follow", "status"}) \subseteq {t}
      /\ ShowsSelection(chat, owner, turns) BY <1>1, OnlyFollower
<1>3. /\ chat \in ChatRow /\ t \in ChatTaskRow /\ ChatTaskFits(t, chat, owner, turns)
      /\ turns \in Seq(TurnRow) /\ clicks \in Nat /\ unsettled \in SubRow /\ WaitsForTasks(chat, tasks, turns)
      /\ TabFits(tab, owner, turns) /\ StoredFits(chat, tab, unsettled)
  BY <1>1, TheChat DEF RunTaskIsCurrent, TaskIsCurrent
<1>4. t.run \in Nat /\ t.cursor \in Nat /\ t.num \in Nat /\ t.seen \in {"none", "active"} \cup EndStates
  BY <1>3 DEF ChatTaskRow
<1>5. t.run # 0 /\ RunOf(t.run, t.chat, turns) BY <1>1, <1>3 DEF ChatTaskFits
<1>6. PICK row \in TurnRow : row = turns[t.run] BY <1>3, <1>5 DEF RunOf
<1>7. Len(row.log) \in Nat /\ row.state \in {"active"} \cup EndStates BY DEF TurnRow
<1>8. CASE /\ t.res = "ok"
           /\ chat' = [chat EXCEPT !.streamed = Streamed(@, t.run, turns[t.run].log, t.cursor, theLast)]
           /\ Replaced(t, [t EXCEPT !.pc = "ask", !.kind = IF full THEN "follow" ELSE "status",
                                    !.res = "none", !.num = 0, !.cursor = theLast,
                                    !.seen = IF ends = {} THEN @ ELSE turns[t.run].state])
  <2>1. t.cursor <= t.num /\ t.num <= Len(row.log) BY <1>1, <1>3, <1>6, <1>8 DEF ChatTaskFits
  <2>2. PICK last \in Nat : last = theLast /\ t.cursor <= last /\ last <= t.num BY <1>4, <2>1, PageEnd
  <2>3. PICK which \in {"follow", "status"} : which = IF full THEN "follow" ELSE "status"
    <3> HIDE DEF full
    <3> QED OBVIOUS
  <2>4. PICK saw \in {"none", "active"} \cup EndStates : saw = IF ends = {} THEN t.seen ELSE row.state
    <3> HIDE DEF ends
    <3> QED BY <1>4, <1>7
  <2>5. Replaced(t, [t EXCEPT !.pc = "ask", !.kind = which, !.res = "none", !.num = 0, !.cursor = last, !.seen = saw])
    <3> HIDE DEF ends, full, theLast
    <3> QED BY <1>6, <1>8, <2>2, <2>3, <2>4
  <2>6. chat' = [chat EXCEPT !.streamed = Streamed(@, t.run, row.log, t.cursor, last)]
    <3> HIDE DEF theLast
    <3> QED BY <1>6, <1>8, <2>2
  <2> HIDE DEF ends, full, theLast
  <2>7. PICK text : text = Streamed(<< >>, t.run, row.log, 0, last) OBVIOUS
  <2>8. text \in Seq(Nat \X Nat)
    <3>1. 0 \in Nat /\ 0 <= last BY <2>2
    <3>2. << >> \in Seq(Nat \X Nat) OBVIOUS
    <3> QED BY <1>4, <2>7, <3>1, <3>2, StreamedType
  <2>9. Streamed(chat.streamed, t.run, row.log, t.cursor, last) = text BY <1>2, <1>6, <2>7, <1>4, <2>2, StreamedOn
  <2>10. PICK q : q = [chat EXCEPT !.streamed = text] OBVIOUS
  <2>11. /\ q \in ChatRow /\ q.submitting = chat.submitting /\ q.resolving_run = chat.resolving_run
         /\ q.messages = chat.messages /\ q.pending = chat.pending /\ q.leaving = chat.leaving
         /\ q.active_run = chat.active_run /\ q.life = chat.life /\ q.generation = chat.generation
         /\ q.selected = chat.selected /\ q.user = chat.user /\ q.streamed = text BY <1>3, <2>8, <2>10 DEF ChatRow
  <2>12. PICK u : u = [t EXCEPT !.pc = "ask", !.kind = which, !.res = "none", !.num = 0, !.cursor = last, !.seen = saw]
    OBVIOUS
  <2>13. /\ u \in ChatTaskRow /\ u.pc = "ask" /\ u.kind = which /\ u.life = t.life /\ u.gen = t.gen
         /\ u.chat = t.chat /\ u.run = t.run /\ u.cursor = last BY <1>3, <2>12 DEF ChatTaskRow, TaskKinds
  <2>14. ChatTaskFits(u, q, owner, turns)
    <3>1. u.cursor <= Len(turns[u.run].log) BY <1>6, <2>13, <1>4, <1>7, <2>1, <2>2
    <3>2. u.kind \in {"follow", "status"} BY <2>13
    <3> QED BY <2>13, <3>1, <3>2, <1>3, <2>11, <1>2, <1>5 DEF ChatTaskFits
  <2>15. ShowsSelection(q, owner, turns) BY <1>2, <2>11 DEF ShowsSelection
  <2>16. WaitsForTasks(q, (tasks \ {t}) \cup {u}, turns) BY <1>2, <1>3, <2>11, <2>13, FollowerGoesOn, <1>6, <2>7
  <2>17. StoredFits(q, tab, unsettled) BY <1>3, <2>11 DEF StoredFits
  <2>18. NotBefore(chat, q) BY <1>3, <2>11, SamePage
  <2>19. ChatFits(q, tab, (tasks \ {t}) \cup {u}, owner, turns, unsettled)
    <3>1. \A i \in {u} : ChatTaskFits(i, q, owner, turns) BY <2>14
    <3>2. tasks \ {t} \subseteq tasks /\ {u} \subseteq ChatTaskRow BY <2>13
    <3> QED BY <1>3, <2>11, <2>15, <2>16, <2>17, <2>18, <3>1, <3>2, TheChat, ChatPageMoves
  <2> QED BY <1>1, <1>3, <2>19, <2>6, <2>9, <2>10, <2>5, <2>12 DEF ChatInv, Replaced
<1> HIDE DEF ends, full, theLast
<1>9. CASE Replaced(t, [t EXCEPT !.pc = "ask", !.kind = "status", !.res = "none"]) /\ chat' = chat
  <2>1. PICK u : u = [t EXCEPT !.pc = "ask", !.kind = "status", !.res = "none"] OBVIOUS
  <2>2. /\ u \in ChatTaskRow /\ u.pc = "ask" /\ u.kind = "status" /\ u.life = t.life /\ u.gen = t.gen
        /\ u.chat = t.chat /\ u.run = t.run /\ u.cursor = t.cursor BY <1>3, <2>1 DEF ChatTaskRow, TaskKinds
  <2>3. Replaced(t, u) BY <1>9, <2>1
  <2> QED BY <1>1, <1>9, <2>2, <2>3, ServerStays, ReplyKeeps, <1>3 DEF SameTask, ChatTaskFits
<1> QED BY <1>1, <1>8, <1>9

LEMMA StatusKeeps == ASSUME ChatInv, NEW t \in tasks, StatusAnswered(t) PROVE ChatInv'
<1>1. /\ t.pc = "got" /\ t.kind = "status" /\ RunTaskIsCurrent(t)
      /\ owner' = owner /\ turns' = turns /\ clicks' = clicks /\ unsettled' = unsettled
  BY DEF StatusAnswered, Holds, OnlyPage, serverVars, webBudget
<1>2. CASE /\ chat' = [chat EXCEPT !.active_run = 0, !.resolving_run = FALSE, !.streamed = <<>>]
           /\ tab' = ClearedRun(t.run)
           /\ Replaced(t, NewTask("reload", chat', 0)) \/ TaskEnds(t)
  <2>1. /\ chat.user # Nobody /\ chat.selected \in Chats /\ t.chat = chat.selected
        /\ ~chat.submitting
        /\ TasksNow(chat, tasks, {"send"}) \subseteq {t} /\ TasksNow(chat, tasks, {"resolve"}) \subseteq {t}
        /\ TasksNow(chat, tasks, {"follow", "status"}) \subseteq {t}
        /\ ShowsSelection(chat, owner, turns) BY <1>1, OnlyFollower
  <2>2. /\ chat \in ChatRow /\ tab \in TabRow /\ turns \in Seq(TurnRow) /\ clicks \in Nat /\ unsettled \in SubRow
        /\ TabFits(tab, owner, turns) /\ StoredFits(chat, tab, unsettled) BY TheChat
  <2>3. PICK e \in Seq(Nat), g \in Seq(Nat \X Nat) : e = << >> /\ g = << >> /\ Len(e) = 0 BY NoLists
  <2>4. PICK q : q = [chat EXCEPT !.active_run = 0, !.resolving_run = FALSE, !.streamed = g] OBVIOUS
  <2>5. chat' = q BY <1>2, <2>3, <2>4
  <2>6. /\ q \in ChatRow /\ q.submitting = chat.submitting /\ q.resolving_run = FALSE
        /\ q.messages = chat.messages /\ q.pending = chat.pending
        /\ q.active_run = 0 /\ q.life = chat.life /\ q.generation = chat.generation
        /\ q.selected = chat.selected /\ q.user = chat.user /\ q.streamed = g BY <2>2, <2>4 DEF ChatRow
  <2>7. PICK sb : sb = ClearedRun(t.run) OBVIOUS
  <2>8. sb.pending = tab.pending /\ TabFits(sb, owner, turns) BY <2>2, ClearedRunFits, <2>7 DEF ClearedRun
  <2>9. StoredFits(q, sb, unsettled) BY <2>2, <2>6, <2>8, StoredStaysIdle
  <2>10. ShowsSelection(q, owner, turns) BY <2>1, <2>3, <2>6 DEF ShowsSelection
  <2>11. NotBefore(chat, q) BY <2>2, <2>6, SamePage
  <2>12. ASSUME NEW N, N \subseteq ChatTaskRow,
                \A i \in N : ChatTaskFits(i, q, owner, turns) /\ i.kind \notin WaitedFor
         PROVE  ChatFits(q, sb, (tasks \ {t}) \cup N, owner, turns, unsettled)
    <3>1. WaitsForTasks(q, (tasks \ {t}) \cup N, turns) BY <2>1, <2>6, NothingBegins, <2>12
    <3>2. \A i \in N : ChatTaskFits(i, q, owner, turns) BY <2>12
    <3>3. tasks \ {t} \subseteq tasks OBVIOUS
    <3> QED BY <2>2, <2>6, <2>8, <2>9, <2>10, <2>11, <2>12, <3>1, <3>2, <3>3, TheChat, ChatPageMoves
  <2>13. tab' = sb BY <1>2, <2>7
  <2>14. CASE TaskEnds(t)
    <3>1. ChatFits(q, sb, (tasks \ {t}) \cup {}, owner, turns, unsettled) BY <2>12
    <3> QED BY <1>1, <2>2, <2>5, <2>13, <3>1, <2>14 DEF ChatInv, TaskEnds
  <2>15. CASE Replaced(t, NewTask("reload", chat', 0))
    <3>1. PICK k \in ChatTaskRow :
            /\ k = NewTask("reload", q, 0) /\ k.kind = "reload" /\ k.life = q.life /\ k.gen = q.generation
            /\ k.chat = q.selected /\ k.run = 0 /\ k.pc = "ask" /\ Len(k.msgs) = 0 /\ k.cursor = 0
      BY <2>6, NewTaskRow DEF TaskKinds
    <3>2. /\ {k} \subseteq ChatTaskRow
          /\ \A i \in {k} : ChatTaskFits(i, q, owner, turns) /\ i.kind \notin WaitedFor
      BY <3>1, <2>2, <2>6, NewTaskFits, <2>1 DEF WaitedFor
    <3> QED BY <1>1, <2>2, <2>5, <2>13, <2>15, <3>1, <2>12, <3>2 DEF ChatInv, Replaced
  <2> QED BY <1>2, <2>14, <2>15
<1>3. CASE /\ chat' = chat /\ tab' = tab
           /\ Replaced(t, [t EXCEPT !.pc = "ask", !.kind = "follow", !.res = "none"])
  <2>1. t \in ChatTaskRow /\ ChatTaskFits(t, chat, owner, turns) BY TheChat
  <2>2. PICK u : u = [t EXCEPT !.pc = "ask", !.kind = "follow", !.res = "none"] OBVIOUS
  <2>3. /\ u \in ChatTaskRow /\ u.pc = "ask" /\ u.kind = "follow" /\ u.life = t.life /\ u.gen = t.gen
        /\ u.chat = t.chat /\ u.run = t.run /\ u.cursor = t.cursor BY <2>1, <2>2 DEF ChatTaskRow, TaskKinds
  <2>4. Replaced(t, u) BY <1>3, <2>2
  <2> QED BY <1>1, <1>3, <2>3, <2>4, ServerStays, ReplyKeeps, <2>1 DEF SameTask, ChatTaskFits
<1> QED BY <1>2, <1>3 DEF StatusAnswered

LEMMA LostKeeps == ASSUME ChatInv, NEW t \in tasks, RunLost(t) PROVE ChatInv'
<1>1. /\ t.pc = "got" /\ t.kind \in {"follow", "status"} /\ RunTaskIsCurrent(t)
      /\ chat' = [chat EXCEPT !.active_run = 0, !.resolving_run = FALSE]
      /\ tab' = ClearedRun(t.run) /\ TaskEnds(t)
      /\ owner' = owner /\ turns' = turns /\ clicks' = clicks /\ unsettled' = unsettled
  BY DEF RunLost, Holds, OnlyPage, serverVars, webBudget
<1>2. /\ chat.user # Nobody /\ chat.selected \in Chats /\ t.chat = chat.selected
      /\ ~chat.submitting
      /\ TasksNow(chat, tasks, {"send"}) \subseteq {t} /\ TasksNow(chat, tasks, {"resolve"}) \subseteq {t}
      /\ TasksNow(chat, tasks, {"follow", "status"}) \subseteq {t}
      /\ ShowsSelection(chat, owner, turns) BY <1>1, OnlyFollower
<1>3. /\ chat \in ChatRow /\ tab \in TabRow /\ turns \in Seq(TurnRow) /\ clicks \in Nat /\ unsettled \in SubRow
      /\ TabFits(tab, owner, turns) /\ StoredFits(chat, tab, unsettled) BY TheChat
<1>4. PICK q : q = [chat EXCEPT !.active_run = 0, !.resolving_run = FALSE] OBVIOUS
<1>5. /\ q \in ChatRow /\ q.submitting = chat.submitting /\ q.resolving_run = FALSE
      /\ q.messages = chat.messages /\ q.pending = chat.pending
      /\ q.active_run = 0 /\ q.life = chat.life /\ q.generation = chat.generation
      /\ q.selected = chat.selected /\ q.user = chat.user /\ q.streamed = chat.streamed BY <1>3, <1>4 DEF ChatRow
<1>6. PICK sb : sb = ClearedRun(t.run) OBVIOUS
<1>7. sb.pending = tab.pending /\ TabFits(sb, owner, turns) BY <1>3, ClearedRunFits, <1>6 DEF ClearedRun
<1>8. StoredFits(q, sb, unsettled) BY <1>3, <1>5, <1>7, StoredStaysIdle
<1>9. ShowsSelection(q, owner, turns) BY <1>2, <1>5 DEF ShowsSelection
<1>10. WaitsForTasks(q, (tasks \ {t}) \cup {}, turns) BY <1>2, <1>5, NothingBegins
<1>11. NotBefore(chat, q) BY <1>3, <1>5, SamePage
<1>12. ChatFits(q, sb, (tasks \ {t}) \cup {}, owner, turns, unsettled)
  <2>1. \A i \in {} : ChatTaskFits(i, q, owner, turns) OBVIOUS
  <2>2. tasks \ {t} \subseteq tasks /\ {} \subseteq ChatTaskRow OBVIOUS
  <2> QED BY <1>3, <1>5, <1>7, <1>8, <1>9, <1>10, <1>11, <2>1, <2>2, TheChat, ChatPageMoves
<1> QED BY <1>1, <1>3, <1>12, <1>4, <1>6 DEF ChatInv, TaskEnds

-----------------------------------------------------------------------------
(* The chat page: the theorem *)

LEMMA ChatInitially == ASSUME ChatInit PROVE ChatInv
<1>1. /\ tab = [pending |-> NoSubmission, run |-> NoRunSession]
      /\ chat = Mounted(FirstUser, 1)
      /\ owner = [c \in Chats |-> IF c = ToBeCreated THEN Nobody ELSE FirstUser]
      /\ tasks = {} /\ turns = <<>> /\ unsettled = NoSubmission /\ clicks = 0 BY DEF ChatInit
<1>2. FirstUser \in People BY ChatAssumption DEF FirstUser
<1>3. tab \in TabRow /\ tab.run.user = Nobody /\ tab.run = NoRunSession BY <1>1, NothingStored, NoRunRow
<1>4. turns \in Seq(TurnRow) /\ Len(turns) = 0 BY <1>1
<1>5. ServerFits(owner, turns) BY <1>4, <1>1, <1>2 DEF ServerFits, SomeUser
<1>6. TabFits(tab, owner, turns) BY <1>3 DEF TabFits
<1>7. PICK q : q = Mounted(FirstUser, 1) OBVIOUS
<1>8. /\ q \in ChatRow
      /\ StoredFits(q, tab, NoSubmission)
      /\ ShowsSelection(q, owner, turns) /\ WaitsForTasks(q, RestoreTasks(q), turns)
  BY <1>2, <1>4, <1>6, <1>7, NoSubmissionRow, MountedFits
<1>9. RestoreTasks(q) = {} BY <1>3, <1>7, <1>2, ChatAssumption DEF RestoreTasks, Mounted
<1>10. ChatFits(q, tab, {}, owner, turns, NoSubmission)
  <2>1. {} \subseteq ChatTaskRow OBVIOUS
  <2> QED BY <1>5, <1>6, <1>8, <1>9, <2>1, NoSubmissionRow DEF ChatFits
<1> QED BY <1>1, <1>7, <1>10 DEF ChatInv

LEMMA ChatStep == ASSUME ChatInv, [ChatNext]_chatvars PROVE ChatInv'
<1>1. CASE ChatNext
  BY <1>1, ReloadKeeps, SignOutKeeps, SignedOutKeeps, BackKeeps, NameKeeps, SendKeeps, CancelKeeps, SignInKeeps,
    OpenKeeps, InputKeeps, EmitKeeps, RespondKeeps, StaleKeeps, TurnKeeps, CreatedKeeps, MessagesKeep, ResolvedKeeps,
    EventsKeep, StatusKeeps, LostKeeps DEF ChatNext
<1>2. CASE UNCHANGED chatvars BY <1>2 DEF chatvars, ChatInv
<1> QED BY <1>1, <1>2

\* One task, or none, by counting.
LEMMA ExactlyCounts ==
  ASSUME NEW S, NEW b \in BOOLEAN, Exactly(S, b)
  PROVE  Cardinality(S) = IF b THEN 1 ELSE 0
<1>1. CASE b
  <2>1. PICK k \in S : S = {k} BY <1>1 DEF Exactly
  <2> QED BY <1>1, <2>1, FS_Singleton
<1>2. CASE ~b BY <1>2, FS_EmptySet DEF Exactly
<1> QED BY <1>1, <1>2

LEMMA ChatFollows == ASSUME ChatInv PROVE ChatShowsSelection /\ NothingOrphaned /\ ReloadFindsAll
<1>1. SignedIn => /\ ShowsSelection(chat, owner, turns) /\ WaitsForTasks(chat, tasks, turns)
                  /\ chat.user # Nobody BY TheChat
<1>2. SignedIn => Followers = TasksNow(chat, tasks, {"follow", "status"})
  <2> SUFFICES ASSUME SignedIn PROVE Followers = TasksNow(chat, tasks, {"follow", "status"}) OBVIOUS
  <2> QED BY <1>1 DEF Followers, RunTaskIsCurrent, TaskIsCurrent, TasksNow, WaitsForTasks
<1>3. ChatShowsSelection
  <2> SUFFICES ASSUME SignedIn, chat.selected # NoChat
               PROVE  /\ owner[chat.selected] = chat.user
                      /\ \A i \in 1 .. Len(chat.messages) : turns[(chat.messages[i] + 1) \div 2].chat = chat.selected
                      /\ chat.active_run # 0 => turns[chat.active_run].chat = chat.selected
                      /\ \A t \in Followers : chat.streamed = Streamed(<<>>, t.run, turns[t.run].log, 0, t.cursor)
    BY DEF ChatShowsSelection
  <2>1. /\ owner[chat.selected] = chat.user
        /\ MessagesOf(chat.messages, chat.selected, turns)
        /\ chat.active_run # 0 => RunOf(chat.active_run, chat.selected, turns) BY <1>1 DEF ShowsSelection
  <2>2. \A t \in Followers : chat.streamed = Streamed(<<>>, t.run, turns[t.run].log, 0, t.cursor)
    BY <1>1, <1>2 DEF WaitsForTasks
  <2> QED BY <2>1, <2>2 DEF MessagesOf, RunOf
<1>4. NothingOrphaned
  <2> SUFFICES ASSUME SignedIn
               PROVE  /\ Cardinality({t \in tasks : t.kind = "send" /\ TaskIsCurrent(t)})
                           = IF chat.submitting THEN 1 ELSE 0
                      /\ Cardinality({t \in tasks : t.kind = "resolve" /\ TaskIsCurrent(t)})
                           = IF chat.resolving_run THEN 1 ELSE 0
                      /\ Cardinality(Followers) = IF chat.active_run # 0 /\ ~chat.resolving_run THEN 1 ELSE 0
    BY DEF NothingOrphaned
  <2>1. PICK a \in BOOLEAN, b \in BOOLEAN, c \in BOOLEAN :
           a = chat.submitting /\ b = chat.resolving_run /\ c = (chat.active_run # 0 /\ ~chat.resolving_run)
    BY TheChat DEF ChatRow
  <2>2. /\ Cardinality(TasksNow(chat, tasks, {"send"})) = IF a THEN 1 ELSE 0
        /\ Cardinality(TasksNow(chat, tasks, {"resolve"})) = IF b THEN 1 ELSE 0
        /\ Cardinality(TasksNow(chat, tasks, {"follow", "status"})) = IF c THEN 1 ELSE 0
    BY ExactlyCounts, <1>1, <2>1 DEF WaitsForTasks
  <2> QED BY <1>2, <2>1, <2>2 DEF TasksNow, TaskIsCurrent
<1> QED BY <1>3, <1>4, <1>1, TheChat DEF ReloadFindsAll, StoredFits, Session

(***************************************************************************)
(* Whatever answers are still on their way from earlier clicks, pages and  *)
(* users, the chat page shows what is selected, waits for exactly the      *)
(* tasks that are at work for it, and has stored what a reload needs       *)
(* (app.rs, conversation_task_is_current, run_task_is_current).            *)
(***************************************************************************)
THEOREM ChatIsTrue == ChatSpec => [](ChatShowsSelection /\ NothingOrphaned /\ ReloadFindsAll)
<1>1. ChatInit => ChatInv BY ChatInitially
<1>2. ChatInv /\ [ChatNext]_chatvars => ChatInv' BY ChatStep
<1>3. ChatInv => ChatShowsSelection /\ NothingOrphaned /\ ReloadFindsAll BY ChatFollows
<1> QED BY <1>1, <1>2, <1>3, PTL DEF ChatSpec
=============================================================================
