------------------------------- MODULE Skills ------------------------------
(***************************************************************************)
(* Skills of a workspace and their revisions (skills_api.rs, skills.rs).   *)
(* Every handler locks the row of the skill (lock_skill) before it reads   *)
(* or writes a revision and holds it to the commit, so that each is one    *)
(* action.  A revision is evaluated once; under the automatic policy the   *)
(* evaluation itself may promote it.                                       *)
(***************************************************************************)
EXTENDS Naturals, Sequences
CONSTANTS SkillIds,
          MaxRevisions,     \* bound: revisions of a skill
          MaxEvalAttempts,  \* bound: attempts of an evaluation
          MaxEvalErrors     \* bound: errors and corrections of an evaluation
ASSUME SkillsAssumption == {MaxRevisions, MaxEvalAttempts, MaxEvalErrors} \subseteq Nat

VARIABLES skill,      \* skill[k]: policy ("none": no row) and active_revision (0: NULL)
          revisions,  \* revisions[k]: the rows, in order
          chosen      \* history: the revision an administrator promoted last, or 0
svars == <<skill, revisions, chosen>>

Policies == {"manual", "propose", "automatic"}
\* Steps, retries and the duration decide nothing.  An evaluation that has
\* not been given is the one with given = FALSE.
NotEvaluated == [given |-> FALSE, checks |-> FALSE, attempts |-> 0, successful |-> 0,
                 errors |-> 0, user_corrections |-> 0]
ValidEvaluation(e) == e.successful <= e.attempts /\ e.user_corrections <= e.attempts
Evaluations ==
    {e \in [given : {TRUE}, checks : BOOLEAN, attempts : 0 .. MaxEvalAttempts,
            successful : 0 .. MaxEvalAttempts, errors : 0 .. MaxEvalErrors,
            user_corrections : 0 .. MaxEvalErrors] :
        ValidEvaluation(e) /\ e.errors + e.user_corrections <= MaxEvalErrors}

SkillsInit ==
    /\ skill = [k \in SkillIds |-> [policy |-> "none", active_revision |-> 0]]
    /\ revisions = [k \in SkillIds |-> <<>>] /\ chosen = [k \in SkillIds |-> 0]

\* authorize_scope for a workspace: members may write, administrators promote.
WriteRoles   == {"ADMIN", "EDITOR"}
PromoteRoles == {"ADMIN"}
\* success_rate: no attempts is a rate of zero, else a comparison of fractions.
RateAtLeast(e, f) ==
    \/ f.attempts = 0 \/ f.successful = 0
    \/ e.attempts > 0 /\ e.successful * f.attempts >= f.successful * e.attempts
CanAutoPromoteOver(e, f) ==
    /\ e.checks /\ e.attempts > 0 /\ RateAtLeast(e, f)
    /\ e.errors <= f.errors /\ e.user_corrections <= f.user_corrections
-----------------------------------------------------------------------------
NewRevision == [evaluation |-> NotEvaluated, promoted |-> FALSE]
InsertRevision(k) == revisions' = [revisions EXCEPT ![k] = Append(@, NewRevision)]
CreateSkill(k, role, policy) ==
    /\ skill[k].policy = "none" /\ role \in WriteRoles
    /\ skill' = [skill EXCEPT ![k].policy = policy]
    /\ InsertRevision(k) /\ UNCHANGED chosen
\* create_revision and propose_revision: MAX(revision) + 1 under the lock.
CreateRevision(k, role) ==
    /\ skill[k].policy # "none" /\ role \in WriteRoles /\ Len(revisions[k]) < MaxRevisions
    /\ InsertRevision(k) /\ UNCHANGED <<skill, chosen>>

\* promote_locked, applied to the rows rs of a skill.
PromoteLocked(rs, n) == [r \in DOMAIN rs |-> [rs[r] EXCEPT !.promoted = r = n]]
\* The promoted revisions other than n.
Previous(k, n) == {r \in DOMAIN revisions[k] \ {n} : revisions[k][r].promoted}

\* Mutant: a promoted revision without evaluation is no obstacle.
AutomaticOverUnevaluated(k, n, e) ==
    /\ skill[k].policy = "automatic" /\ e.checks /\ e.attempts > 0
    /\ \A r \in Previous(k, n) :
          revisions[k][r].evaluation.given => CanAutoPromoteOver(e, revisions[k][r].evaluation)
Automatic(k, n, e) ==
    /\ skill[k].policy = "automatic" /\ e.checks /\ e.attempts > 0
    /\ \A r \in Previous(k, n) :
          revisions[k][r].evaluation.given /\ CanAutoPromoteOver(e, revisions[k][r].evaluation)

EvaluateRevision(k, role, n, e) ==
    /\ role \in WriteRoles
    /\ n \in DOMAIN revisions[k] /\ ~revisions[k][n].evaluation.given
    /\ LET rs == [revisions[k] EXCEPT ![n].evaluation = e] IN
       IF Automatic(k, n, e)
       THEN /\ revisions' = [revisions EXCEPT ![k] = PromoteLocked(rs, n)]
            /\ skill' = [skill EXCEPT ![k].active_revision = n]
       ELSE revisions' = [revisions EXCEPT ![k] = rs] /\ UNCHANGED skill
    /\ UNCHANGED chosen

\* promote and rollback: any revision of the skill, evaluated or not.
PromoteRevision(k, role, n) ==
    /\ role \in PromoteRoles /\ n \in DOMAIN revisions[k]
    /\ revisions' = [revisions EXCEPT ![k] = PromoteLocked(@, n)]
    /\ skill' = [skill EXCEPT ![k].active_revision = n]
    /\ chosen' = [chosen EXCEPT ![k] = n]
RollbackSkill(k, role, n) == n > 0 /\ PromoteRevision(k, role, n)

\* The weakest role that may do something stands for those above it.
SkillsNext ==
    \E k \in SkillIds :
        \/ \E p \in Policies : CreateSkill(k, "EDITOR", p)
        \/ CreateRevision(k, "EDITOR")
        \/ \E n \in 1 .. MaxRevisions :
              \/ PromoteRevision(k, "ADMIN", n) \/ RollbackSkill(k, "ADMIN", n)
              \/ \E e \in Evaluations : EvaluateRevision(k, "EDITOR", n, e)
SkillsSpec == SkillsInit /\ [][SkillsNext]_svars
-----------------------------------------------------------------------------
SkillsTypeOK ==
    \A k \in SkillIds :
        /\ skill[k].policy \in Policies \cup {"none"}
        /\ skill[k].active_revision \in 0 .. Len(revisions[k])
        /\ \A r \in DOMAIN revisions[k] : revisions[k][r].evaluation \in Evaluations \cup {NotEvaluated}
(***************************************************************************)
(* The active revision is the one promoted revision.  However revisions    *)
(* are evaluated, promoted and rolled back, the automatic policy never     *)
(* leaves a skill with a revision worse than what an administrator chose:  *)
(* once both have evidence, the active one passed its checks and has at    *)
(* least the success rate and at most the errors and corrections of it.    *)
(* Where nothing was chosen, the first promotion compares with nothing.    *)
(***************************************************************************)
AutomaticNeverWorse ==
    \A k \in SkillIds :
        LET active == skill[k].active_revision
            rs     == revisions[k] IN
        /\ {r \in DOMAIN rs : rs[r].promoted} = {active} \ {0}
        /\ active # chosen[k] /\ chosen[k] # 0 =>
              /\ rs[active].evaluation.given /\ rs[chosen[k]].evaluation.given
              /\ CanAutoPromoteOver(rs[active].evaluation, rs[chosen[k]].evaluation)
=============================================================================
