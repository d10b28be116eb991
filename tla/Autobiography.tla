--------------------------- MODULE Autobiography ---------------------------
(***************************************************************************)
(* The Autobiography of a profile: direct edits, proposals and their       *)
(* review, rollback, and the update that follows a completed run           *)
(* (autobiography_api.rs, autobiography_update.rs, the book writes of      *)
(* library_api.rs).  The handlers lock the rows they decide on and are one *)
(* action each.  The update after a run reads the policy and the text      *)
(* without a lock, asks a model, and replaces the text with what it merged *)
(* into the text it read.                                                  *)
(***************************************************************************)
EXTENDS Naturals, Sequences

CONSTANTS Facts,          \* what a paragraph of the text may say
          AutoRuns,       \* completed runs, each with one update
          MaxParagraphs,  \* size limit of the text, in paragraphs
          MaxBookRevisions, MaxProposals  \* bounds: rows of each table

ASSUME AutobiographyAssumption ==
    {MaxParagraphs, MaxBookRevisions} \subseteq Nat \ {0} /\ MaxProposals \in Nat

VARIABLES autoPolicy,  \* profiles.autobiography_update_policy
          autoBook,    \* body (a sequence of facts) and revision
          bookHistory, \* book_revisions: the body of each revision
          proposal,    \* autobiography_proposals, in order
          updater      \* updater[r]: the update after run r
abvars == <<autoPolicy, autoBook, bookHistory, proposal, updater>>

AutoPolicies == {"manual", "propose", "automatic"}
Paragraphs(body) == {body[k] : k \in DOMAIN body}
\* Texts that requests send: validate_body_and_reason refuses longer ones.
Texts == {<<>>} \cup {<<f>> : f \in Facts} \cup {<<f, g>> : f, g \in Facts}
ValidBody(body) == Len(body) <= MaxParagraphs

\* create_owner: an empty text, its first revision and the column's default.
AutobiographyInit ==
    /\ autoPolicy = "propose" /\ autoBook = [body |-> <<>>, revision |-> 1]
    /\ bookHistory = << <<>> >> /\ proposal = <<>>
    /\ updater = [r \in AutoRuns |-> [pc |-> "policy", read |-> <<>>, merged |-> <<>>]]

\* replace_book_body and replace_book_snapshot: the next revision of the row
\* as it is now, and its row in the history (UNIQUE on book and revision).
ReplaceBookBody(body) ==
    /\ autoBook.revision < MaxBookRevisions
    /\ autoBook' = [body |-> body, revision |-> autoBook.revision + 1]
    /\ bookHistory' = Append(bookHistory, body)
-----------------------------------------------------------------------------
UpdatePolicy(p) == autoPolicy' = p /\ UNCHANGED <<autoBook, bookHistory, proposal, updater>>

ManualUpdate(body, expected_revision) ==
    /\ ValidBody(body) /\ autoPolicy = "manual" /\ autoBook.revision = expected_revision
    /\ ReplaceBookBody(body)
    /\ UNCHANGED <<autoPolicy, proposal, updater>>

\* Under the automatic policy the proposal is accepted as it is made.
CreateProposal(after) ==
    /\ ValidBody(after) /\ autoPolicy # "manual" /\ Len(proposal) < MaxProposals
    /\ proposal' = Append(proposal, [base |-> autoBook.revision, before |-> autoBook.body, after |-> after,
                        status |-> IF autoPolicy = "automatic" THEN "accepted" ELSE "pending"])
    /\ IF autoPolicy = "automatic" THEN ReplaceBookBody(after) ELSE UNCHANGED <<autoBook, bookHistory>>
    /\ UNCHANGED <<autoPolicy, updater>>

\* Mutant: a proposal is applied to whatever the text has become.
CurrentAnyway(n) == TRUE
Current(n) == autoBook.revision = proposal[n].base

ReviewProposal(n, accept) ==
    /\ n \in DOMAIN proposal /\ proposal[n].status = "pending"
    /\ IF accept
       THEN /\ autoPolicy # "manual" /\ Current(n)
            /\ ReplaceBookBody(proposal[n].after)
       ELSE UNCHANGED <<autoBook, bookHistory>>
    /\ proposal' = [proposal EXCEPT ![n].status = IF accept THEN "accepted" ELSE "rejected"]
    /\ UNCHANGED <<autoPolicy, updater>>

\* Any revision of the history, under any policy.
RollbackBook(target_revision) ==
    /\ target_revision \in DOMAIN bookHistory
    /\ ReplaceBookBody(bookHistory[target_revision])
    /\ UNCHANGED <<autoPolicy, proposal, updater>>
-----------------------------------------------------------------------------
(* auto_update_after_run, awaited by the executor after complete_run. *)
UpdaterAt(r, from, to) == updater[r].pc = from /\ updater' = [updater EXCEPT ![r] = to]
Finished == [pc |-> "done", read |-> <<>>, merged |-> <<>>]
autoRows == <<autoPolicy, autoBook, bookHistory, proposal>>

CheckPolicy(r) ==
    /\ UpdaterAt(r, "policy", IF autoPolicy = "automatic" THEN [updater[r] EXCEPT !.pc = "book"] ELSE Finished)
    /\ UNCHANGED autoRows
ReadBook(r) ==
    /\ UpdaterAt(r, "book", [updater[r] EXCEPT !.pc = "model", !.read = autoBook.body])
    /\ UNCHANGED autoRows
\* deduplicate_content: a sentence the text read already has is dropped.
Deduplicated(body, facts) == facts \ Paragraphs(body)
\* merge_body: too long a text keeps its beginning, and the new content.
MergeBody(body, f) ==
    IF Len(body) + 1 <= MaxParagraphs THEN Append(body, f)
    ELSE Append(SubSeq(body, 1, MaxParagraphs - 1), f)
\* summarize_with_model may fail, and may find nothing new; both end the
\* update.  sanitize_secrets may remove the answer as well.
Summarize(r, facts) ==
    LET fresh == Deduplicated(updater[r].read, facts) IN
    /\ IF fresh = {} THEN UpdaterAt(r, "model", Finished)
       ELSE \E f \in fresh :
               UpdaterAt(r, "model", [updater[r] EXCEPT !.pc = "write", !.merged = MergeBody(updater[r].read, f)])
    /\ UNCHANGED autoRows
WriteUpdate(r) ==
    /\ UpdaterAt(r, "write", Finished)
    /\ ReplaceBookBody(updater[r].merged) /\ UNCHANGED <<autoPolicy, proposal>>
\* The server stops, or the write fails, which is only logged.
UpdateLost(r) == updater[r].pc # "done" /\ updater' = [updater EXCEPT ![r] = Finished] /\ UNCHANGED autoRows

AutobiographyNext ==
    \/ \E p \in AutoPolicies : UpdatePolicy(p)
    \/ \E body \in Texts : CreateProposal(body) \/ \E n \in 1 .. MaxBookRevisions : ManualUpdate(body, n)
    \/ \E n \in 1 .. MaxProposals, accept \in BOOLEAN : ReviewProposal(n, accept)
    \/ \E n \in 1 .. MaxBookRevisions : RollbackBook(n)
    \/ \E r \in AutoRuns : \/ CheckPolicy(r) \/ ReadBook(r) \/ WriteUpdate(r) \/ UpdateLost(r)
                           \/ \E facts \in {{}} \cup {{f} : f \in Facts} : Summarize(r, facts)
AutobiographySpec == AutobiographyInit /\ [][AutobiographyNext]_abvars
-----------------------------------------------------------------------------
AutobiographyTypeOK ==
    /\ autoPolicy \in AutoPolicies /\ autoBook.revision \in 1 .. MaxBookRevisions
    /\ ValidBody(autoBook.body)
    /\ \A r \in AutoRuns : updater[r].pc \in {"policy", "book", "model", "write", "done"}
(***************************************************************************)
(* An accepted proposal changed exactly the text its author was shown: the *)
(* revision it was written against holds the text it recorded as before,   *)
(* the next one its own, whatever edits, rollbacks, other reviews and      *)
(* updates after runs happened between proposal and review.  Nothing that  *)
(* was ever the text is lost: the history has each revision once, and ends *)
(* with the text.  It does not say that every change was reviewed: an      *)
(* update after a run replaces the text by what it merged into the text it *)
(* read, though that was edited since, or the policy changed; only the     *)
(* history still has the edit then.                                        *)
(***************************************************************************)
ProposalsInPlace ==
    /\ Len(bookHistory) = autoBook.revision /\ bookHistory[autoBook.revision] = autoBook.body
    /\ \A n \in DOMAIN proposal :
          /\ bookHistory[proposal[n].base] = proposal[n].before
          /\ proposal[n].status = "accepted" =>
                /\ proposal[n].base < autoBook.revision
                /\ bookHistory[proposal[n].base + 1] = proposal[n].after
=============================================================================
