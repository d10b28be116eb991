----------------------------- MODULE RunContext -----------------------------
(***************************************************************************)
(* build_messages of run_api.rs and build_context of gobrowse-core: how a  *)
(* run fills the context window of its model.  The system policy and the   *)
(* newest messages go in first, then pinned books, the library's finds and *)
(* the worktrees as far as the remaining budget goes.                      *)
(*                                                                         *)
(* Sizes are estimates in tokens.  A selected candidate travels as a JSON  *)
(* record, WrapTokens longer than the text that was counted when it was    *)
(* chosen, after a heading of HeadingTokens.                               *)
(***************************************************************************)
EXTENDS Naturals, Sequences, Functions, ListOps

CONSTANTS PolicyTokens, WrapTokens, HeadingTokens,
          Budgets,        \* context_window - output_limit of the chosen models
          Sizes,          \* sizes of messages, books and worktree listings
          MaxRecent,      \* LIMIT 40 of the query for recent messages
          MaxPinned,      \* LIMIT 20
          MaxFound        \* LIMIT 12

ASSUME ContextAssumption == /\ Sizes \subseteq Nat /\ Budgets \subseteq Nat
                            /\ PolicyTokens \in Nat /\ WrapTokens \in Nat /\ HeadingTokens \in Nat
                            /\ MaxRecent \in Nat /\ MaxPinned \in Nat /\ MaxFound \in Nat

VARIABLES budget,         \* the budget of this run
          history,        \* sizes of the conversation's last messages
          recent,         \* those that are kept, oldest first
          candidates,     \* what retrieval offers, in the order it was pushed
          built,          \* what build_context returned
          used,           \* used_tokens of the assembled context
          ctx             \* how far the build has come

ctxvars == <<budget, history, recent, candidates, built, used, ctx>>

Total(sizes) == SumFunction(sizes)
UpTo(n) == UNION {[1 .. k -> Sizes] : k \in 0 .. n}

ContentBudget == budget - PolicyTokens
OptionalBudget == ContentBudget - Total(recent)

EmptyContext == [selected |-> <<>>, omitted |-> <<>>, used |-> 0]

ContextInit ==
    /\ budget \in Budgets
    /\ history \in UpTo(MaxRecent) \ {<<>>}
    /\ recent = <<>> /\ candidates = <<>> /\ built = EmptyContext /\ used = 0
    /\ ctx = "start"

Fail(error) == ctx' = error

(* The policy must leave room; then the recent messages are read *)
ReadRecent ==
    /\ ctx = "start"
    /\ IF PolicyTokens >= budget
       THEN Fail("policy_too_large") /\ UNCHANGED recent
       ELSE ctx' = "trim" /\ recent' = history
    /\ UNCHANGED <<budget, history, candidates, built, used>>

(* The oldest messages go while the rest takes more than two thirds *)
TrimRecent ==
    LET tooMuch == Len(recent) > 1 /\ Total(recent) > (ContentBudget * 2) \div 3
    IN /\ ctx = "trim"
       /\ IF tooMuch THEN recent' = Tail(recent) /\ UNCHANGED ctx
          ELSE /\ UNCHANGED recent
               /\ IF Total(recent) > ContentBudget THEN Fail("latest_too_large") ELSE ctx' = "retrieve"
       /\ UNCHANGED <<budget, history, candidates, built, used>>

(* Finds of the library, pinned books, the worktrees; what authorization
   denies is left out before it is counted                                *)
Offer(sizes, priority) == [i \in 1 .. Len(sizes) |-> [size |-> sizes[i], priority |-> priority]]

RetrieveBooks(found, pinned, worktrees) ==
    /\ ctx = "retrieve"
    /\ candidates' = Offer(found, 300) \o Offer(pinned, 400) \o Offer(worktrees, 250)
    /\ ctx' = "select"
    /\ UNCHANGED <<budget, history, recent, built, used>>

(***************************************************************************)
(* build_context: highest priority first, each one that still fits         *)
(***************************************************************************)
OfPriority(offers, p) == Picked(offers, {i \in DOMAIN offers : offers[i].priority = p})
ByPriority(offers) == OfPriority(offers, 400) \o OfPriority(offers, 300) \o OfPriority(offers, 250)

Choose(sofar, c) ==
    IF sofar.used + c.size <= OptionalBudget
    THEN [sofar EXCEPT !.selected = Append(@, c), !.used = @ + c.size]
    ELSE [sofar EXCEPT !.omitted = Append(@, c)]

Chosen(offers) ==
    LET upto[i \in 0 .. Len(offers)] ==
            IF i = 0 THEN EmptyContext ELSE Choose(upto[i - 1], offers[i])
    IN  upto[Len(offers)]

BuildContext ==
    /\ ctx = "select"
    /\ built' = Chosen(ByPriority(candidates))
    /\ ctx' = "assemble"
    /\ UNCHANGED <<budget, history, recent, candidates, used>>

Wrapped(selected) ==
    IF selected = <<>> THEN 0
    ELSE HeadingTokens + Total([i \in DOMAIN selected |-> selected[i].size + WrapTokens])

(* Mutant: the assembled context is not compared with the budget again *)
ExceedsNever(tokens) == FALSE

Exceeds(tokens) == tokens > budget

Assemble ==
    LET tokens == PolicyTokens + Wrapped(built.selected) + Total(recent)
    IN /\ ctx = "assemble"
       /\ used' = tokens
       /\ IF Exceeds(tokens) THEN Fail("assembled_too_large") ELSE ctx' = "built"
       /\ UNCHANGED <<budget, history, recent, candidates, built>>

ContextNext ==
    \/ ReadRecent \/ TrimRecent \/ BuildContext \/ Assemble
    \/ \E found \in UpTo(MaxFound), pinned \in UpTo(MaxPinned), worktrees \in UpTo(1) :
           RetrieveBooks(found, pinned, worktrees)

ContextSpec == ContextInit /\ [][ContextNext]_ctxvars

Failures == {"policy_too_large", "latest_too_large", "assembled_too_large"}

ContextTypeOK ==
    /\ budget \in Budgets /\ history \in Seq(Sizes) /\ recent \in Seq(Sizes)
    /\ used \in Nat
    /\ ctx \in Failures \cup {"start", "trim", "retrieve", "select", "assemble", "built"}

(***************************************************************************)
(* A context that is sent fits the window and is the best the rules allow: *)
(* the kept messages are the newest, as many as take two thirds of what    *)
(* the policy leaves (the last one always), and an offer is omitted only   *)
(* if it does not fit beside those chosen of its priority or above         *)
(* (build_messages and build_context).                                     *)
(***************************************************************************)
Newest(n) == SubSeq(history, Len(history) - n + 1, Len(history))
WithinTwoThirds(n) == n = 1 \/ Total(Newest(n)) <= (ContentBudget * 2) \div 3

ContextFits ==
    ctx = "built" =>
        /\ used <= budget
        /\ \E n \in 1 .. Len(history) :
               /\ recent = Newest(n) /\ WithinTwoThirds(n)
               /\ \A more \in n + 1 .. Len(history) : ~WithinTwoThirds(more)
        /\ Len(built.selected) + Len(built.omitted) = Len(candidates)
        /\ \A i \in 1 .. Len(built.omitted) :
               LET c == built.omitted[i]
                   before == Picked(built.selected,
                                    {k \in DOMAIN built.selected : built.selected[k].priority >= c.priority})
               IN c.size + Total([k \in DOMAIN before |-> before[k].size]) > OptionalBudget
=============================================================================
