------------------------- MODULE ConversationTurns -------------------------
(***************************************************************************)
(* What the run engine promises to the people in a conversation, without   *)
(* workers, tokens, leases or transactions.  A transcript grows by         *)
(* questions and answers.  A turn is opened on the latest question, shows  *)
(* text as it is produced, may start the text over, and closes once: with  *)
(* the text that is shown as the answer, right after its question, or      *)
(* without one.                                                            *)
(***************************************************************************)
EXTENDS Integers, Sequences

CONSTANTS Runs, Conversations,
          Fragments   \* sizes of the pieces text is shown in

VARIABLES transcript, phase, about, screen

turnVars == <<transcript, phase, about, screen>>

NoConversation == "none"
Question == [role |-> "user", run |-> "none", chunks |-> 0]
AnswerOf(r) == [role |-> "assistant", run |-> r, chunks |-> screen[r]]

Open(r) == phase[r] = "open"
Quiet(c) == ~\E r \in Runs : about[r] = c /\ Open(r)

TurnInit ==
  /\ transcript = [c \in Conversations |-> << >>]
  /\ phase = [r \in Runs |-> "absent"]
  /\ about = [r \in Runs |-> NoConversation]
  /\ screen = [r \in Runs |-> 0]

\* A question, while nobody is answering an earlier one
Ask(c) ==
  /\ Quiet(c)
  /\ transcript' = [transcript EXCEPT ![c] = Append(@, Question)]

\* A turn about the question at the end of the transcript
OpenTurn(c, r) ==
  /\ phase[r] = "absent" /\ Quiet(c)
  /\ transcript'[c] # << >> /\ transcript'[c][Len(transcript'[c])] = Question
  /\ phase' = [phase EXCEPT ![r] = "open"]
  /\ about' = [about EXCEPT ![r] = c]
  /\ UNCHANGED screen

AskOnly(c) == Ask(c) /\ UNCHANGED <<phase, about, screen>>
AskAndOpen(c, r) == Ask(c) /\ OpenTurn(c, r)
OpenLatest(c, r) == OpenTurn(c, r) /\ UNCHANGED transcript

\* Text appears, or what was shown is withdrawn
Show(r, n) ==
  /\ Open(r) /\ n > 0
  /\ screen' = [screen EXCEPT ![r] = @ + n]
  /\ UNCHANGED <<transcript, phase, about>>

Withdraw(r) ==
  /\ Open(r)
  /\ screen' = [screen EXCEPT ![r] = 0]
  /\ UNCHANGED <<transcript, phase, about>>

\* The end of a turn
Answer(r) ==
  /\ Open(r) /\ about[r] # NoConversation /\ screen[r] > 0
  /\ transcript' = [transcript EXCEPT ![about[r]] = Append(@, AnswerOf(r))]
  /\ phase' = [phase EXCEPT ![r] = "completed"]
  /\ UNCHANGED <<about, screen>>

Give(r, outcome) ==
  /\ Open(r) /\ outcome \in {"failed", "canceled"}
  /\ phase' = [phase EXCEPT ![r] = outcome]
  /\ screen' = [screen EXCEPT ![r] = 0]
  /\ UNCHANGED <<transcript, about>>

\* A conversation is erased with its turns, except those in lost, which are
\* left without a conversation
Erase(c, lost) ==
  LET gone == {r \in Runs : about[r] = c} \ lost IN
  /\ transcript' = [transcript EXCEPT ![c] = << >>]
  /\ phase' = [r \in Runs |-> IF r \in gone THEN "deleted" ELSE phase[r]]
  /\ about' = [r \in Runs |-> IF about[r] = c THEN NoConversation ELSE about[r]]
  /\ screen' = [r \in Runs |-> IF r \in gone THEN 0 ELSE screen[r]]

TurnNext ==
  \/ \E c \in Conversations : AskOnly(c)
  \/ \E c \in Conversations, r \in Runs : AskAndOpen(c, r) \/ OpenLatest(c, r)
  \/ \E r \in Runs : Withdraw(r) \/ Answer(r)
  \/ \E r \in Runs, n \in Fragments : Show(r, n)
  \/ \E r \in Runs, outcome \in {"failed", "canceled"} : Give(r, outcome)
  \/ \E c \in Conversations, lost \in SUBSET Runs : Erase(c, lost)

TurnSpec == TurnInit /\ [][TurnNext]_turnVars
=============================================================================
