----------------------------- MODULE ChatTurns -----------------------------
(***************************************************************************)
(* One conversation of the chat assistant (core/api/chat.py,               *)
(* chat/agent.py, chat/actions.py).  A post checks the conversation in a   *)
(* transaction of its own; the turn then streams in a second transaction   *)
(* that is committed when the stream ends and rolled back when the request *)
(* is cancelled.  The turn works with the totals the post has read.  An    *)
(* analyst may confirm the action a turn proposed.                         *)
(*                                                                         *)
(* What is said is left out: a call of the model costs something and asks  *)
(* for tools or for none.  The daily ceilings are in SpendLedger, the      *)
(* review a confirmed action decides in RunLifecycle.                      *)
(***************************************************************************)
EXTENDS Naturals, FiniteSets, Functions

CONSTANTS
    Turns,                  \* posts of messages
    Clicks,                 \* requests to confirm an action
    Answers,                \* what an answer of the model may cost
    Budget,                 \* budget_dollars of the conversation
    Tracking,               \* dollar accounting is on for the tenant
    MAX_TOOL_ITERATIONS

ASSUME ChatAssumption ==
    /\ IsFiniteSet(Turns) /\ IsFiniteSet(Answers) /\ Answers # {}
    /\ \A c \in Answers : c.dollars \in Nat /\ c.unpriced \in BOOLEAN
    /\ Budget \in Nat \ {0} /\ MAX_TOOL_ITERATIONS \in Nat \ {0}
    /\ Tracking \in BOOLEAN

VARIABLES
    conversation,   \* the row: its status and what its turns have cost
    turn,           \* the state of a turn in the process that streams it
    action,         \* the stored proposal of a turn
    click,          \* what a confirmation is about and how far it is
    decisions,      \* how often the action of a turn was carried out
    overlapped,     \* two turns were under way at the same time
    raced           \* two confirmations of one action were

chatVars == <<conversation, turn, action, click, decisions, overlapped, raced>>

\* What a turn asks for: a read-only tool, a new focus, a proposed action.
Tools == {"read", "focus", "propose"}
Stages == {"none", "posted", "calling", "acting", "ending", "written", "done", "cancelled"}

TurnState ==
    [at : Stages, prior : Nat, iterations : 0..MAX_TOOL_ITERATIONS, asked : SUBSET Tools,
     dollars : Nat, enforced : Nat, proposed : BOOLEAN,
     holds : {"nothing", "rows", "conversation"}, gone : BOOLEAN,
     stop : {"end_turn", "disconnected", "budget_exhausted", "refused", "error"}]

ChatTypeOK ==
    /\ conversation \in [status : {"active", "closed", "budget_exhausted"},
                         dollars : Nat, unpriced : Nat]
    /\ turn \in [Turns -> TurnState]
    /\ action \in [Turns -> {"none", "proposed", "confirmed"}]
    /\ click \in [Clicks -> [at : {"none", "read", "done"}, of : Turns]]
    /\ decisions \in [Turns -> Nat]
    /\ overlapped \in BOOLEAN /\ raced \in BOOLEAN

NoTurn ==
    [at |-> "none", prior |-> 0, iterations |-> 0, asked |-> {}, dollars |-> 0, enforced |-> 0,
     proposed |-> FALSE, holds |-> "nothing", gone |-> FALSE, stop |-> "end_turn"]

ChatInit ==
    /\ conversation = [status |-> "active", dollars |-> 0, unpriced |-> 0]
    /\ turn = [t \in Turns |-> NoTurn]
    /\ action = [t \in Turns |-> "none"]
    /\ click \in [Clicks -> [at : {"none"}, of : Turns]]
    /\ decisions = [t \in Turns |-> 0]
    /\ overlapped = FALSE /\ raced = FALSE

Enforceable == conversation.dollars - conversation.unpriced
Live(t) == turn[t].at \notin {"none", "done", "cancelled"}

\* An inserted message keeps the conversation locked against FOR UPDATE (its
\* foreign key), an UPDATE of the row against other updates as well.
RowHeld(t) == turn[t].holds = "conversation"
NoneElse(t, Held(_)) == \A u \in Turns \ {t} : ~Held(u)

Chat == <<action, click, decisions, overlapped, raced>>
-----------------------------------------------------------------------------
(* The request. *)

\* post_message: the row is locked without waiting, for this transaction only.
PostMessage(t) ==
    /\ turn[t].at = "none" /\ conversation.status = "active"
    /\ \A u \in Turns : turn[u].holds = "nothing"
    /\ turn' = [turn EXCEPT ![t].at = "posted", ![t].prior = Enforceable]
    /\ overlapped' = (overlapped \/ \E u \in Turns : Live(u))
    /\ UNCHANGED <<conversation, action, click, decisions, raced>>

\* delete_conversation
DeleteConversation ==
    /\ \A u \in Turns : ~RowHeld(u)
    /\ conversation' = [conversation EXCEPT !.status = "closed"]
    /\ UNCHANGED <<turn, Chat>>

\* _poll_disconnect
Disconnect(t) ==
    /\ Live(t) /\ ~turn[t].gone
    /\ turn' = [turn EXCEPT ![t].gone = TRUE]
    /\ UNCHANGED <<conversation, Chat>>

\* The server cancels the stream: its transaction is rolled back.
Cancel(t) ==
    /\ Live(t)
    /\ turn' = [turn EXCEPT ![t] = [NoTurn EXCEPT !.at = "cancelled"]]
    /\ UNCHANGED <<conversation, Chat>>
-----------------------------------------------------------------------------
(* run_turn *)

\* Mutant: the budget looks at what was recorded, guesswork included.
Exhausted_Raw(prior, w) == Tracking /\ prior + w.dollars >= Budget

Exhausted(prior, w) == Tracking /\ prior + w.enforced >= Budget

Ends(t, reason) ==
    turn' = [turn EXCEPT ![t].at = "ending", ![t].stop = reason, ![t].asked = {}]

StartTurn(t) ==
    /\ turn[t].at = "posted"
    /\ turn' = IF Exhausted(turn[t].prior, turn[t])
               THEN [turn EXCEPT ![t] = [NoTurn EXCEPT !.at = "done", !.stop = "refused"]]
               ELSE [turn EXCEPT ![t].at = "calling"]
    /\ UNCHANGED <<conversation, Chat>>

\* The model answers, and its call is paid for.
Answered(w, c, asked) ==
    [w EXCEPT !.at = IF asked = {} THEN "ending" ELSE "acting",
              !.iterations = @ + 1,
              !.dollars = @ + c.dollars, !.enforced = @ + (IF c.unpriced THEN 0 ELSE c.dollars),
              !.asked = asked]

CallModel(t) ==
    /\ turn[t].at = "calling" /\ turn[t].iterations < MAX_TOOL_ITERATIONS /\ ~turn[t].gone
    /\ \E c \in Answers, asked \in SUBSET Tools :
           turn' = [turn EXCEPT ![t] = Answered(@, c, asked)]
    /\ UNCHANGED <<conversation, Chat>>

\* The loop is left without another call.
StopCalling(t) ==
    /\ turn[t].at = "calling"
    /\ \/ turn[t].iterations = MAX_TOOL_ITERATIONS /\ Ends(t, "end_turn")
       \/ turn[t].iterations < MAX_TOOL_ITERATIONS /\ turn[t].gone /\ Ends(t, "disconnected")
    /\ UNCHANGED <<conversation, Chat>>

\* _dispatch_tool, or _handle_propose_action, which may refuse what it gets; the
\* last proposal wins.  set_fleet_focus updates the conversation.
UseTool(t) ==
    /\ turn[t].at = "acting" /\ turn[t].asked # {} /\ ~turn[t].gone
    /\ \E tool \in turn[t].asked :
        LET w == [turn[t] EXCEPT !.asked = @ \ {tool}] IN
        \/ /\ tool = "propose"
           /\ \E valid \in BOOLEAN : turn' = [turn EXCEPT ![t] = [w EXCEPT !.proposed = @ \/ valid]]
        \/ /\ tool = "read"
           /\ turn' = [turn EXCEPT ![t] = [w EXCEPT !.holds = IF @ = "nothing" THEN "rows" ELSE @]]
        \/ /\ tool = "focus" /\ NoneElse(t, RowHeld)
           /\ turn' = [turn EXCEPT ![t] = [w EXCEPT !.holds = "conversation"]]
    /\ UNCHANGED <<conversation, Chat>>

\* The checks between two calls of the model.
NextIteration(t) ==
    /\ turn[t].at = "acting"
    /\ \/ turn[t].gone /\ Ends(t, "disconnected")
       \/ /\ ~turn[t].gone /\ turn[t].asked = {}
          /\ IF Exhausted(turn[t].prior, turn[t])
             THEN Ends(t, "budget_exhausted")
             ELSE turn' = [turn EXCEPT ![t].at = "calling"]
    /\ UNCHANGED <<conversation, Chat>>

\* The model or the database raises: an error frame, the rows so far are
\* committed, the turn is not paid for.
FailTurn(t) ==
    /\ turn[t].at \in {"calling", "acting", "ending"}
    /\ turn' = [turn EXCEPT ![t] = [NoTurn EXCEPT !.at = "done", !.stop = "error"]]
    /\ UNCHANGED <<conversation, Chat>>

\* The rows and the totals are written, the last frames are streamed ...
WriteTurn(t) ==
    /\ turn[t].at = "ending" /\ NoneElse(t, RowHeld)
    /\ turn' = [turn EXCEPT ![t].at = "written", ![t].holds = "conversation"]
    /\ UNCHANGED <<conversation, Chat>>

\* Mutant: the totals the turn was started with are written back.
Billed_Stale(w) ==
    [status   |-> IF w.stop = "budget_exhausted" THEN w.stop ELSE conversation.status,
     dollars  |-> w.prior + conversation.unpriced + w.dollars,
     unpriced |-> conversation.unpriced + (w.dollars - w.enforced)]

\* _update_conversation_totals
Billed(w) ==
    [status   |-> IF w.stop = "budget_exhausted" THEN w.stop ELSE conversation.status,
     dollars  |-> conversation.dollars + w.dollars,
     unpriced |-> conversation.unpriced + (w.dollars - w.enforced)]

\* Mutant: a proposal is stored whatever the turn came to.
Stores_Always(w) == w.proposed

Stores(w) == w.proposed /\ w.stop # "disconnected"

\* Of a finished turn only what it cost and proposed is of interest.
Closed(w) ==
    [NoTurn EXCEPT !.at = "done", !.dollars = w.dollars, !.enforced = w.enforced,
                   !.proposed = w.proposed, !.stop = w.stop]

\* ... and only then the stream commits.
CommitTurn(t) ==
    /\ turn[t].at = "written"
    /\ turn' = [turn EXCEPT ![t] = Closed(@)]
    /\ conversation' = Billed(turn[t])
    /\ action' = IF Stores(turn[t]) THEN [action EXCEPT ![t] = "proposed"] ELSE action
    /\ UNCHANGED <<click, decisions, overlapped, raced>>
-----------------------------------------------------------------------------
(* dispatch_confirm *)

\* The stored proposal is read; one that was confirmed, or is not there, ends
\* the request.
ReadAction(c) ==
    LET t == click[c].of IN
    /\ click[c].at = "none" /\ action[t] # "none"
    /\ click' = [click EXCEPT ![c].at = IF action[t] = "confirmed" THEN "done" ELSE "read"]
    /\ raced' = (raced \/ \E d \in Clicks : click[d].at = "read" /\ click[d].of = t)
    /\ UNCHANGED <<conversation, turn, action, decisions, overlapped>>

\* The review is decided and the row says so; the row is not looked at again.
CarryOut(c) ==
    LET t == click[c].of IN
    /\ click[c].at = "read"
    /\ click' = [click EXCEPT ![c].at = "done"]
    /\ action' = [action EXCEPT ![t] = "confirmed"]
    /\ decisions' = [decisions EXCEPT ![t] = @ + 1]
    /\ UNCHANGED <<conversation, turn, overlapped, raced>>
-----------------------------------------------------------------------------
Stream(t) ==
    \/ StartTurn(t) \/ CallModel(t) \/ StopCalling(t) \/ UseTool(t) \/ NextIteration(t)
    \/ FailTurn(t) \/ WriteTurn(t) \/ CommitTurn(t)

ChatNext ==
    \/ \E t \in Turns : PostMessage(t) \/ Stream(t) \/ Disconnect(t) \/ Cancel(t)
    \/ DeleteConversation
    \/ \E c \in Clicks : ReadAction(c) \/ CarryOut(c)

ChatSpec == ChatInit /\ [][ChatNext]_chatVars
-----------------------------------------------------------------------------
\* A turn that its client saw to the end.
Finished(t) == turn[t].at = "done" /\ turn[t].stop \notin {"refused", "error"}

\* The bill of the conversation is the sum of its finished turns, however turns
\* of two tabs interleave (_update_conversation_totals).
BillComplete ==
    LET finished == {t \in Turns : Finished(t)}
    IN  /\ conversation.dollars
             = SumFunctionOnSet([t \in Turns |-> turn[t].dollars], finished)
        /\ Enforceable = SumFunctionOnSet([t \in Turns |-> turn[t].enforced], finished)

\* A conversation is called exhausted only when spend with a price has reached
\* its budget, and turns that do not overlap pass it by less than one call
\* (run_turn, the two budget checks).
BudgetHonest ==
    Tracking =>
        /\ conversation.status = "budget_exhausted" => Enforceable >= Budget
        /\ ~overlapped => \A c \in Answers :
               (\A d \in Answers : d.dollars <= c.dollars) => Enforceable < Budget + c.dollars

\* An action is carried out once, unless two confirmations race, and only when
\* its turn was stored with a client that could see the button (run_turn,
\* dispatch_confirm).
ActionsRunOnce ==
    \A t \in Turns : decisions[t] > 0 =>
        /\ Finished(t) /\ turn[t].proposed /\ turn[t].stop # "disconnected"
        /\ decisions[t] = 1 \/ raced

\* "Conversation FOR UPDATE lock around streaming so parallel-tab turns conflict
\* deterministically with a 409" (chat.py): no two turns are under way at once.
OneTurnAtATime == ~overlapped

\* "Idempotency - already confirmed; return what's stored" (actions.py): an action
\* is carried out at most once.
ConfirmedOnce == \A t \in Turns : decisions[t] <= 1
=============================================================================
