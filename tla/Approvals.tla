------------------------------ MODULE Approvals ------------------------------
(***************************************************************************)
(* Tool approvals and the overlays they share the terminal with:           *)
(* builtin/approval_prompt.py, tui/turn.py (_updates_event),               *)
(* tui/overlays/base.py and the overlay part of tui/runtime.py.            *)
(*                                                                         *)
(* Each turn that runs (of the main agent or of a worker) may raise an     *)
(* interrupt that asks about several actions; its handler asks about them  *)
(* one after the other, and the overlays of all of them, and those the     *)
(* user opens, wait for one lock.                                          *)
(***************************************************************************)
EXTENDS Naturals, Sequences, SequencesExt

CONSTANTS
  Host,         \* the turns that may run at the same time
  Tool,         \* tools a mode asks about
  MaxActions,   \* actions one interrupt asks about
  MaxRaised,    \* interrupts
  MaxPicks,     \* overlays the user opens
  MaxUnready,   \* times an overlay cannot be made, or the handler raises
  MaxMoves      \* switches to another session

ASSUME ApprovalAssumption ==
  /\ "picker" \notin Host
  /\ {MaxActions, MaxRaised, MaxPicks, MaxUnready, MaxMoves} \subseteq Nat

VARIABLES
  inquiry,     \* of a host: the interrupt it is handling
  shown,       \* whose overlay is shown: a set, at most one
  overlayQueue,\* who waits for the overlay lock
  always,      \* state["always_allowed"] of the approval_prompt plugin
  stopping,    \* _shutting_down
  approvalsLeft\* what the bounds leave

approvalVars == <<inquiry, shown, overlayQueue, always, stopping, approvalsLeft>>

Unraised == [stage |-> "none"]

\* What an overlay gives: the user's choice, or nothing when it is closed, cancelled or cannot
\* be shown.
Answer == {"approve", "reject", "always", "nothing"}

TypeOfInquiry ==
  [stage : {"ask", "waiting", "shown"},
   actions : UNION {[1 .. n -> Tool] : n \in 1 .. MaxActions},
   allowed : SUBSET Tool, changed : BOOLEAN, decisions : Seq({"approve", "reject"}),
   said : Seq({"approve", "always", "no"}), known : SUBSET Tool]

ApprovalTypeOK ==
  /\ \A h \in Host : inquiry[h] = Unraised \/ inquiry[h] \in TypeOfInquiry
  /\ shown \subseteq Host \union {"picker"}
  /\ overlayQueue \in Seq(Host \union {"picker"})
  /\ always \subseteq Tool
  /\ stopping \in BOOLEAN
  /\ approvalsLeft \in [{"raised", "picks", "unready", "moves"} -> Nat]

ApprovalInit ==
  /\ inquiry = [h \in Host |-> Unraised]
  /\ shown = {} /\ overlayQueue = <<>>
  /\ always = {}
  /\ stopping = FALSE
  /\ approvalsLeft = [raised |-> MaxRaised, picks |-> MaxPicks, unready |-> MaxUnready,
                      moves |-> MaxMoves]

Spend(what) ==
  /\ approvalsLeft[what] > 0
  /\ approvalsLeft' = [approvalsLeft EXCEPT ![what] = @ - 1]

\* _choice: anything but a plain yes is a no.  (AnyAnswer takes anything but a no for a yes.)
AnyAnswer(answer) == IF answer # "reject" THEN "approve" ELSE "reject"
ChoiceOf(answer) == IF answer \in {"approve", "always"} THEN answer ELSE "reject"

\* What the user said of the action, if anything: for the properties only.
Said(answer) == IF answer \in {"approve", "always"} THEN answer ELSE "no"

\* One turn of handle_approval's loop ends: the decision is appended, and "always" is
\* remembered in the handler's own copy of the names.
Decided(a, said, choice) ==
  [a EXCEPT
    !.stage = "ask",
    !.allowed = IF choice = "always" THEN @ \union {a.actions[Len(a.decisions) + 1]} ELSE @,
    !.changed = @ \/ choice = "always",
    !.decisions = Append(@, IF choice = "always" THEN "approve" ELSE choice),
    !.said = Append(@, said)]

Answered(h, answer) ==
  inquiry' = [inquiry EXCEPT ![h] = Decided(@, Said(answer), ChoiceOf(answer))]

-----------------------------------------------------------------------------
(* An interrupt and its actions.                                           *)

\* _updates_event emits InterruptRaised; handle_approval begins with what is allowed now.
Raise(h) ==
  /\ inquiry[h] = Unraised
  /\ Spend("raised")
  /\ \E n \in 1 .. MaxActions : \E actions \in [1 .. n -> Tool] :
       inquiry' = [inquiry EXCEPT ![h] =
         [stage |-> "ask", actions |-> actions, allowed |-> always, changed |-> FALSE,
          decisions |-> <<>>, said |-> <<>>, known |-> always]]
  /\ UNCHANGED <<shown, overlayQueue, always, stopping>>

Remaining(a) == Len(a.decisions) < Len(a.actions)

\* The next action is one of a name already allowed.
PassAllowed(h) ==
  /\ inquiry[h].stage = "ask" /\ Remaining(inquiry[h])
  /\ inquiry[h].actions[Len(inquiry[h].decisions) + 1] \in inquiry[h].allowed
  /\ inquiry' = [inquiry EXCEPT ![h] = Decided(@, "no", "approve")]
  /\ UNCHANGED <<shown, overlayQueue, always, stopping, approvalsLeft>>

\* ui.show("approval"): the overlay is made and waits for its turn; if it cannot be made, the
\* exception is the prompt's "reject".
Prompt(h) ==
  /\ inquiry[h].stage = "ask" /\ Remaining(inquiry[h])
  /\ inquiry[h].actions[Len(inquiry[h].decisions) + 1] \notin inquiry[h].allowed
  /\ UNCHANGED <<always, stopping>>
  /\ \/ /\ inquiry' = [inquiry EXCEPT ![h].stage = "waiting"]
        /\ overlayQueue' = Append(overlayQueue, h)
        /\ UNCHANGED <<shown, approvalsLeft>>
     \/ /\ Spend("unready") /\ Answered(h, "nothing")
        /\ UNCHANGED <<shown, overlayQueue>>

\* The user opens an overlay of another kind (a picker, the hub).
OpenPicker ==
  /\ "picker" \notin shown \union ToSet(overlayQueue)
  /\ Spend("picks")
  /\ overlayQueue' = Append(overlayQueue, "picker")
  /\ UNCHANGED <<inquiry, shown, always, stopping>>

-----------------------------------------------------------------------------
(* The lock and the overlay that holds it.                                 *)

\* The lock is free, and the first that waits takes it: its overlay is shown, or given up
\* when the application is closing.
LockFree == shown = {}
TakeLock ==
  /\ LockFree /\ overlayQueue # <<>>
  /\ LET who == Head(overlayQueue) IN
     /\ overlayQueue' = Tail(overlayQueue)
     /\ UNCHANGED <<always, stopping, approvalsLeft>>
     /\ IF stopping
        THEN /\ UNCHANGED shown
             /\ IF who \in Host THEN Answered(who, "nothing") ELSE UNCHANGED inquiry
        ELSE /\ shown' = shown \union {who}
             /\ inquiry' = IF who \in Host THEN [inquiry EXCEPT ![who].stage = "shown"]
                           ELSE inquiry

\* A key in the overlay that is shown: an answer, or Escape, which gives nothing.
PressKey ==
  \E who \in shown : \E answer \in Answer :
    /\ shown' = shown \ {who}
    /\ IF who \in Host THEN Answered(who, answer)
       ELSE answer \in {"approve", "nothing"} /\ UNCHANGED inquiry
    /\ UNCHANGED <<overlayQueue, always, stopping, approvalsLeft>>

\* The turn is cancelled (Ctrl+C, an abort, an interrupting message) while its action waits
\* for an answer.  The prompt takes the cancellation for a "reject" and the turn goes on.
CancelTurn(h) ==
  /\ Answered(h, "nothing")
  /\ \/ /\ inquiry[h].stage = "shown"
        /\ shown' = shown \ {h} /\ UNCHANGED overlayQueue
     \/ /\ inquiry[h].stage = "waiting"
        /\ \E i \in DOMAIN overlayQueue :
             overlayQueue[i] = h /\ overlayQueue' = RemoveAt(overlayQueue, i)
        /\ UNCHANGED shown
  /\ UNCHANGED <<always, stopping, approvalsLeft>>

\* _shut_down: the overlay that is shown is cancelled; those that wait find the flag.
ShutDown ==
  /\ ~stopping /\ stopping' = TRUE
  /\ shown' = {}
  /\ inquiry' = [h \in Host |->
       IF h \in shown THEN Decided(inquiry[h], "no", ChoiceOf("nothing")) ELSE inquiry[h]]
  /\ UNCHANGED <<overlayQueue, always, approvalsLeft>>

-----------------------------------------------------------------------------
(* What the graph is resumed with.                                         *)

\* All actions are answered and the turn is resumed with the decisions; the names said to be
\* always allowed are stored, over what is stored by now, and an agent with them is asked for.
Resume(h) ==
  /\ inquiry[h].stage = "ask" /\ ~Remaining(inquiry[h])
  /\ inquiry' = [inquiry EXCEPT ![h] = Unraised]
  /\ IF inquiry[h].changed
     THEN always' = inquiry[h].allowed
     ELSE UNCHANGED always
  /\ UNCHANGED <<shown, overlayQueue, stopping, approvalsLeft>>

\* An exception in a handler: _updates_event rejects every action of the interrupt.
Unresolved(h) ==
  /\ inquiry[h].stage = "ask" /\ Spend("unready")
  /\ inquiry' = [inquiry EXCEPT ![h] = Unraised]
  /\ UNCHANGED <<shown, overlayQueue, always, stopping>>

\* The user starts another session, and the plugin's state is that session's.
MoveSession ==
  /\ ~stopping /\ Spend("moves")
  /\ always' = {}
  /\ UNCHANGED <<inquiry, shown, overlayQueue, stopping>>

-----------------------------------------------------------------------------
ApprovalNext ==
  \/ \E h \in Host :
       \/ Raise(h) \/ PassAllowed(h) \/ Prompt(h) \/ CancelTurn(h)
       \/ Unresolved(h) \/ Resume(h)
  \/ OpenPicker \/ TakeLock \/ PressKey \/ ShutDown \/ MoveSession

ApprovalSpec == ApprovalInit /\ [][ApprovalNext]_approvalVars

-----------------------------------------------------------------------------
(* Properties.                                                             *)

\* An action is approved only if the user approved that very action, or its name was allowed
\* when the interrupt was raised, or was allowed for good by an earlier answer of the same
\* interrupt: no closed overlay, cancellation, failure or shutdown, and no answer given for
\* another action or another turn, lets a tool run.
NothingUnapproved ==
  \A h \in Host : inquiry[h] # Unraised =>
    LET a == inquiry[h] IN
    \A i \in DOMAIN a.decisions : a.decisions[i] = "approve" =>
      \/ a.said[i] \in {"approve", "always"}
      \/ a.actions[i] \in a.known
      \/ \E j \in 1 .. i - 1 : a.said[j] = "always" /\ a.actions[j] = a.actions[i]

\* The keys go to one overlay, and an approval waits for an answer exactly while its overlay
\* is shown or is in the queue: none is left behind by a cancellation or another overlay.
OneOverlay ==
  /\ \A w, v \in shown : w = v
  /\ \A h \in Host :
       /\ inquiry[h].stage = "shown" <=> h \in shown
       /\ inquiry[h].stage = "waiting" <=> h \in ToSet(overlayQueue)
  /\ stopping => shown = {}

\* Approvals fail closed, and one overlay at a time has the keys (approval_prompt.py,
\* runtime.py).
ApprovalsSound == NothingUnapproved /\ OneOverlay
=============================================================================
