----------------------------- MODULE MCTerminal -----------------------------
(***************************************************************************)
(* The components of the terminal interface that share no state with one   *)
(* another, in one instance: a behaviour begins by choosing the component  *)
(* it is of, and is then one of that component's specification, while the  *)
(* others rest in an initial state (as in MCServices).                     *)
(***************************************************************************)
EXTENDS Transcript, TerminalOutput, TerminalReplies, Approvals, Composer, TaskCards, ToolStream,
        AgentsScreen, StatusLine

CONSTANT Part   \* the components that are looked at

\* Two large pastes, one that begins like a chip.
PasteTexts == {<<"a">>, <<"[", "a">>}

\* Rows of the status line: the preset's, in a box and without, and a short one.
RowLayouts ==
  {[left |-> <<"brand", "model", "git", "pr">>, right |-> <<"session", "context">>, box |-> b] :
     b \in BOOLEAN}
  \union {[left |-> <<"model", "git">>, right |-> <<"context">>, box |-> FALSE]}
SegmentCells ==
  [name \in {"brand", "model", "git", "pr", "session", "context"} |->
     [text |-> CASE name = "brand" -> 15 [] name = "model" -> 12 [] name = "context" -> 9
                 [] OTHER -> 5,
      around |-> 2, prefix |-> IF name = "model" THEN 6 ELSE 0]]

VARIABLE part

vars == <<part, transcriptVars, outputVars, replyVars, approvalVars, composerVars, cardVars,
         streamVars, agentsVars, statusVars>>

\* The components that do not take part are in one initial state.
Resting ==
  /\ IF part = "output" THEN TRUE ELSE detected = TRUE
  /\ IF part = "agents" THEN TRUE ELSE worker[1].status = "unborn"
  /\ IF part = "status" THEN TRUE
     ELSE folderOf = [s \in Place |-> FirstFolder] /\ segments = {"git"}

Init ==
  /\ part \in Part
  /\ TranscriptInit /\ OutputInit /\ ReplyInit /\ ApprovalInit /\ ComposerInit /\ CardInit
  /\ StreamInit /\ AgentsInit /\ StatusInit /\ Resting

OthersRest ==
  /\ part' = part
  /\ part # "transcript" => UNCHANGED transcriptVars
  /\ part # "output" => UNCHANGED outputVars
  /\ part # "replies" => UNCHANGED replyVars
  /\ part # "approvals" => UNCHANGED approvalVars
  /\ part # "composer" => UNCHANGED composerVars
  /\ part # "cards" => UNCHANGED cardVars
  /\ part # "stream" => UNCHANGED streamVars
  /\ part # "agents" => UNCHANGED agentsVars
  /\ part # "status" => UNCHANGED statusVars

Next ==
  \/ part = "transcript" /\ TranscriptNext /\ OthersRest
  \/ part = "output" /\ OutputNext /\ OthersRest
  \/ part = "replies" /\ ReplyNext /\ OthersRest
  \/ part = "approvals" /\ ApprovalNext /\ OthersRest
  \/ part = "composer" /\ ComposerNext /\ OthersRest
  \/ part = "cards" /\ CardNext /\ OthersRest
  \/ part = "stream" /\ StreamNext /\ OthersRest
  \/ part = "agents" /\ AgentsNext /\ OthersRest
  \/ part = "status" /\ StatusNext /\ OthersRest

Spec == Init /\ [][Next]_vars

TypeOK ==
  CASE part = "transcript" -> TranscriptTypeOK [] part = "output" -> OutputTypeOK
    [] part = "replies" -> ReplyTypeOK [] part = "approvals" -> ApprovalTypeOK
    [] part = "composer" -> ComposerTypeOK [] part = "cards" -> CardTypeOK
    [] part = "stream" -> StreamTypeOK [] part = "agents" -> AgentsTypeOK
    [] part = "status" -> StatusTypeOK

\* What is on the screen is what was said, in its order: blocks, rows, updates of the terminal
\* and its replies, and a status line of the session in use (transcript.py 452-560,
\* frame.py 150-230, runtime.py 208-460, statusline.py 244-422 and 1143-1250).
ScreenSound ==
  ScrollbackInOrder /\ EventsAccepted /\ ViewportFits /\ OutputSound /\ FragmentsDoNotMatter
  /\ StatusSound

\* What the user said is what arrives: answers reach the actions they were asked for, a paste its
\* prompt in one piece, and a key of the hub the worker that was highlighted
\* (approval_prompt.py 53-105, composer.py 301-360, hub.py 353-555).
InputSound == ApprovalsSound /\ PastesStayWhole /\ AgentsSound

\* The cards tell of the calls they are for (transcript.py 541-700, turn.py 295-440).
CardsSound == TaskCardsSound /\ ToolCardsSound
=============================================================================
