------------------------------ MODULE Composer ------------------------------
(***************************************************************************)
(* The prompt's editor: large pastes are kept aside and stand in the text  *)
(* as chips (tui/composer.py); the draft is submitted, cleared, recalled,  *)
(* edited externally and put back (tui/runtime.py), and prompts are kept   *)
(* in the history (tui/history.py).                                        *)
(*                                                                         *)
(* A text is a sequence of symbols.  A chip is "[", a symbol, "]": the     *)
(* symbol stands for its label, which nobody types.                        *)
(***************************************************************************)
EXTENDS Integers, Sequences, FiniteSetsExt, SequencesExt

CONSTANTS
  Letter,        \* symbols the user types
  Payload,      \* texts large enough to become a chip
  MaxText,      \* longest text looked at
  MaxPastes, MaxEdits, MaxSent, \* chips, edits and prompts in a behaviour
  Straddling    \* are there edits whose ends, as they are seen, lie in a chip of the new text

ASSUME ComposerAssumption ==
  /\ Straddling \in BOOLEAN
  /\ Payload \subseteq Seq(Letter) /\ {MaxText, MaxPastes, MaxEdits, MaxSent} \subseteq Nat

VARIABLES
  draft,        \* buffer.text
  previous,     \* _previous_text
  pastes,       \* _pastes: a function of labels
  serial,       \* _paste_serial
  cleared,      \* _cleared_draft
  undone,       \* what undo brings back
  prompts,      \* what was submitted, in order
  remembered,   \* the history, oldest first
  editsLeft

composerVars == <<draft, previous, pastes, serial, cleared, undone, prompts, remembered, editsLeft>>

LabelOf(n) == ToString(n)
Label == {LabelOf(n) : n \in 1 .. MaxPastes}
ChipOf(k) == <<"[", k, "]">>
NoPastes == [k \in {} |-> <<>>]

Whole(text, k) == {o \in 0 .. Len(text) - 3 : SubSeq(text, o + 1, o + 3) = ChipOf(k)}
CutOut(text, i, j, by) == SubSeq(text, 1, i) \o by \o SubSeq(text, j + 1, Len(text))

\* expanded_text: the payload of each chip that is kept, not of those inside a payload.
Expanded(text) ==
  FoldLeftDomain(LAMBDA out, i :
      IF text[i] \in DOMAIN pastes /\ i - 2 \in Whole(text, text[i])
      THEN SubSeq(out, 1, Len(out) - 1) \o pastes[text[i]]
      ELSE IF i > 2 /\ text[i - 1] \in DOMAIN pastes /\ i - 3 \in Whole(text, text[i - 1])
           THEN out ELSE Append(out, text[i]),
    <<>>, text)

-----------------------------------------------------------------------------
(* _protect_paste_chips: what an edit leaves.                              *)

\* The edit as it is seen: the texts agree before start and after the two ends.
Start(before, after) ==
  Max({n \in 0 .. Min({Len(before), Len(after)}) : SubSeq(before, 1, n) = SubSeq(after, 1, n)})
Shared(before, after) ==
  LET most == Min({Len(before), Len(after)}) - Start(before, after)
  IN  Max({n \in 0 .. most : SubSeq(before, Len(before) - n + 1, Len(before))
                               = SubSeq(after, Len(after) - n + 1, Len(after))})

\* The chips it touches, as pairs of their ends.
TouchedChips(before, start, oldEnd, live) ==
  {<<o, o + 3>> : o \in {o \in UNION {Whole(before, k) : k \in live} :
                           start < o + 3 /\ oldEnd > o}}

Protected(before, after, live) ==
  IF live = {} \/ before = after THEN after
  ELSE LET start == Start(before, after)
           oldEnd == Len(before) - Shared(before, after)
           newEnd == Len(after) - Shared(before, after)
           touched == TouchedChips(before, start, oldEnd, live)
           left == Min({start} \union {c[1] : c \in touched})
           right == Max({oldEnd} \union {c[2] : c \in touched})
       IN  IF <<left, right>> = <<start, oldEnd>> THEN after
           ELSE CutOut(before, left, right, SubSeq(after, start + 1, newEnd))

\* The ends of the edit lie in a chip of the new text: two chips begin alike, so do a chip and
\* a "[" before it.
Straddles(before, after, live) ==
  LET start == Start(before, after)
      newEnd == Len(after) - Shared(before, after)
  IN  \E o \in UNION {Whole(after, k) : k \in live} :
        start \in o + 1 .. o + 2 \/ newEnd \in o + 1 .. o + 2

\* buffer.text = text, by whatever edit, with the pastes that are kept then.
SetText(text, live) ==
  /\ Straddling \/ ~Straddles(previous, text, live)
  /\ LET left == Protected(previous, text, live)
     IN  /\ Len(left) <= MaxText
         /\ draft' = left /\ previous' = left

-----------------------------------------------------------------------------
ComposerTypeOK ==
  LET Text == Seq(Letter \union Label \union {"[", "]"}) IN
  /\ draft \in Text /\ previous \in Text /\ undone \in Text
  /\ serial \in 0 .. MaxPastes
  /\ DOMAIN pastes \subseteq {LabelOf(n) : n \in 1 .. serial}
  /\ \A k \in DOMAIN pastes : pastes[k] \in Payload
  /\ cleared \in Text
  /\ prompts \in Seq(Text) /\ remembered \in Seq(Text)
  /\ editsLeft \in 0 .. MaxEdits

ComposerInit ==
  /\ draft = <<>> /\ previous = <<>> /\ undone = <<>>
  /\ pastes = NoPastes /\ serial = 0
  /\ cleared = <<>>
  /\ prompts = <<>> /\ remembered = <<>>
  /\ editsLeft = MaxEdits

Edits == editsLeft > 0 /\ editsLeft' = editsLeft - 1

\* A key, a deletion, or a selection that is replaced.
Edit ==
  /\ Edits
  /\ \E i \in 0 .. Len(draft) : \E j \in i .. Len(draft) :
     \E by \in {<<>>} \union {<<s>> : s \in Letter} :
       SetText(CutOut(draft, i, j, by), DOMAIN pastes)
  /\ undone' = draft
  /\ UNCHANGED <<pastes, serial, cleared, prompts, remembered>>

\* bug: the chip is numbered one ahead of the counter
LabelAhead == LabelOf(serial + 2)

\* The counter goes up with every paste, and the chip carries its number.
NewLabel == LabelOf(serial + 1)

\* A paste: its chip is inserted, and its text is kept aside.
InsertPaste ==
  /\ serial < MaxPastes /\ serial' = serial + 1
  /\ \E text \in Payload : pastes' = pastes @@ (NewLabel :> text)
  /\ \E i \in 0 .. Len(draft) :
       SetText(CutOut(draft, i, i, ChipOf(NewLabel)), DOMAIN pastes')
  /\ undone' = draft
  /\ UNCHANGED <<cleared, prompts, remembered, editsLeft>>

Undo ==
  /\ Edits /\ undone # draft
  /\ SetText(undone, DOMAIN pastes)
  /\ undone' = draft
  /\ UNCHANGED <<pastes, serial, cleared, prompts, remembered>>

\* As it would be if the undo stack outlived the pastes.
ResetText ==
  /\ draft' = <<>> /\ undone' = draft /\ previous' = previous
  /\ pastes' = NoPastes

\* Buffer.reset announces no change of the text: _previous_text stays.  Its undo stack is
\* dropped, and the pastes are forgotten.
Reset ==
  /\ draft' = <<>> /\ undone' = <<>> /\ previous' = previous
  /\ pastes' = NoPastes
\* clear_draft, and Ctrl+C in a draft.
ClearDraft ==
  /\ draft # <<>>
  /\ cleared' = Expanded(draft)
  /\ Reset
  /\ UNCHANGED <<serial, prompts, remembered, editsLeft>>

RecallDraft ==
  /\ cleared # <<>> /\ cleared' = <<>>
  /\ \E i \in 0 .. Len(draft) : SetText(CutOut(draft, i, i, cleared), DOMAIN pastes)
  /\ undone' = draft
  /\ UNCHANGED <<pastes, serial, prompts, remembered, editsLeft>>

\* The history's append_string: what repeats the latest entry is left out.
Remember(text) ==
  remembered' = IF text = <<>> \/ (remembered # <<>> /\ Last(remembered) = text)
                THEN remembered ELSE Append(remembered, text)

\* _accept: the draft is expanded, written back into the buffer for the history, and sent.
Accept ==
  /\ draft # <<>> /\ Len(prompts) < MaxSent
  /\ Straddling \/ ~Straddles(previous, Expanded(draft), DOMAIN pastes)
  /\ prompts' = Append(prompts, Expanded(draft))
  /\ Remember(Protected(previous, Expanded(draft), DOMAIN pastes))
  /\ draft' = <<>> /\ undone' = <<>> /\ pastes' = NoPastes
  /\ previous' = Protected(previous, Expanded(draft), DOMAIN pastes)
  /\ UNCHANGED <<serial, cleared, editsLeft>>

\* _queue_draft: the draft follows the turn that streams, and the history is not told.
QueueDraft ==
  /\ draft # <<>> /\ Len(prompts) < MaxSent
  /\ prompts' = Append(prompts, Expanded(draft))
  /\ Reset
  /\ UNCHANGED <<serial, cleared, remembered, editsLeft>>

\* Another session is shown: what was put aside can still be recalled.
RebindSession ==
  /\ draft # <<>> /\ Reset
  /\ UNCHANGED <<serial, cleared, prompts, remembered, editsLeft>>

\* A queued prompt comes back in front of the draft (dequeue, Escape).
MergeRestored ==
  /\ Edits
  /\ \E restored \in {<<s>> : s \in Letter} : SetText(restored \o draft, DOMAIN pastes)
  /\ undone' = draft
  /\ UNCHANGED <<pastes, serial, cleared, prompts, remembered>>

\* The external editor is given the expanded draft, and what it leaves is the draft.
ExternalEditor ==
  /\ Edits /\ draft # <<>>
  /\ \E more \in {<<>>} \union {<<s>> : s \in Letter} :
       SetText(Expanded(draft) \o more, DOMAIN pastes)
  /\ undone' = draft
  /\ UNCHANGED <<pastes, serial, cleared, prompts, remembered>>

ComposerNext ==
  Edit \/ InsertPaste \/ Undo \/ ClearDraft \/ RecallDraft \/ Accept \/ QueueDraft
    \/ RebindSession \/ MergeRestored \/ ExternalEditor

ComposerSpec == ComposerInit /\ [][ComposerNext]_composerVars

-----------------------------------------------------------------------------
(* Properties.                                                             *)

\* A chip stands in the draft whole and has its text, or not at all: no key, selection,
\* undo, recall or editor leaves a part of one, or one whose paste is forgotten
\* (composer.py:291-325, 364-377).
ChipsWhole ==
  \A i \in DOMAIN draft : draft[i] \in Label =>
    draft[i] \in DOMAIN pastes /\ i - 2 \in Whole(draft, draft[i])

\* What is sent, put aside or remembered is what was typed and pasted: no chip is left in it
\* that nothing could expand any more (composer.py:358, runtime.py:1426-1437).
OnlyTextIsSent ==
  \A text \in {cleared} \union ToSet(prompts) \union ToSet(remembered) :
    ToSet(text) \intersect Label = {}

PastesStayWhole == ChipsWhole /\ OnlyTextIsSent
=============================================================================
