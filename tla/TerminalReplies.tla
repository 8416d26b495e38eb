--------------------------- MODULE TerminalReplies --------------------------
(***************************************************************************)
(* Input from the terminal comes in fragments; reports are taken out       *)
(* before keys and pastes are parsed (tui/runtime.py 181-248).  Every code *)
(* is a sequence of symbols: a report of the focus has two, the brackets   *)
(* of a paste three, the report of a colour four.                          *)
(***************************************************************************)
EXTENDS Naturals, Sequences, SequencesExt

CONSTANT MaxCodes   \* bound: codes and keys that are typed or reported

Esc == "esc"
PasteOn == <<Esc, "paste", "on">>
PasteOff == <<Esc, "paste", "off">>
FocusReport == <<Esc, "focus">>
ColourReport == <<Esc, "colour", "value", "end">>
Typed == {<<Esc>>, <<"key">>, <<Esc, "key">>}
Codes == {PasteOn, PasteOff, FocusReport, ColourReport} \union Typed

VARIABLES
  coming,    \* what the terminal has yet to deliver
  given,     \* what it has delivered since the last flush
  held,      \* pending
  pasting,   \* the parser's state, and what it was at the last flush
  fed, reported, codes

replyVars == <<coming, given, held, pasting, fed, reported, codes>>

ReplyInit ==
  /\ coming = <<>> /\ given = <<>> /\ held = <<>>
  /\ pasting = [now |-> FALSE, flushed |-> FALSE]
  /\ fed = <<>> /\ reported = <<>> /\ codes = 0

\* bug: while pasting, the end of the paste must come in one piece
NothingHeld(text) == FALSE

\* While pasting only what may become the end of the paste is held.
HeldInPaste(text) == text # <<>> /\ IsStrictPrefix(text, PasteOff)

HeldOutside(text) ==
  text # <<>> /\ \E code \in {PasteOn, PasteOff, FocusReport, ColourReport} : IsStrictPrefix(text, code)

Rest(text, n) == SubSeq(text, n + 1, Len(text))

RECURSIVE Parsed(_, _)
\* The loop of __call__: p is the parser with what it has fed and reported.
Parsed(p, text) ==
  LET Feeds(n, pastes) ==
        Parsed([p EXCEPT !.fed = @ \o SubSeq(text, 1, n), !.pasting = pastes], Rest(text, n))
      Told(n) == Parsed([p EXCEPT !.reported = Append(@, SubSeq(text, 1, n))], Rest(text, n)) IN
  CASE text = <<>> -> p
    [] text # <<>> /\ Head(text) # Esc -> Feeds(1, p.pasting)
    [] IsPrefix(PasteOn, text) -> Feeds(Len(PasteOn), TRUE)
    [] IsPrefix(PasteOff, text) -> Feeds(Len(PasteOff), FALSE)
    [] p.pasting /\ HeldInPaste(text) -> [p EXCEPT !.held = text]
    [] ~p.pasting /\ IsPrefix(FocusReport, text) -> Told(Len(FocusReport))
    [] ~p.pasting /\ IsPrefix(ColourReport, text) -> Told(Len(ColourReport))
    [] ~p.pasting /\ HeldOutside(text) -> [p EXCEPT !.held = text]
    [] OTHER -> Feeds(1, p.pasting)

Parser(pastes, f, r) == [held |-> <<>>, pasting |-> pastes, fed |-> f, reported |-> r]

-----------------------------------------------------------------------------
\* The user types or pastes, or the terminal reports something.
Sends(code) ==
  /\ codes < MaxCodes
  /\ codes' = codes + 1 /\ coming' = coming \o code
  /\ UNCHANGED <<given, held, pasting, fed, reported>>

\* Some of it is read, and fed to the parser.
Arrives(n) ==
  /\ n \in 1 .. Len(coming)
  /\ coming' = Rest(coming, n) /\ given' = given \o SubSeq(coming, 1, n)
  /\ LET p == Parsed(Parser(pasting.now, fed, reported), held \o SubSeq(coming, 1, n)) IN
     /\ held' = p.held /\ pasting' = [pasting EXCEPT !.now = p.pasting]
     /\ fed' = p.fed /\ reported' = p.reported
  /\ UNCHANGED codes

\* flush: for some time nothing has come; what is held was keys.
FlushHeld ==
  /\ ~pasting.now /\ held # <<>>
  /\ held' = <<>> /\ given' = <<>> /\ fed' = <<>> /\ reported' = <<>>
  /\ pasting' = [now |-> FALSE, flushed |-> FALSE]
  /\ UNCHANGED <<coming, codes>>

ReplyNext ==
  \/ \E code \in Codes : Sends(code)
  \/ \E n \in 1 .. 4 : Arrives(n)
  \/ FlushHeld

ReplySpec == ReplyInit /\ [][ReplyNext]_replyVars

-----------------------------------------------------------------------------
ReplyTypeOK == codes \in 0 .. MaxCodes /\ pasting.now \in BOOLEAN

\* However the input is cut into fragments, the same keys are fed and the same reports are told as
\* if it had come in one piece ("Remove fragmented terminal reports before PT's keyboard/paste
\* parser", runtime.py:182); only a pause, which flushes, makes a difference.
FragmentsDoNotMatter ==
  [held |-> held, pasting |-> pasting.now, fed |-> fed, reported |-> reported] =
    Parsed(Parser(pasting.flushed, <<>>, <<>>), given)
=============================================================================
