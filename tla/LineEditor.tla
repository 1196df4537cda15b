----------------------------- MODULE LineEditor -----------------------------
(***************************************************************************)
(* The command line of the shell, cli/cli_line.c, with its history and the *)
(* completion of paths in cli/cli_path.c.  One task reads the keys one     *)
(* after another: a key is a step, whatever bytes it is sent as.           *)
(***************************************************************************)
EXTENDS Integers, Sequences, FiniteSets, SequencesExt

CONSTANTS
    LineCap,    (* CLI_LINE_MAX                                            *)
    HistMax,    (* CLI_HIST_MAX                                            *)
    Typed,      (* the characters the operator types                       *)
    Submitted,  (* bound: the lines that are entered                       *)
    MaxEntered, (* bound on their number                                   *)
    Listings    (* what directories may hold when names are completed:     *)
                (* from the path typed, up to its last "/", to the entries *)

ASSUME LineAssumption ==
    /\ {LineCap, HistMax, MaxEntered} \subseteq Nat /\ LineCap >= 2 /\ HistMax >= 1
    /\ \A L \in Listings :
        /\ << >> \in DOMAIN L
        /\ \A d \in DOMAIN L : \A e \in L[d] : e.name \in Seq(ToSet(e.name))

VARIABLES
    edit,       (* the text, the cursor before which it goes on, the view  *)
                (* of the history (-1 for none), the draft kept meanwhile, *)
                (* whether Tab was the last key and, as history, whether   *)
                (* a line of the history was cut by Delete                 *)
    hist,       (* g_hist, g_hist_head, g_hist_len                         *)
    shown,      (* what the terminal shows after the prompt                *)
    entered     (* history: the lines entered, the latest last             *)

lineVars == <<edit, hist, shown, entered>>

NewLine  == [text |-> << >>, cursor |-> 0, view |-> -1, draft |-> << >>,
             tabbed |-> FALSE, cut |-> FALSE]
Message  == [text |-> <<"message">>, col |-> 0]

LineInit ==
    /\ edit = NewLine
    /\ hist = [ring |-> [k \in 0..(HistMax - 1) |-> << >>], head |-> 0, len |-> 0]
    /\ shown = [text |-> << >>, col |-> 0]
    /\ entered = << >>

-----------------------------------------------------------------------------
(* Bug form: the index is not brought back into the ring                   *)
HistGetFlat(v) == IF v < hist.head THEN hist.ring[hist.head - 1 - v] ELSE hist.ring[0]

(* hist_get: the line entered v lines before the latest                    *)
HistGet(v) == hist.ring[(hist.head - 1 - v) % HistMax]

(* cli_line_hist_push                                                      *)
HistPush(text) ==
    hist' = IF text = << >> THEN hist
            ELSE [ring |-> [hist.ring EXCEPT ![hist.head] = text],
                  head |-> (hist.head + 1) % HistMax,
                  len  |-> IF hist.len < HistMax THEN hist.len + 1 ELSE hist.len]

(* line_redraw                                                             *)
Redraw == shown' = [text |-> edit'.text, col |-> edit'.cursor]

(* what a key leaves of the text up to the cursor, and after it; without a *)
(* view of the history the draft is of no use                              *)
Edited(before, after, view) ==
    /\ edit' = [edit EXCEPT !.text = before \o after, !.cursor = Len(before),
                            !.view = view, !.tabbed = FALSE, !.cut = FALSE,
                            !.draft = IF view < 0 THEN << >> ELSE @]
    /\ Redraw

Before == SubSeq(edit.text, 1, edit.cursor)
After  == SubSeq(edit.text, edit.cursor + 1, Len(edit.text))
NoEdit == edit' = [edit EXCEPT !.tabbed = FALSE] /\ UNCHANGED shown

KeyChar(ch) ==
    IF Len(edit.text) < LineCap - 1 THEN Edited(Append(Before, ch), After, -1) ELSE NoEdit

KeyBackspace ==
    IF edit.cursor > 0 THEN Edited(Front(Before), After, -1)
    ELSE /\ edit' = [edit EXCEPT !.tabbed = FALSE, !.view = -1, !.draft = << >>, !.cut = FALSE]
         /\ UNCHANGED shown

(* ESC [ 3 ~; the view is not left.  (A "~" that comes late is typed.)     *)
KeyDelete ==
    \/ /\ After # << >>
       /\ edit' = [edit EXCEPT !.text = Before \o Tail(After), !.tabbed = FALSE,
                               !.cut = edit.view >= 0]
       /\ Redraw
    \/ After = << >> /\ NoEdit

KeyRight ==
    IF After # << >>
    THEN /\ edit' = [edit EXCEPT !.cursor = @ + 1, !.tabbed = FALSE]
         /\ shown' = IF shown = Message THEN shown ELSE [shown EXCEPT !.col = @ + 1]
    ELSE NoEdit

KeyLeft ==
    IF edit.cursor > 0
    THEN /\ edit' = [edit EXCEPT !.cursor = @ - 1, !.tabbed = FALSE]
         /\ shown' = IF shown = Message THEN shown ELSE [shown EXCEPT !.col = @ - 1]
    ELSE NoEdit

(* the line as it was typed is kept while the history is on view           *)
KeyUp ==
    LET to == edit.view + 1
    IN  IF to < hist.len
        THEN /\ edit' = [edit EXCEPT !.draft = IF edit.view < 0 THEN edit.text ELSE @,
                            !.view = to, !.text = HistGet(to), !.cursor = Len(HistGet(to)),
                            !.tabbed = FALSE, !.cut = FALSE]
             /\ Redraw
        ELSE NoEdit

KeyDown ==
    IF edit.view < 0 THEN NoEdit
    ELSE IF edit.view = 0 THEN Edited(edit.draft, << >>, -1)
    ELSE Edited(HistGet(edit.view - 1), << >>, edit.view - 1)

KeyEnter ==
    /\ HistPush(edit.text)
    /\ entered' = IF edit.text = << >> THEN entered ELSE Append(entered, edit.text)
    /\ edit' = NewLine /\ Redraw

KeyCtrlC == edit' = NewLine /\ Redraw

-----------------------------------------------------------------------------
(* Completion.                                                             *)

(* path_token_span: the text around the cursor up to blanks                *)
TokenStart ==
    CHOOSE i \in 0..edit.cursor :
        /\ i = 0 \/ edit.text[i] = " "
        /\ \A k \in (i + 1)..edit.cursor : edit.text[k] # " "
TokenEnd ==
    CHOOSE i \in edit.cursor..Len(edit.text) :
        /\ i = Len(edit.text) \/ edit.text[i + 1] = " "
        /\ \A k \in (edit.cursor + 1)..i : edit.text[k] # " "
Token == SubSeq(edit.text, TokenStart + 1, TokenEnd)

DirPart(token) == SubSeq(token, 1, SelectLastInSeq(token, LAMBDA ch : ch = "/"))

(* path_prefix_match                                                       *)
Matching(L, token) ==
    {e \in L[DirPart(token)] : IsPrefix(token, DirPart(token) \o e.name)}

(* path_lcp_len: what all the names begin with                             *)
CommonStart(names) ==
    LET any == CHOOSE n \in names : TRUE
        ks  == {k \in 0..Len(any) : \A n \in names : IsPrefix(SubSeq(any, 1, k), n)}
    IN  SubSeq(any, 1, CHOOSE k \in ks : \A j \in ks : j <= k)

Completed(found, token) ==
    IF Cardinality(found) = 1
    THEN LET e == CHOOSE e \in found : TRUE
         IN  DirPart(token) \o e.name \o (IF e.dir THEN <<"/">> ELSE << >>)
    ELSE DirPart(token) \o CommonStart({e.name : e \in found})

(* cli_path_complete at the first Tab, or the listing at the second.  It   *)
(* may be short of memory; its messages go where the line was shown.       *)
KeyTab ==
    \E L \in Listings :
        LET known == DirPart(Token) \in DOMAIN L
            found == IF known THEN Matching(L, Token) ELSE {}
            new   == Completed(found, Token)
            text  == SubSeq(edit.text, 1, TokenStart) \o new
                     \o SubSeq(edit.text, TokenEnd + 1, Len(edit.text))
            gains == found # {} /\ (Cardinality(found) = 1 \/ Len(new) > Len(Token))
            tab   == [edit EXCEPT !.view = -1, !.draft = << >>, !.tabbed = TRUE, !.cut = FALSE]
        IN  \/ /\ ~edit.tabbed /\ gains /\ Len(text) < LineCap
               /\ edit' = [tab EXCEPT !.text = text, !.cursor = TokenStart + Len(new)]
               /\ Redraw
            \/ edit.tabbed /\ edit' = tab /\ Redraw
            \/ ~edit.tabbed /\ ~gains /\ edit' = tab /\ UNCHANGED shown
            \/ ~edit.tabbed /\ edit' = tab /\ shown' = Message

LineStep ==
    \/ /\ \/ \E ch \in Typed : KeyChar(ch)
          \/ KeyBackspace \/ KeyDelete \/ KeyLeft \/ KeyRight \/ KeyUp \/ KeyDown
          \/ KeyTab \/ KeyCtrlC
       /\ UNCHANGED <<hist, entered>>
    \/ /\ edit.text \in Submitted \cup {<< >>} /\ Len(entered) < MaxEntered
       /\ KeyEnter

-----------------------------------------------------------------------------
(* Whatever is typed, completed, cut and called back in whatever order:    *)
(* the text fits and the cursor is in it; the n-th step back in the        *)
(* history shows the n-th line before the latest, unless Delete has cut    *)
(* it; and the terminal shows the text and the cursor, but for the         *)
(* messages of a completion that fails.                                    *)
LineKept ==
    /\ Len(edit.text) < LineCap /\ edit.cursor \in 0..Len(edit.text)
    /\ edit.view >= 0 /\ ~edit.cut =>
         Len(entered) > edit.view /\ edit.text = entered[Len(entered) - edit.view]
    /\ shown # Message => shown = [text |-> edit.text, col |-> edit.cursor]
=============================================================================
