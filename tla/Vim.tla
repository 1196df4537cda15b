--------------------------------- MODULE Vim ---------------------------------
(***************************************************************************)
(* The editor of the shell, cli/cli_vim.c, over the file system of Shell.  *)
(* A step is one command, with the count and the operator typed before it, *)
(* a character in INSERT mode, or a call of the file system.  A command is *)
(* a set of outcomes, for memory may be short wherever it asks for some.   *)
(* An insertion or a deletion that fails leaves the text as it was, unless *)
(* what it lacks is memory for the new index of the lines (loff): it has   *)
(* changed the text by then, and returns -1.  IndexShort says whether that *)
(* happens.  The index is stale afterwards, which the model does not have: *)
(* it reads lines off the text.                                            *)
(***************************************************************************)
EXTENDS Shell

CONSTANTS
    Letters,    (* the characters typed, NewLineCh among them or not       *)
    Counts,     (* the counts typed before a command                       *)
    Patterns,   (* the patterns searched for                               *)
    UndoMax,    (* CGRTOS_VIM_UNDO_MAX                                     *)
    ClipMax,    (* CGRTOS_VIM_CLIP_MAX                                     *)
    IndexShort, (* whether vim_rebuild_lines may fail after a change       *)
    MaxWork     (* bound on the commands that do more than move, and on    *)
                (* the loads and saves; after the last only the file calls *)

NewLineCh == "nl"

ASSUME VimAssumption ==
    /\ Counts \subseteq Nat \ {0} /\ {UndoMax, ClipMax, MaxWork} \subseteq Nat
    /\ IndexShort \in BOOLEAN

VARIABLES
    vim,        (* g_vim                                                   *)
    work        (* their number                                            *)

vimVars == <<vim, work>>

NoVim == [file |-> Bad]

(* g_vim after vim_free_all, for a file.  An undo entry has, as history,   *)
(* the text it goes back to; loaded is history: whether the text is what   *)
(* was read or written; exit says whether a load that fails, or a save     *)
(* that does not, ends the editor.                                         *)
EmptyVim(file, exit) ==
    [file |-> file, text |-> << >>, cur |-> 0, mode |-> "NORMAL", anchor |-> 0,
     modified |-> FALSE, clip |-> << >>, linewise |-> FALSE, undo |-> << >>,
     lastOp |-> "none", lastIns |-> << >>, insAcc |-> << >>,
     pattern |-> << >>, fwd |-> TRUE, loaded |-> FALSE, exit |-> exit]

VimInit == vim = NoVim /\ work = 0

Least(S)    == CHOOSE i \in S : \A j \in S : i <= j
Greatest(S) == CHOOSE i \in S : \A j \in S : j <= i

-----------------------------------------------------------------------------
(* Lines: vim_rebuild_lines, vim_off_to_rc, vim_rc_to_off.                 *)
LineOf(e, off)  == Cardinality({i \in 1..off : e.text[i] = NewLineCh})
LastLine(e)     == LineOf(e, Len(e.text))
StartOf(e, row) == Least({p \in 0..Len(e.text) : LineOf(e, p) = row})
NextStart(e, row) == IF row = LastLine(e) THEN Len(e.text) ELSE StartOf(e, row + 1)
LineEndOf(e, row)    == IF row = LastLine(e) THEN Len(e.text) ELSE NextStart(e, row) - 1
RowHere(e)   == LineOf(e, e.cur)
OffsetAt(e, row, col) ==
    Least({StartOf(e, row) + col, LineEndOf(e, row)})

(* Motions.                                                                *)
Letter(e, p)  == e.text[p + 1]
AtNewLine(e)  == e.cur < Len(e.text) /\ Letter(e, e.cur) = NewLineCh
Blank(e, p)   == Letter(e, p) \in {" ", NewLineCh}

MoveLeft(e, n)  == IF n > e.cur THEN 0 ELSE e.cur - n
MoveRight(e, n) == Least({e.cur + n, LineEndOf(e, RowHere(e))})
MoveTo(e, row)  == OffsetAt(e, row, e.cur - StartOf(e, RowHere(e)))
MoveDown(e, n)  == MoveTo(e, Least({RowHere(e) + n, LastLine(e)}))
MoveUp(e, n)    == MoveTo(e, Greatest({RowHere(e) - n, 0}))
FirstNonBlank(e) ==
    LET row == RowHere(e)
    IN  Least({p \in StartOf(e, row)..LineEndOf(e, row) :
                 p = LineEndOf(e, row) \/ Letter(e, p) # " "})

(* vim_word_fwd, vim_word_end, vim_word_back, for text of words and blanks *)
NonBlankFrom(e, p) == Least({q \in p..Len(e.text) : q = Len(e.text) \/ ~Blank(e, q)})
BlankFrom(e, p)    == Least({q \in p..Len(e.text) : q = Len(e.text) \/ Blank(e, q)})
WordFwd(e) == NonBlankFrom(e, BlankFrom(e, e.cur))
WordEnd(e) ==
    LET p == NonBlankFrom(e, IF e.cur + 1 < Len(e.text) THEN e.cur + 1 ELSE e.cur)
    IN  IF p = Len(e.text) THEN p ELSE BlankFrom(e, p) - 1
WordBack(e) ==
    IF e.cur = 0 THEN 0
    ELSE LET p == Greatest({q \in 0..(e.cur - 1) : q = 0 \/ ~Blank(e, q)})
         IN  IF Blank(e, p) THEN p
             ELSE Least({q \in 0..p : \A k \in q..p : ~Blank(e, k)})

LineBegin(e) == StartOf(e, RowHere(e))

(* a motion n times over                                                   *)
Repeated(Motion(_), e, n) ==
    FoldLeft(LAMBDA c, k : Motion([e EXCEPT !.cur = c]), e.cur, [k \in 1..n |-> k])

Motions(e, n) ==
    {MoveLeft(e, n), MoveRight(e, n), MoveDown(e, n), MoveUp(e, n),
     Repeated(WordFwd, e, n), Repeated(WordEnd, e, n), Repeated(WordBack, e, n),
     LineBegin(e), LineEndOf(e, RowHere(e))}

(* vim_search                                                              *)
Search(e, fwd) ==
    LET plen  == Len(e.pattern)
        hits  == {i \in 0..(Len(e.text) - plen) : SubSeq(e.text, i + 1, i + plen) = e.pattern}
        start == IF e.cur = 0 THEN Len(e.text) ELSE e.cur - 1
        above == {i \in hits : i > e.cur}
        below == {i \in hits : i <= (IF fwd THEN e.cur ELSE start)}
    IN  IF e.pattern = << >> \/ above \cup below = {} THEN e.cur
        ELSE IF fwd THEN Least(IF above # {} THEN above ELSE below)
        ELSE Greatest(IF below # {} THEN below ELSE above)

-----------------------------------------------------------------------------
(* Changes.                                                                *)

(* vim_undo_push: the oldest entry gives way                               *)
UndoPush(e, kind, pos, data) ==
    LET all == Append(e.undo, [kind |-> kind, pos |-> pos, data |-> data, before |-> e.text])
    IN  [e EXCEPT !.undo = IF Len(all) > UndoMax THEN Tail(all) ELSE all]

Cut(e, pos, n) ==
    [e EXCEPT !.text = SubSeq(@, 1, pos) \o SubSeq(@, pos + n + 1, Len(@)), !.modified = TRUE,
              !.cur = IF @ > Len(e.text) - n THEN Len(e.text) - n
                      ELSE IF @ >= pos + n THEN @ - n
                      ELSE IF @ > pos THEN pos ELSE @]

Pasted(e, pos, data) ==
    [e EXCEPT !.text = SubSeq(@, 1, pos) \o data \o SubSeq(@, pos + 1, Len(@)),
              !.cur = pos + Len(data), !.modified = TRUE]

(* vim_rebuild_lines fails: what is left when the change is reported to    *)
(* have failed, to a caller that then does no more                         *)
RebuildFails(changed) == IF IndexShort THEN changed ELSE {}

(* Bug form: a deletion that leaves no entry                               *)
DeletedUnrecorded(e, pos, n) == IF n = 0 THEN e ELSE Cut(e, pos, n)

(* vim_buf_delete, vim_buf_insert                                          *)
Deleted(e, pos, n) ==
    IF n = 0 THEN e
    ELSE Cut(UndoPush(e, "delete", pos, SubSeq(e.text, pos + 1, pos + n)), pos, n)
BufDelete(e, pos, n) == {e, Deleted(e, pos, n)}

(* vim_ensure_cap, when there is memory                                    *)
EnsureCap(e, n) == Len(e.text) + n <= MaxFile

BufInsert(e, pos, data) ==
    {e} \cup (IF ~EnsureCap(e, Len(data)) THEN {}
              ELSE {Pasted(UndoPush(e, "insert", pos, data), pos, data)})

Undone(e, u) ==
    IF u.kind = "insert" THEN [Cut(e, u.pos, Len(u.data)) EXCEPT !.cur = u.pos]
    ELSE Pasted(e, u.pos, u.data)

(* vim_do_undo: the entry is dropped last                                  *)
DoUndo(e) ==
    {e} \cup (IF e.undo = << >> THEN {}
              ELSE LET u == Last(e.undo)
                       d == Undone(e, u)
                   IN  {[d EXCEPT !.undo = Front(@)]} \cup RebuildFails({d}))

(* vim_clip_set                                                            *)
ClipSet(e, data, linewise) ==
    {e} \cup (IF Len(data) > ClipMax THEN {}
              ELSE {[e EXCEPT !.clip = data, !.linewise = linewise]})

LinesHere(e, n) ==
    LET row == RowHere(e)
        to  == Least({row + n - 1, LastLine(e)})
    IN  [from |-> StartOf(e, row), len |-> NextStart(e, to) - StartOf(e, row)]

YankLines(e, n) ==
    LET l == LinesHere(e, n) IN ClipSet(e, SubSeq(e.text, l.from + 1, l.from + l.len), TRUE)

(* vim_delete_lines: what the clipboard does not take is not deleted       *)
DeleteLines(e, n) ==
    LET l == LinesHere(e, n)
        c == [e EXCEPT !.clip = SubSeq(e.text, l.from + 1, l.from + l.len), !.linewise = TRUE]
    IN  (IF l.len = 0 THEN {} ELSE {e})
        \cup (IF l.len > ClipMax THEN {}
              ELSE {c, [Deleted(c, l.from, l.len) EXCEPT !.cur = l.from, !.lastOp = "lines"]}
                   \cup RebuildFails({Deleted(c, l.from, l.len)}))

(* x and X, once                                                           *)
DeleteHere(e) ==
    IF e.cur < Len(e.text) /\ ~AtNewLine(e)
    THEN {[d EXCEPT !.lastOp = "char"] : d \in BufDelete(e, e.cur, 1)} ELSE {e}
DeleteBack(e) ==
    IF e.cur > 0 /\ Letter(e, e.cur - 1) # NewLineCh
    THEN DeleteHere([e EXCEPT !.cur = @ - 1]) ELSE {e}

Times(Once(_), e, n) ==
    FoldLeft(LAMBDA S, k : UNION {Once(f) : f \in S}, {e}, [k \in 1..n |-> k])

(* D, and d in VISUAL mode: deleted even if the clipboard did not take it  *)
DeleteSpan(e, from, to) ==
    IF to <= from THEN {e}
    ELSE {[d EXCEPT !.lastOp = "char"] :
            d \in UNION {BufDelete(c, from, to - from) :
                           c \in ClipSet(e, SubSeq(e.text, from + 1, to), FALSE)}}

(* vim_paste                                                               *)
Paste(e, after) ==
    LET row == RowHere(e)
        pos == IF e.linewise THEN IF after THEN NextStart(e, row) ELSE StartOf(e, row)
               ELSE IF after /\ e.cur < Len(e.text) /\ ~AtNewLine(e) THEN e.cur + 1
               ELSE e.cur
    IN  IF e.clip = << >> THEN {e}
        ELSE {IF d = e THEN e ELSE [d EXCEPT !.lastOp = "paste"] : d \in BufInsert(e, pos, e.clip)}
             \cup RebuildFails(BufInsert(e, pos, e.clip))

(* vim_repeat_last                                                         *)
RepeatLast(e) ==
    CASE e.lastOp = "insert" /\ e.lastIns # << >> -> BufInsert(e, e.cur, e.lastIns)
      [] e.lastOp = "char"  -> {[d EXCEPT !.lastOp = "char"] : d \in DeleteHere(e)}
      [] e.lastOp = "lines" -> DeleteLines(e, 1)
      [] e.lastOp = "paste" -> Paste(e, TRUE)
      [] OTHER -> {e}

-----------------------------------------------------------------------------
(* Modes.                                                                  *)
Inserting(e) == [e EXCEPT !.mode = "INSERT", !.insAcc = << >>]
ToNormal(e)  == [e EXCEPT !.mode = "NORMAL", !.anchor = 0]   (* of no use now *)

(* o and O go to INSERT mode even without their new line                   *)
OpenLine(e, pos) ==
    {Inserting([d EXCEPT !.cur = pos]) : d \in BufInsert(e, pos, <<NewLineCh>>)}

(* vim_handle_normal: where its motions, G among them, lead                *)
NormalMotions(e) ==
    UNION {Motions(e, n) : n \in Counts} \cup {FirstNonBlank(e), StartOf(e, LastLine(e))}
    \cup {StartOf(e, Least({n - 1, LastLine(e)})) : n \in Counts}

Normal(e) ==
    LET row == RowHere(e)
    IN  {[e EXCEPT !.cur = c] : c \in NormalMotions(e) \cup {Search(e, e.fwd), Search(e, ~e.fwd)}}
        \cup {Inserting([e EXCEPT !.cur = c]) :
                c \in {e.cur, FirstNonBlank(e), LineEndOf(e, row),
                       IF AtNewLine(e) \/ e.cur = Len(e.text) THEN e.cur ELSE e.cur + 1}}
        \cup OpenLine(e, NextStart(e, row)) \cup OpenLine(e, StartOf(e, row))
        \cup UNION {Times(DeleteHere, e, n) \cup Times(DeleteBack, e, n)
                    \cup DeleteLines(e, n) \cup YankLines(e, n) : n \in Counts}
        \cup DeleteSpan(e, e.cur, LineEndOf(e, row))
        \cup Paste(e, TRUE) \cup Paste(e, FALSE) \cup DoUndo(e) \cup RepeatLast(e)
        \cup {[e EXCEPT !.mode = "VISUAL", !.anchor = e.cur]}

(* vim_visual_bounds: the character under the cursor included              *)
VisualFrom(e) == Least({e.anchor, e.cur})
VisualTo(e)   == Least({Greatest({e.anchor, e.cur}) + 1, Len(e.text)})

(* vim_handle_visual                                                       *)
Visual(e) ==
    LET from == VisualFrom(e)
        to   == VisualTo(e)
    IN  {[e EXCEPT !.cur = c] : c \in UNION {Motions(e, n) : n \in Counts}}
        \cup {ToNormal(d) : d \in {e} \cup DeleteSpan(e, from, to)
                                  \cup ClipSet(e, SubSeq(e.text, from + 1, to), FALSE)}

(* vim_remember_insert                                                     *)
Remembered(e) ==
    IF e.insAcc = << >> THEN {e}
    ELSE {[e EXCEPT !.lastOp = "insert", !.lastIns = s, !.insAcc = << >>] : s \in {<< >>, e.insAcc}}

(* vim_handle_insert: a character, Backspace, Esc, Ctrl-C                  *)
InsertKey(e) ==
    LET back == IF e.insAcc = << >> THEN << >> ELSE Front(e.insAcc)
    IN  UNION {{IF d = e THEN e ELSE [d EXCEPT !.insAcc = Append(@, ch)] :
                  d \in BufInsert(e, e.cur, <<ch>>)}
               \cup RebuildFails(BufInsert(e, e.cur, <<ch>>)) : ch \in Letters}
        \cup (IF e.cur = 0 THEN {}
              ELSE {[d EXCEPT !.insAcc = back] : d \in BufDelete(e, e.cur - 1, 1)})
        \cup {ToNormal([r EXCEPT !.cur = IF @ > StartOf(e, RowHere(e)) THEN @ - 1 ELSE @]) :
                r \in Remembered(e)}
        \cup {ToNormal([e EXCEPT !.insAcc = << >>])}

(* the search of vim_handle_cmdline                                        *)
SearchFor(e) ==
    {[f EXCEPT !.cur = Search(f, f.fwd)] :
       f \in {[e EXCEPT !.pattern = p, !.fwd = d] : p \in Patterns, d \in BOOLEAN}}

(* a key, or a search, in the mode it is typed in                          *)
Kept(e) == <<e.text, e.clip, e.linewise, e.pattern, e.fwd>>

Edit ==
    /\ At("vi", "edit")
    /\ vim' \in CASE vim.mode = "NORMAL" -> Normal(vim) \cup SearchFor(vim)
                  [] vim.mode = "VISUAL" -> Visual(vim)
                  [] OTHER -> InsertKey(vim)
    /\ work' = IF Kept(vim') = Kept(vim) THEN work ELSE work + 1
    /\ UNCHANGED <<vfsVars, shellVars>>

-----------------------------------------------------------------------------
(* Files.                                                                  *)
LeaveEditor == job' = NoJob /\ vim' = NoVim
Stay(v) == job' = Begin("vi", "edit") /\ vim' = v

(* vim_load up to its first call that opens; it starts from an empty text  *)
Load(p, exit) ==
    /\ \/ /\ StatIs(p, "file") /\ VfsOpen(p, [ReadWrite EXCEPT !.create = FALSE])
          /\ job' = [Begin("vi", IF fileSize[Resolve(p).ino] = 0 THEN "loaded" ELSE "read")
                        EXCEPT !.in = NewFd]
       \/ /\ ~StatIs(p, "file") /\ VfsOpen(p, ReadWrite)
          /\ job' = [Begin("vi", "loaded") EXCEPT !.in = NewFd]
    /\ vim' = EmptyVim(p, exit)
    /\ UNCHANGED <<cwd, tracked>>

LoadRead ==
    /\ At("vi", "read") /\ VfsRead(job.in, MaxFile)
    /\ job' = [job EXCEPT !.at = "loaded", !.buf = SubSeq(cells[fds[job.in].ino], 1, fds'[job.in].pos)]
    /\ UNCHANGED <<cwd, tracked, vim>>

(* the rest of it, which may fail for memory                               *)
LoadClose ==
    /\ At("vi", "loaded") /\ VfsClose(job.in)
    /\ \/ Stay([vim EXCEPT !.text = job.buf, !.loaded = TRUE, !.exit = FALSE])
       \/ IF vim.exit THEN LeaveEditor ELSE Stay(vim)
    /\ UNCHANGED <<cwd, tracked>>

(* cli_vim_try_handle; one that cannot be opened is not edited             *)
Vi(arg) == job = NoJob /\ CliResolve(arg) # Bad /\ Load(CliResolve(arg), TRUE)

(* vim_save, from the name it is given or has                              *)
Save(p, exit) ==
    /\ VfsOpen(p, WriteAnew)
    /\ job' = [Begin("vi", IF vim.text = << >> THEN "saved" ELSE "write")
                  EXCEPT !.path = p, !.out = NewFd]
    /\ vim' = [vim EXCEPT !.exit = exit]
    /\ UNCHANGED <<cwd, tracked>>

SaveWrite ==
    /\ At("vi", "write") /\ VfsWrite(job.out, vim.text)
    /\ job' = [job EXCEPT !.at = IF fds'[job.out].pos = 0 THEN "lost" ELSE "saved"]
    /\ UNCHANGED <<cwd, tracked, vim>>

(* Bug form: a write that failed is not noticed                            *)
SaveCloseAnyway ==
    /\ At("vi", "saved") \/ At("vi", "lost")
    /\ VfsClose(job.out)
    /\ IF vim.exit THEN LeaveEditor
       ELSE Stay([vim EXCEPT !.file = job.path, !.modified = FALSE, !.loaded = TRUE])
    /\ UNCHANGED <<cwd, tracked>>

SaveClose ==
    /\ At("vi", "saved") \/ At("vi", "lost")
    /\ VfsClose(job.out)
    /\ IF job.at = "lost" THEN Stay([vim EXCEPT !.exit = FALSE])
       ELSE IF vim.exit THEN LeaveEditor
       ELSE Stay([vim EXCEPT !.file = job.path, !.modified = FALSE, !.loaded = TRUE])
    /\ UNCHANGED <<cwd, tracked>>

(* vim_ex_run: :q! :q :wq :w, :w and :e with a name; without memory, or of *)
(* a directory, :e leaves an empty text under the new name                 *)
Ex ==
    /\ At("vi", "edit") /\ vim.mode = "NORMAL"
    /\ \/ LeaveEditor /\ UNCHANGED <<vfsVars, cwd, tracked>>
       \/ \E exit \in BOOLEAN : Save(vim.file, exit)
       \/ \E a \in Args : CliResolve(a) # Bad /\ Save(CliResolve(a), FALSE)
       \/ \E a \in Args :
            /\ ~vim.modified /\ CliResolve(a) # Bad
            /\ \/ Load(CliResolve(a), FALSE)
               \/ /\ Stay(EmptyVim(CliResolve(a), FALSE))
                  /\ UNCHANGED <<vfsVars, cwd, tracked>>

VimStep ==
    \/ work < MaxWork /\ Edit
    \/ work < MaxWork /\ ((\E a \in Args : Vi(a)) \/ Ex) /\ work' = work + 1
    \/ (LoadRead \/ LoadClose \/ SaveWrite \/ SaveClose) /\ UNCHANGED work

-----------------------------------------------------------------------------
(* Undo goes back to where one was: taken one after another, the entries   *)
(* give the texts that were there before the changes they are for,         *)
(* whatever was typed, pasted, deleted and undone, and with changes among  *)
(* them that failed for memory, for the text or for the entry.  It is so   *)
(* only where there is memory for the index: with IndexShort, an undo that *)
(* fails has changed the text, and its entry is taken a second time.       *)
UndoHolds ==
    vim # NoVim =>
        LET n == Len(vim.undo)
            back[k \in 0..n] ==
                IF k = 0 THEN vim ELSE Undone(back[k - 1], vim.undo[n + 1 - k])
        IN  \A k \in 1..n : back[k].text = vim.undo[n + 1 - k].before

(* While the editor says that nothing is to be saved, the file it names    *)
(* holds what it shows: :q loses nothing.  The exception is a file that    *)
(* :e could not load, which is named over an empty text.                   *)
SavedIsShown ==
    At("vi", "edit") /\ ~vim.modified /\ vim.loaded =>
        /\ StatIs(vim.file, "file")
        /\ LET i == Resolve(vim.file).ino
           IN  SubSeq(cells[i], 1, fileSize[i]) = vim.text
=============================================================================
