------------------------------ MODULE TuiScreen ------------------------------
(***************************************************************************)
(* The differential renderer of the terminal interface and the scheduling   *)
(* of its renders: packages/tui/src/tui.ts.                                 *)
(*                                                                          *)
(* A line is a member of Line; none is equal to a missing line, since every *)
(* line ends with the reset of its styles. Rows are counted from 0 as in    *)
(* the code, sequences from 1. A width is 1 or 2. The terminal (external)   *)
(* clamps cursor moves, and scrolls at a line feed in its last row. In      *)
(* Termux it also keeps the rows that left at the top, and a change of its  *)
(* height alone (its keyboard comes or goes) moves rows out and back.       *)
(***************************************************************************)
EXTENDS Integers, Sequences, FiniteSetsExt, SequencesExt

CONSTANTS
  Line,           \* the texts of lines
  Heights,        \* the heights of the terminal
  MaxLines,       \* lines of the content
  Resizes,        \* how often the terminal's size changes
  ClearOnShrink,  \* the values of the setting clearOnShrink
  Termux,         \* the values of isTermuxSession()
  Uses            \* what may happen: "overlay", "stop", "empty", "unforced",
                  \* "cursorAbove", "farCursor"

TuiAssumption ==
  /\ Heights \subseteq Nat \ {0} /\ {MaxLines, Resizes} \subseteq Nat
  /\ ClearOnShrink \subseteq BOOLEAN /\ Termux \subseteq BOOLEAN
  /\ Uses \subseteq {"overlay", "stop", "empty", "unforced", "cursorAbove", "farCursor"}

None == "none"       \* no line, and an empty row
Blank == "blank"     \* the padding of compositeOverlays
Overlay == "overlay" \* the line of an overlay
Junk == "junk"       \* a row others wrote

VARIABLES
  content,  \* what the components render
  overlays, \* overlayStack: "none", a "hidden" overlay, or a "shown" one
  term,     \* the terminal: its rows, those above them, the row of the cursor,
            \* its width, and whether it is Termux
  ui,       \* the fields of TUI that tell what was rendered
  sched,    \* the fields that tell whether a render is due, and the ticks queued
  resizes

vars == <<content, overlays, term, ui, sched, resizes>>

Height == Len(term.rows)

NewUi(setting) ==
  [lines |-> <<>>, width |-> 0, height |-> 0, cursor |-> 0, maxLines |-> 0, top |-> 0,
   clearOnShrink |-> setting]
\* requestRender(true): sizes no terminal has.
ForcedUi == [NewUi(ui.clearOnShrink) EXCEPT !.width = -1, !.height = -1]

-----------------------------------------------------------------------------
(* The terminal.                                                            *)

Shown(line) == IF line = Blank THEN None ELSE line
Move(t, by) == [t EXCEPT !.at = Max({0, Min({@ + by, Len(t.rows) - 1})})]
\* Of the rows that left at the top, the newest are kept.
Kept(t, above) ==
  IF t.termux THEN SubSeq(above, Max({1, Len(above) - Max(Heights) + 1}), Len(above)) ELSE <<>>
LineFeed(t) ==
  IF t.at < Len(t.rows) - 1 THEN [t EXCEPT !.at = @ + 1]
  ELSE [t EXCEPT !.rows = Append(Tail(@), None), !.above = Kept(t, Append(@, Head(t.rows)))]
Erase(t) == [t EXCEPT !.rows[t.at + 1] = None]
\* Text goes over what the row has.
Write(t, line) == [t EXCEPT !.rows[t.at + 1] = IF @ = None THEN Shown(line) ELSE Junk]
Cleared(t) == [t EXCEPT !.rows = [r \in DOMAIN t.rows |-> None], !.above = <<>>, !.at = 0]
Foreign(height, width) ==
  [rows |-> [r \in 1..height |-> Junk], above |-> <<>>, at |-> 0, width |-> width,
   termux |-> term.termux]

\* The height of Termux changes: empty rows below the cursor go first, then rows
\* leave at the top; rows come back there as long as there are some. The number
\* of rows that leave (or, below 0, come back), and the terminal after that.
Leaving(t, height) ==
  LET fewer == Len(t.rows) - height
      used == Max({t.at + 1} \cup {r \in DOMAIN t.rows : t.rows[r] # None})
  IN IF fewer > 0 THEN Max({0, used - height}) ELSE Max({fewer, -Len(t.above)})
WithHeight(t, height) ==
  LET all == t.above \o t.rows
      top == Len(t.above) + Leaving(t, height)
  IN [t EXCEPT !.rows = [r \in 1..height |-> IF top + r <= Len(all) THEN all[top + r] ELSE None],
               !.above = Kept(t, SubSeq(all, 1, top)),
               !.at = Max({0, @ - Leaving(t, height)})]

\* Defect: a line is written without erasing its row.
Rewrite_Over(t, line) == Write(t, line)
Rewrite(t, line) == Write(Erase(t), line)

\* Lines separated by line feeds, by themselves and over others.
WriteAll(t, lines) ==
  IF lines = <<>> THEN t
  ELSE FoldLeft(LAMBDA s, line : Write(LineFeed(s), line), Write(t, Head(lines)), Tail(lines))
RewriteAll(t, lines) ==
  FoldLeft(LAMBDA s, line : Rewrite(LineFeed(s), line), Rewrite(t, Head(lines)), Tail(lines))

\* k rows below the cursor are erased.
EraseBelow(t, k) == FoldLeft(LAMBDA s, i : Erase(LineFeed(s)), t, [i \in 1..k |-> i])
\* The same with cursor moves: nothing scrolls.
EraseDown(t, k) == FoldLeft(LAMBDA s, i : Erase(Move(s, 1)), t, [i \in 1..k |-> i])

\* The row of the screen that shows a line, by the cursor's row in both.
RowOf(row) == term.at + row - ui.cursor

-----------------------------------------------------------------------------
(* doRender.                                                                *)

\* compositeOverlays: the content is padded to the height of the terminal, and
\* an overlay drawn at the top of the viewport.
newLines ==
  IF overlays = "none" THEN content
  ELSE LET size == Max({Len(content), Height}) IN
       [i \in 1..size |->
          IF overlays = "shown" /\ i = size - Height + 1 THEN Overlay
          ELSE IF i <= Len(content) THEN content[i] ELSE Blank]

\* extractCursorPosition: the row of the marker, or -1; the marker is looked
\* for in the last lines that would fill the screen.
CursorRows(u, t) ==
  {-1} \cup {row \in Max({0, Len(newLines) - Height})..(Len(newLines) - 1) :
               "cursorAbove" \in Uses \/ t.at + row - u.cursor >= 0}

\* Defect: the cursor's row is not remembered.
positionHardwareCursor_Forgotten(u, t, row) ==
  /\ term' = IF row = -1 THEN t ELSE Move(t, row - u.cursor)
  /\ ui' = [u EXCEPT !.lines = newLines, !.width = term.width, !.height = Height]

\* positionHardwareCursor, and what was rendered is remembered.
positionHardwareCursor(u, t, row) ==
  /\ term' = IF row = -1 THEN t ELSE Move(t, row - u.cursor)
  /\ ui' = [u EXCEPT !.lines = newLines, !.width = term.width, !.height = Height,
                     !.cursor = IF row = -1 THEN @ ELSE row]

\* fullRender.
fullRender(clear) ==
  LET size == Len(newLines)
      top == Max({0, Max({Height, size}) - Height})
      u == [ui EXCEPT !.cursor = Max({0, size - 1}), !.top = top,
                      !.maxLines = IF clear THEN size ELSE Max({@, size})]
      t == WriteAll(IF clear THEN Cleared(term) ELSE term, newLines)
  IN \E row \in CursorRows(u, t) : positionHardwareCursor(u, t, row)

widthChanged == ui.width # 0 /\ ui.width # term.width
heightChanged == ui.height # 0 /\ ui.height # Height
\* Changes of the size that are followed by a full redraw: in Termux the height
\* changes whenever its keyboard comes or goes.
Resized == widthChanged \/ (heightChanged /\ ~term.termux)
FirstRender == ui.lines = <<>> /\ ~widthChanged /\ ~heightChanged
Shrunk == ui.clearOnShrink /\ Len(newLines) < ui.maxLines /\ overlays = "none"

\* The row the viewport begins with, if its bottom stays where it was.
previousBufferLength == IF ui.height > 0 THEN ui.top + ui.height ELSE Height
prevViewportTop == IF heightChanged THEN Max({0, previousBufferLength - Height}) ELSE ui.top

LineOf(lines, row) == IF row < Len(lines) THEN lines[row + 1] ELSE None
Changed ==
  {row \in 0..(Max({Len(newLines), Len(ui.lines)}) - 1) :
     LineOf(newLines, row) # LineOf(ui.lines, row)}
firstChanged == Min(Changed)
lastChanged == Max(Changed)
extraLines == Len(ui.lines) - Len(newLines)

\* Nothing changed but the cursor.
MoveCursor ==
  LET u == [ui EXCEPT !.top = prevViewportTop] IN
  Changed = {} /\ \E row \in CursorRows(u, term) : positionHardwareCursor(u, term, row)

\* All changes are in deleted lines.
OnlyDeleted == Changed # {} /\ firstChanged >= Len(newLines)
DeletedRow == Max({0, Len(newLines) - 1})
DeleteLines ==
  /\ OnlyDeleted /\ DeletedRow >= prevViewportTop /\ extraLines <= Height
  /\ LET u == [ui EXCEPT !.cursor = DeletedRow, !.top = prevViewportTop]
         t == Move(EraseDown(Move(term, DeletedRow - ui.cursor), extraLines), -extraLines)
     IN \E row \in CursorRows(u, t) : positionHardwareCursor(u, t, row)

\* Defect: a change above the viewport is drawn like any other.
AboveViewport_Never == OnlyDeleted /\ (DeletedRow < prevViewportTop \/ extraLines > Height)

\* What only a full redraw can show.
AboveViewport ==
  IF OnlyDeleted THEN DeletedRow < prevViewportTop \/ extraLines > Height
  ELSE Changed # {} /\ firstChanged < prevViewportTop

\* The changed lines are written over the old ones, and lines that are no more
\* are erased.
Differential ==
  /\ Changed # {} /\ ~OnlyDeleted /\ ~AboveViewport
  /\ LET appendStart == /\ Len(newLines) > Len(ui.lines) /\ firstChanged = Len(ui.lines)
                        /\ firstChanged > 0
         moveTarget == IF appendStart THEN firstChanged - 1 ELSE firstChanged
         scroll == Max({0, moveTarget - (prevViewportTop + Height - 1)})
         screenRow == Max({0, Min({Height - 1, ui.cursor - prevViewportTop})})
         bottom == IF scroll = 0 THEN term
                   ELSE FoldLeft(LAMBDA s, i : LineFeed(s), Move(term, Height - 1 - screenRow),
                                 [i \in 1..scroll |-> i])
         moved == Move(bottom, IF scroll = 0 THEN moveTarget - ui.cursor ELSE 0)
         started == IF appendStart THEN LineFeed(moved) ELSE moved
         renderEnd == Min({lastChanged, Len(newLines) - 1})
         written == RewriteAll(started, SubSeq(newLines, firstChanged + 1, renderEnd + 1))
         end == IF extraLines > 0 THEN Len(newLines) - 1 ELSE renderEnd
         erased == IF extraLines > 0
                   THEN Move(EraseBelow(Move(written, end - renderEnd), extraLines), -extraLines)
                   ELSE written
         top == Max({prevViewportTop + scroll, end - Height + 1})
         u == [ui EXCEPT !.cursor = end, !.top = top, !.maxLines = Max({@, Len(newLines)})]
     IN \E row \in CursorRows(u, erased) : positionHardwareCursor(u, erased, row)

doRender ==
  \/ FirstRender /\ fullRender(FALSE)
  \/ ~FirstRender /\ (Resized \/ Shrunk \/ AboveViewport) /\ fullRender(TRUE)
  \/ ~FirstRender /\ ~Resized /\ ~Shrunk /\ (MoveCursor \/ DeleteLines \/ Differential)

-----------------------------------------------------------------------------
(* When renders are due. A tick is "schedule" or "force".                   *)

\* Defect: a request is forgotten while a timer runs.
Requested_Timer(s) ==
  IF s.requested \/ s.timer THEN s
  ELSE [s EXCEPT !.requested = TRUE, !.ticks = Append(@, "schedule")]

\* requestRender().
Requested(s) ==
  IF s.requested THEN s
  ELSE [s EXCEPT !.requested = TRUE, !.ticks = Append(@, "schedule")]

\* requestRender(true), but for the fields in ui.
Forced(s) == [s EXCEPT !.requested = TRUE, !.timer = FALSE, !.ticks = Append(@, "force")]

\* scheduleRender.
Scheduled(s) == [s EXCEPT !.timer = @ \/ (s.requested /\ ~s.stopped)]

MaxTicks == 3
Room == Len(sched.ticks) < MaxTicks

\* A component changes and asks for a render; so do overlays.
Update ==
  /\ Room
  /\ sched' = Requested(sched)
  /\ \/ /\ \E size \in (IF "empty" \in Uses THEN 0 ELSE 1)..MaxLines : content' \in [1..size -> Line]
        /\ UNCHANGED overlays
     \/ /\ "overlay" \in Uses /\ overlays' \in {"none", "hidden", "shown"} \ {overlays}
        /\ UNCHANGED content
  /\ UNCHANGED <<term, ui, resizes>>

Force ==
  /\ Room
  /\ sched' = Forced(sched) /\ ui' = ForcedUi
  /\ UNCHANGED <<content, overlays, term, resizes>>

\* A new height takes neither the row of the cursor nor a blank last line below
\* it from the screen.
Spared(height) ==
  /\ Leaving(term, height) <= term.at
  /\ RowOf(Len(ui.lines) - 1) - Leaving(term, height) < height

\* The terminal tells of a new size, unless the interface is stopped. What it
\* shows then is its own affair, but for Termux, whose keyboard comes and goes
\* without end. (Before the first render there is nothing of ours to move.)
Resize ==
  /\ Room /\ ui.width # 0
  /\ \E height \in Heights, width \in {1, 2} :
       /\ <<height, width>> # <<Height, term.width>>
       /\ \/ /\ ~term.termux \/ width # term.width
             /\ resizes < Resizes /\ resizes' = resizes + 1
             /\ term' = Foreign(height, width)
          \/ /\ term.termux /\ width = term.width
             /\ "farCursor" \in Uses \/ Spared(height)
             /\ term' = WithHeight(term, height) /\ UNCHANGED resizes
  /\ sched' = IF sched.stopped THEN sched ELSE Requested(sched)
  /\ UNCHANGED <<content, overlays, ui>>

\* stop(): another program has the terminal.
Stop ==
  /\ "stop" \in Uses /\ ~sched.stopped
  /\ sched' = [sched EXCEPT !.stopped = TRUE, !.timer = FALSE]
  /\ term' = Foreign(Height, term.width)
  /\ UNCHANGED <<content, overlays, ui, resizes>>

\* start(), which asks for a render; its callers ask for a forced one.
Start ==
  /\ Room /\ sched.stopped
  /\ LET started == Requested([sched EXCEPT !.stopped = FALSE]) IN
     \/ sched' = Forced(started) /\ ui' = ForcedUi
     \/ "unforced" \in Uses /\ sched' = started /\ UNCHANGED ui
  /\ UNCHANGED <<content, overlays, term, resizes>>

\* A render, in which a component may ask for the next one.
RendersNow(s) == doRender /\ \E again \in BOOLEAN : sched' = IF again THEN Requested(s) ELSE s

\* process.nextTick callbacks, in their order.
Tick ==
  /\ sched.ticks # <<>>
  /\ LET s == [sched EXCEPT !.ticks = Tail(@)] IN
     \/ Head(sched.ticks) = "schedule" /\ sched' = Scheduled(s) /\ UNCHANGED <<term, ui>>
     \/ Head(sched.ticks) = "force" /\ (s.stopped \/ ~s.requested)
        /\ sched' = s /\ UNCHANGED <<term, ui>>
     \/ Head(sched.ticks) = "force" /\ ~s.stopped /\ s.requested
        /\ RendersNow([s EXCEPT !.requested = FALSE])
  /\ UNCHANGED <<content, overlays, resizes>>

\* The timer, once all ticks have run.
Timer ==
  /\ sched.timer /\ sched.ticks = <<>>
  /\ LET s == [sched EXCEPT !.timer = FALSE, !.requested = FALSE] IN
     \/ ~sched.requested /\ sched' = s /\ UNCHANGED <<term, ui>>
     \/ sched.requested /\ doRender
        /\ \E again \in BOOLEAN : sched' = IF again THEN Scheduled(Requested(s)) ELSE s
  /\ UNCHANGED <<content, overlays, resizes>>

-----------------------------------------------------------------------------
\* The interface was started with the cursor somewhere below the shell's text.
Init ==
  /\ \E line \in Line : content = <<line>>
  /\ overlays = "none" /\ resizes = 0
  /\ \E height \in Heights, termux \in Termux : \E at \in {0, height - 1} :
       term = [rows |-> [r \in 1..height |-> IF r <= at THEN Junk ELSE None],
               above |-> <<>>, at |-> at, width |-> 1, termux |-> termux]
  /\ \E setting \in ClearOnShrink : ui = NewUi(setting)
  /\ sched = [requested |-> TRUE, timer |-> FALSE, stopped |-> FALSE, ticks |-> <<"schedule">>]

Next == Update \/ Force \/ Resize \/ Stop \/ Start \/ Tick \/ Timer

Spec == Init /\ [][Next]_vars

-----------------------------------------------------------------------------
\* Whenever no render is due, the screen shows the content: from the line at
\* which the viewport is taken to begin, each line is in a row of its own, in
\* order, down to the last one, and the rows below are empty. So no request is
\* dropped by stops, forced renders and timers (requestRender, scheduleRender),
\* and no differential update starts from a wrong idea of the cursor, of the
\* viewport or of what was on the screen (doRender).
AtRest == sched.ticks = <<>> /\ ~sched.timer /\ ~sched.stopped
RestingScreenShowsContent ==
  AtRest =>
    /\ \A row \in ui.top..(Len(newLines) - 1) : RowOf(row) \in 0..(Height - 1)
    /\ \A r \in 0..(Height - 1) :
         LET row == r - term.at + ui.cursor IN
         row >= 0 => term.rows[r + 1] = Shown(LineOf(newLines, row))
===============================================================================
