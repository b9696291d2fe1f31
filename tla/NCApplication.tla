----------------------------- MODULE NCApplication -----------------------------
(***************************************************************************)
(* The event loop of bf/ncurses: NCApplication::exec, the stack of         *)
(* windows, the widgets of each window and the callbacks of their items    *)
(* and buttons, which open and close windows, move the focus and end the   *)
(* loop while a key event is being handled (tests/ncurses.cpp).            *)
(*                                                                         *)
(* Definitions marked "Fault" are the definition after them with a bug, to *)
(* see that the properties notice; no specification uses them.             *)
(***************************************************************************)
EXTENDS NCWidgets, SequencesExt

CONSTANTS WindowId,   \* the windows
          Layouts,    \* the widgets of a window, as sequences of kinds;
                      \* <<>> stands for an NCStatusBar, which has none
          MaxWindows  \* bound on the windows open at once

ASSUME LayoutAssumption ==
  /\ Layouts # {} /\ Layouts \subseteq Seq({"menu", "form"})
  /\ MaxWindows \in Nat

VARIABLES windows,    \* m_windows, bottom first
          terminated, \* m_terminated
          drawn,      \* the windows drawn since the screen was last cleared
          kept,       \* the window closed last, which the program may still
                      \* have a reference to and add again (a bound: one)
          pc          \* where exec is

vars == <<windows, terminated, drawn, kept, pc>>

Top == windows[Len(windows)]
Ids(ws) == { ws[i].id : i \in DOMAIN ws }

\* addWidget for each widget in turn: the first takes the focus.  again says
\* of a window that it was closed and added again, and not drawn since.
New(kind) == IF kind = "menu" THEN Menu ELSE Form
Window(id, layout) ==
  [id |-> id, need |-> TRUE, again |-> FALSE,
   widgets |-> [i \in DOMAIN layout |-> [New(layout[i]) EXCEPT !.focus = (i = 1)]]]

Init == /\ windows = <<>>
        /\ terminated = FALSE
        /\ drawn = {} /\ kept = {}
        /\ pc = "main"

-------------------------------------------------------------------------------
(* NCWindow                                                                *)

NeedsRedraw(win) == win.need \/ \E i \in DOMAIN win.widgets : win.widgets[i].need

\* A status bar asks to be redrawn each time.
RedrawnBar(win) == [win EXCEPT !.need = TRUE, !.again = FALSE]

\* redraw, a virtual function of the window.
RedrawnWindow(win) ==
  IF win.widgets = <<>> THEN RedrawnBar(win)
  ELSE [win EXCEPT !.need = FALSE, !.again = FALSE,
                   !.widgets = [i \in DOMAIN @ |-> Redrawn(@[i])]]

\* Fault: the old widget keeps the focus.
FocusedToo(win, i) == [win EXCEPT !.widgets[i].focus = TRUE]

\* setFocus of widget i: the window takes it from every other first.
Focused(win, i) ==
  [win EXCEPT !.widgets = [j \in DOMAIN @ |-> [@[j] EXCEPT !.focus = (j = i)]]]

\* The widget a key goes to: the first that has the focus, 0 if none has.
HasFocus(win)    == { i \in DOMAIN win.widgets : win.widgets[i].focus }
KeyWidget(win)   == IF HasFocus(win) = {} THEN 0
                    ELSE CHOOSE i \in HasFocus(win) : \A j \in HasFocus(win) : i <= j

-------------------------------------------------------------------------------
(* What a callback may do.  s is the state of the application in the       *)
(* middle of the key event, id the window the callback is bound to.        *)

addWindow(s, win) == [s EXCEPT !.windows = Append(@, win)]

\* The window is erased where the search finds it; only one has this id.
At(ws, id)      == CHOOSE k \in DOMAIN ws : ws[k].id = id
Without(ws, id) == RemoveAt(ws, At(ws, id))

\* Faults: the new top is not redrawn; closing the last window goes on.
removeWithoutRedraw(s, id) ==
  IF id \notin Ids(s.windows) THEN s
  ELSE [windows |-> Without(s.windows, id), kept |-> s.kept,
        terminated |-> (Without(s.windows, id) = <<>>), drawn |-> {}]
removeAndGoOn(s, id) ==
  IF id \notin Ids(s.windows) THEN s
  ELSE [s EXCEPT !.windows = Without(@, id), !.drawn = {}]

\* erase, m_terminated, setNeedRedraw of the new top, and clear the screen;
\* nothing at all when the window is not there.
removeWindow(s, id) ==
  IF id \notin Ids(s.windows) THEN s
  ELSE LET rest == Without(s.windows, id) IN
       [windows    |-> IF rest = <<>> THEN rest
                       ELSE [rest EXCEPT ![Len(rest)].need = TRUE],
        terminated |-> (rest = <<>>),
        drawn      |-> {},
        kept       |-> { s.windows[At(s.windows, id)] }]

terminate(s) == [s EXCEPT !.terminated = TRUE]

\* addWindow of a window that was closed: nobody asks for its redraw.
Again(s) == { addWindow(s, [win EXCEPT !.again = TRUE])
                : win \in { w \in s.kept : w.id \notin Ids(s.windows) } }

\* A new window, or the one that was closed last.
Open(s) ==
  IF Len(s.windows) >= MaxWindows THEN {s}
  ELSE { addWindow(s, Window(id, l)) : id \in WindowId \ Ids(s.windows), l \in Layouts }
       \cup Again(s)

Refocus(s, id) ==
  UNION { { [s EXCEPT !.windows[k] = Focused(@, i)] : i \in DOMAIN s.windows[k].widgets }
            : k \in { j \in DOMAIN s.windows : s.windows[j].id = id } }

Callback(name, s, id) ==
  CASE name = "nothing"   -> {s}
    [] name = "open"      -> Open(s)
    [] name = "close"     -> { removeWindow(s, id) }
    [] name = "closeAny"  -> { removeWindow(s, other) : other \in WindowId }
    [] name = "focus"     -> Refocus(s, id)
    [] name = "terminate" -> { terminate(s) }
    \* close the window the callback belongs to, and leave
    [] name = "leave"     -> { terminate(removeWindow(s, id)) }
    \* replace a window by another
    [] name = "replace"   -> Open(removeWindow(s, id))

-------------------------------------------------------------------------------
(* NCApplication::exec                                                     *)

\* The caller adds its first windows ...
Prepare ==
  /\ pc = "main"
  /\ Len(windows) < MaxWindows
  /\ \E id \in WindowId \ Ids(windows), l \in Layouts :
        windows' = Append(windows, Window(id, l))
  /\ UNCHANGED <<terminated, drawn, kept, pc>>

\* Fault: exec leaves the first drawing to the loop.
FirstPassClears ==
  /\ pc = "main"
  /\ windows # <<>>
  /\ pc' = "select"
  /\ UNCHANGED <<windows, drawn, terminated, kept>>

\* ... and enters exec, which clears the screen and draws every window once.
FirstPass ==
  /\ pc = "main"
  /\ windows # <<>>
  /\ windows' = [i \in DOMAIN windows |-> RedrawnWindow(windows[i])]
  /\ drawn' = Ids(windows)
  /\ pc' = "select"
  /\ UNCHANGED <<terminated, kept>>

\* while (!m_terminated)
Leave ==
  /\ pc = "select"
  /\ terminated
  /\ pc' = "done"
  /\ UNCHANGED <<windows, terminated, drawn, kept>>

\* select() reports a key: the top window gives it to its focused widget,
\* and the callback runs before keyEvent returns.
KeyEvent(key) == LET i == KeyWidget(Top) IN
  /\ pc = "select"
  /\ ~terminated
  /\ windows # <<>>
  /\ pc' = "redraw"
  /\ \/ /\ i = 0
        /\ UNCHANGED <<windows, terminated, drawn, kept>>
     \/ /\ i # 0
        /\ \E r \in WidgetKey(Top.widgets[i], key) :
             LET s == [windows    |-> [windows EXCEPT ![Len(windows)].widgets[i] = r.widget],
                       terminated |-> terminated,
                       drawn      |-> drawn,
                       kept       |-> kept]
             IN  \E t \in Callback(r.callback, s, Top.id) :
                   /\ windows' = t.windows
                   /\ terminated' = t.terminated
                   /\ drawn' = t.drawn
                   /\ kept' = t.kept

\* select() returns without a key: its timeout of a second, or a signal.
Timeout ==
  /\ pc = "select"
  /\ ~terminated
  /\ pc' = "redraw"
  /\ UNCHANGED <<windows, terminated, drawn, kept>>

Redraw ==
  /\ pc = "redraw"
  /\ windows' = [i \in DOMAIN windows |->
                   IF NeedsRedraw(windows[i]) THEN RedrawnWindow(windows[i])
                                              ELSE windows[i]]
  /\ drawn' = drawn \cup { windows[i].id : i \in { j \in DOMAIN windows :
                                                    NeedsRedraw(windows[j]) } }
  /\ pc' = "select"
  /\ UNCHANGED <<terminated, kept>>

Next == \/ Prepare \/ FirstPass \/ Leave \/ Timeout \/ Redraw
        \/ \E key \in Keys : KeyEvent(key)

Spec     == Init /\ [][Next]_vars
\* The loop runs on: select() waits a second at most.
FairSpec == Spec /\ WF_vars(Leave \/ Timeout \/ Redraw)

-------------------------------------------------------------------------------
Windows == [id : WindowId, need : BOOLEAN, again : BOOLEAN, widgets : Seq(Widgets)]

TypeOK ==
  /\ windows \in Seq(Windows) /\ kept \subseteq Windows
  /\ terminated \in BOOLEAN
  /\ drawn \subseteq WindowId
  /\ pc \in {"main", "select", "redraw", "done"}

AllForms == UNION { { win.widgets[i] : i \in { j \in DOMAIN win.widgets :
                                                win.widgets[j].kind = "form" } }
                    : win \in { windows[k] : k \in DOMAIN windows } }

(* Two pieces of state that never meet in the code tell the same story:    *)
(* m_focusedItem of a form and the current field the form library keeps    *)
(* (ncform.cpp:251-276).  On a field they agree; on a button the library   *)
(* stands at its first field, having gone once around.                     *)
FormInSync == \A w \in AllForms :
  /\ w.item < NFields + Len(Buttons)
  /\ w.cur = IF w.item < NFields THEN w.item ELSE 0

(* A button can only be reached over validated fields: when its callback   *)
(* runs, nothing the user typed into the form is invalid, and the way back *)
(* up to the fields is open.                                               *)
ButtonsOnlyWhenValid == \A w \in AllForms : w.item >= NFields => w.bad = {}

(* No key reaches a form before its first redraw has run initialize():     *)
(* form_driver would get a null form, and the checkbox branch would index  *)
(* an empty m_ncFields (ncform.cpp:332).                                   *)
KeysNeedInitialize ==
  pc = "select" => \A w \in AllForms : w.ready

(* exec never looks for the top of an empty stack (ncapplication.cpp:111), *)
(* and it never waits in front of a window that is not on the screen: what *)
(* removeWindow cleared has been drawn again.  The one exception is a      *)
(* window that was closed and added again: addWindow (54) asks for no      *)
(* redraw, and lines 116-120 draw it only when something else does.        *)
TopIsOnScreen ==
  pc = "select" /\ ~terminated =>
    windows # <<>> /\ (Top.id \in drawn \/ Top.again)

(* In every open window with widgets exactly one has the focus, so that    *)
(* keys have one receiver, through every setFocus a callback calls while   *)
(* the key event it runs in is still on its way (ncwidget.cpp:46,          *)
(* ncwindow.cpp:36).                                                       *)
OneFocus == \A k \in DOMAIN windows :
  windows[k].widgets # <<>> =>
    \E i \in DOMAIN windows[k].widgets : HasFocus(windows[k]) = {i}

(* Closing the last window ends the application, whatever else the         *)
(* callback that closed it has done.                                       *)
LastWindowEndsExec == windows = <<>> /\ pc # "main" ~> pc = "done"
===============================================================================
