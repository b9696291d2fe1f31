------------------------------- MODULE NCWidgets -------------------------------
(***************************************************************************)
(* The two widgets of bf/ncurses as functions of their state: what a key   *)
(* does to a menu (ncmenu.cpp) and to a form (ncform.cpp), and which       *)
(* callback it runs.  Positions count from 0, as in the code.              *)
(*                                                                         *)
(* The form library is external: it keeps a current field of its own,      *)
(* moves it around the fields in a circle, and refuses to leave a field    *)
(* the user has typed something invalid into.                              *)
(*                                                                         *)
(* Definitions marked "Fault" are the definition after them with a bug, to *)
(* see that the properties notice; no specification uses them.             *)
(***************************************************************************)
EXTENDS Naturals, Sequences

CONSTANTS Orientation, \* "vertical" or "horizontal", of the menus
          MenuItems,   \* the callback of each item of a menu
          FieldType,   \* "input" or "checkbox", of each field of a form
          Buttons      \* the callback of each button of a form

\* What the callback of an item or a button does, as NCApplication has it.
Callbacks == {"nothing", "open", "close", "closeAny", "focus",
              "terminate", "leave", "replace"}

\* What the callers in the repository respect: Enter indexes both vectors
\* without a test (ncmenu.cpp:154, ncform.cpp:301).
ASSUME ItemAssumption ==
  /\ Orientation \in {"vertical", "horizontal"}
  /\ MenuItems \in Seq(Callbacks) /\ MenuItems # <<>>
  /\ Buttons \in Seq(Callbacks) /\ Buttons # <<>>
  /\ FieldType \in Seq({"input", "checkbox"}) /\ FieldType # <<>>

Keys == {"up", "down", "left", "right", "enter", "backspace", "char"}

NFields == Len(FieldType)

Menu == [kind |-> "menu", focus |-> FALSE, need |-> TRUE, item |-> 0,
         ready |-> TRUE, cur |-> 0, bad |-> {}, on |-> {}]

\* A form as constructed; initialize() runs at its first redraw.
\*   item  m_focusedItem: a field, or NFields plus the number of a button
\*   ready m_ncFields is filled and the form posted
\*   cur   the current field of the form library
\*   bad   the fields whose text the user has made invalid
\*   on    the checkboxes whose value is set
Form == [Menu EXCEPT !.kind = "form", !.ready = FALSE]

Widgets == [kind : {"menu", "form"}, focus : BOOLEAN, need : BOOLEAN,
            item : Nat, ready : BOOLEAN, cur : Nat,
            bad : SUBSET (0 .. NFields - 1), on : SUBSET (0 .. NFields - 1)]

\* initialize(): m_ncFields is filled, the form made and posted.
Initialized(w) == [w EXCEPT !.ready = TRUE]

\* redraw(): a form that has no fields yet initializes first.
Redrawn(w) == [Initialized(w) EXCEPT !.need = FALSE]

Least(a, b) == IF a <= b THEN a ELSE b

\* The outcome of a key: the widget after it, and the callback it runs.
Quiet(w)     == [widget |-> w, callback |-> "nothing"]
Touched(w)   == Quiet([w EXCEPT !.need = TRUE])
Running(w, c) == [widget |-> w, callback |-> c]

-------------------------------------------------------------------------------
(* NCMenu::keyEvent                                                        *)

BackKey    == IF Orientation = "vertical" THEN "up" ELSE "left"
ForwardKey == IF Orientation = "vertical" THEN "down" ELSE "right"

MenuKey(w, key) ==
  CASE key = BackKey /\ w.item > 0 ->
         Touched([w EXCEPT !.item = @ - 1])
    [] key = ForwardKey /\ w.item < Len(MenuItems) - 1 ->
         Touched([w EXCEPT !.item = @ + 1])
    [] key = "enter" -> Running(w, MenuItems[w.item + 1])
    [] OTHER -> Quiet(w)

-------------------------------------------------------------------------------
(* NCForm::keyEvent                                                        *)

\* Fault: the library lets go of any field.
CanAlwaysLeave(w) == w.ready

\* form_driver(REQ_PREV_FIELD / REQ_NEXT_FIELD) returns E_OK: the form is
\* posted and the field it leaves validates.
CanLeave(w) == w.ready /\ w.cur \notin w.bad

\* A form_driver call that edits the current field; the text it leaves in an
\* input is valid or not (initialize gives checkboxes no validation).
Edits(w) ==
  { [w EXCEPT !.bad = @ \ {w.cur}] }
  \cup { [w EXCEPT !.bad = @ \cup {i}] : i \in { j \in {w.cur} : FieldType[j + 1] = "input" } }

\* Fault: up from a button goes to the one before it.
FormUpByOne(w) ==
  IF w.item > 0 /\ CanLeave(w)
  THEN Touched([w EXCEPT !.cur  = IF @ = 0 THEN NFields - 1 ELSE @ - 1,
                         !.item = @ - 1])
  ELSE Quiet(w)

FormUp(w) ==
  IF w.item > 0 /\ CanLeave(w)
  THEN Touched([w EXCEPT !.cur  = IF @ = 0 THEN NFields - 1 ELSE @ - 1,
                         !.item = Least(@ - 1, NFields - 1)])
  ELSE Quiet(w)

FormDown(w) ==
  IF w.item < NFields /\ CanLeave(w)
  THEN Touched([w EXCEPT !.cur  = IF @ = NFields - 1 THEN 0 ELSE @ + 1,
                         !.item = @ + 1])
  ELSE Quiet(w)

FormRight(w) ==
  IF w.item >= NFields /\ w.item < NFields + Len(Buttons) - 1
  THEN Touched([w EXCEPT !.item = @ + 1])
  ELSE Quiet(w)

\* Fault: left does not ask whether it is on a button.
FormLeftAnywhere(w) == Touched([w EXCEPT !.item = @ - 1])

FormLeft(w) == IF w.item > NFields THEN Touched([w EXCEPT !.item = @ - 1]) ELSE Quiet(w)

FormEnter(w) ==
  IF w.item >= NFields THEN Running(w, Buttons[w.item - NFields + 1]) ELSE Quiet(w)

\* REQ_PREV_CHAR fails at the start of the field.
FormBackspace(w) ==
  IF w.item < NFields /\ w.ready
  THEN { Touched(v) : v \in Edits(w) } \cup { Quiet(w) }
  ELSE { Quiet(w) }

\* A checkbox is toggled by any other key; an input passes it to the library,
\* which may refuse the character.
FormChar(w) ==
  CASE w.item >= NFields -> { Quiet(w) }
    [] w.item < NFields /\ FieldType[w.item + 1] = "checkbox" ->
         { Touched([w EXCEPT !.on = IF w.item \in @ THEN @ \ {w.item}
                                                    ELSE @ \cup {w.item}]) }
    [] OTHER -> { Touched(v) : v \in {w} \cup (IF w.ready THEN Edits(w) ELSE {}) }

FormKey(w, key) ==
  CASE key = "up"        -> { FormUp(w) }
    [] key = "down"      -> { FormDown(w) }
    [] key = "right"     -> { FormRight(w) }
    [] key = "left"      -> { FormLeft(w) }
    [] key = "enter"     -> { FormEnter(w) }
    [] key = "backspace" -> FormBackspace(w)
    [] OTHER             -> FormChar(w)

\* The possible outcomes of keyEvent, a virtual function of the widget.
WidgetKey(w, key) == IF w.kind = "menu" THEN { MenuKey(w, key) } ELSE FormKey(w, key)
===============================================================================
