-------------------------- MODULE NCApplicationProofs --------------------------
(***************************************************************************)
(* Proofs about NCWidgets and NCApplication for every menu, every form,    *)
(* every set of windows and of layouts, and every bound on the windows     *)
(* open at once.                                                           *)
(***************************************************************************)
EXTENDS NCApplication, SequenceTheorems, TLAPS

App == [windows : Seq(Windows), terminated : BOOLEAN, drawn : SUBSET WindowId,
        kept : SUBSET Windows]

\* What every key keeps true of a widget.  Only the field the form stands on
\* can be invalid: the library let go of every other one.
MenuOK(w) == w.item < Len(MenuItems)
FormOK(w) ==
  /\ w.item < NFields + Len(Buttons)
  /\ w.cur = IF w.item < NFields THEN w.item ELSE 0
  /\ w.bad \subseteq (IF w.item < NFields THEN {w.cur} ELSE {})
WidgetOK(w) ==
  /\ w \in Widgets
  /\ w.kind = "menu" => MenuOK(w)
  /\ w.kind = "form" => FormOK(w)

\* ... and of a window: a widget that has not been initialized yet is in a
\* window that has not been drawn yet.
Ready(win)    == \A i \in DOMAIN win.widgets : win.widgets[i].ready
FocusOK(win)  == win.widgets # <<>> => \E i \in DOMAIN win.widgets : HasFocus(win) = {i}
WindowOK(win) ==
  /\ win \in Windows
  /\ \A i \in DOMAIN win.widgets : WidgetOK(win.widgets[i])
  /\ FocusOK(win)
  /\ Ready(win) \/ win.need

\* ... and of the application in the middle of a pass of the loop: the top
\* window is on the screen, asks to be drawn, or was closed and added again.
WindowsOK(s) == /\ s \in App /\ \A k \in DOMAIN s.windows : WindowOK(s.windows[k])
                /\ \A win \in s.kept : WindowOK(win)
TopOf(s)     == s.windows[Len(s.windows)]
Shown(s)     == s.terminated \/ ( /\ s.windows # <<>>
                                  /\ \/ TopOf(s).id \in s.drawn
                                     \/ TopOf(s).need \/ TopOf(s).again )
AppOK(s)     == WindowsOK(s) /\ Shown(s)

State == [windows |-> windows, terminated |-> terminated, drawn |-> drawn,
          kept |-> kept]

\* The inductive invariant.
IInv ==
  /\ pc \in {"main", "select", "redraw", "done"}
  /\ WindowsOK(State)
  /\ pc = "select" => KeysNeedInitialize /\ TopIsOnScreen /\ \A k \in DOMAIN windows : Ready(windows[k])
  /\ pc = "redraw" => Shown(State)

-------------------------------------------------------------------------------
(* Sequences, and the constants                                            *)

LEMMA FunctionIsSeq ==
  ASSUME NEW S, NEW n \in Nat, NEW f \in [1 .. n -> S]
  PROVE  f \in Seq(S) /\ Len(f) = n /\ DOMAIN f = 1 .. n
<1>1. f \in Seq(S)
  BY SeqDef, SMT
<1> QED BY <1>1, LenProperties, SMT

LEMMA NonEmpty ==
  ASSUME NEW S, NEW s \in Seq(S), s # <<>>
  PROVE  /\ Len(s) \in Nat \ {0} /\ DOMAIN s = 1 .. Len(s)
         /\ \A i \in 1 .. Len(s) : s[i] \in S
BY EmptySeq, LenProperties, ElementOfSeq

LEMMA ConstantsOK ==
  /\ NFields \in Nat \ {0} /\ Len(Buttons) \in Nat \ {0} /\ Len(MenuItems) \in Nat \ {0}
  /\ \A i \in 1 .. Len(Buttons) : Buttons[i] \in Callbacks
  /\ \A i \in 1 .. Len(MenuItems) : MenuItems[i] \in Callbacks
BY ItemAssumption, NonEmpty DEF NFields

-------------------------------------------------------------------------------
(* Widgets                                                                 *)

\* What a key leaves alone.
Kept(v, w) == v.kind = w.kind /\ v.focus = w.focus /\ v.ready = w.ready

\* An outcome of a key: a widget as good as the one before it.
Outcome(r, w) == WidgetOK(r.widget) /\ Kept(r.widget, w) /\ r.callback \in Callbacks

LEMMA TouchedOK ==
  ASSUME NEW w, NEW v, WidgetOK(v), Kept(v, w)
  PROVE  Outcome(Touched(v), w) /\ Outcome(Quiet(v), w)
BY DEF WidgetOK, MenuOK, FormOK, Kept, Outcome, Touched, Quiet, Callbacks, Widgets

LEMMA MenuKeyOK ==
  ASSUME NEW w, WidgetOK(w), w.kind = "menu", NEW key \in Keys
  PROVE  Outcome(MenuKey(w, key), w)
<1>1. w \in Widgets /\ w.item \in Nat /\ w.item < Len(MenuItems)
  BY DEF WidgetOK, MenuOK, Widgets
<1>2. Kept(w, w)
  BY DEF Kept
<1>3. CASE key = BackKey /\ w.item > 0
  <2> DEFINE v == [w EXCEPT !.item = @ - 1]
  <2>1. v \in Widgets /\ v.kind = "menu" /\ v.item = w.item - 1 /\ Kept(v, w)
    BY <1>1, <1>3 DEF Widgets, Kept
  <2>2. WidgetOK(v)
    BY <2>1, <1>1, <1>3, ConstantsOK DEF WidgetOK, MenuOK
  <2>3. MenuKey(w, key) = Touched(v)
    BY <1>3, ItemAssumption DEF MenuKey, BackKey, ForwardKey
  <2> QED BY <2>1, <2>2, <2>3, TouchedOK
<1>4. CASE ~(key = BackKey /\ w.item > 0) /\ key = ForwardKey /\ w.item < Len(MenuItems) - 1
  <2> DEFINE v == [w EXCEPT !.item = @ + 1]
  <2>1. v \in Widgets /\ v.kind = "menu" /\ v.item = w.item + 1 /\ Kept(v, w)
    BY <1>1, <1>4 DEF Widgets, Kept
  <2>2. WidgetOK(v)
    BY <2>1, <1>1, <1>4, ConstantsOK DEF WidgetOK, MenuOK
  <2>3. MenuKey(w, key) = Touched(v)
    BY <1>4, ItemAssumption DEF MenuKey, BackKey, ForwardKey
  <2> QED BY <2>1, <2>2, <2>3, TouchedOK
<1>5. CASE /\ ~(key = BackKey /\ w.item > 0)
           /\ ~(key = ForwardKey /\ w.item < Len(MenuItems) - 1)
           /\ key = "enter"
  <2>1. MenuKey(w, key) = Running(w, MenuItems[w.item + 1])
    BY <1>5, ItemAssumption DEF MenuKey, BackKey, ForwardKey
  <2> QED BY <2>1, <1>1, <1>2, ConstantsOK DEF Running, Outcome
<1>6. CASE /\ ~(key = BackKey /\ w.item > 0)
           /\ ~(key = ForwardKey /\ w.item < Len(MenuItems) - 1)
           /\ key # "enter"
  BY <1>6, <1>2, TouchedOK DEF MenuKey
<1> QED BY <1>3, <1>4, <1>5, <1>6

\* The current field of a good form is one of its fields.
LEMMA FormFacts ==
  ASSUME NEW w, WidgetOK(w), w.kind = "form"
  PROVE  /\ w \in Widgets /\ FormOK(w) /\ Kept(w, w)
         /\ w.item \in Nat /\ w.cur \in 0 .. NFields - 1
         /\ w.bad \subseteq 0 .. NFields - 1
BY ConstantsOK DEF WidgetOK, FormOK, Widgets, Kept

LEMMA EditsOK ==
  ASSUME NEW w, WidgetOK(w), w.kind = "form", w.item < NFields, NEW v \in Edits(w)
  PROVE  WidgetOK(v) /\ Kept(v, w)
<1>1. PICK b \in SUBSET {w.cur} : v = [w EXCEPT !.bad = b]
  <2>1. w.bad \subseteq {w.cur}
    BY FormFacts DEF FormOK
  <2> QED BY <2>1 DEF Edits
<1>2. v \in Widgets /\ Kept(v, w) /\ v.item = w.item /\ v.cur = w.cur /\ v.bad = b
  BY <1>1, FormFacts DEF Widgets, Kept
<1> QED BY <1>2, FormFacts DEF WidgetOK, FormOK, Kept

\* Going to another item of the form, when the library let go of the field
\* or the form stands on a button: nothing is invalid.
LEMMA MovedOK ==
  ASSUME NEW w, WidgetOK(w), w.kind = "form", w.bad = {},
         NEW v \in Widgets, Kept(v, w), v.bad = {},
         v.item < NFields + Len(Buttons),
         v.cur = IF v.item < NFields THEN v.item ELSE 0
  PROVE  WidgetOK(v)
BY DEF WidgetOK, FormOK, Kept

LEMMA LeavesClean ==
  ASSUME NEW w, WidgetOK(w), w.kind = "form", CanLeave(w) \/ w.item >= NFields
  PROVE  w.bad = {}
BY FormFacts, ConstantsOK DEF FormOK, CanLeave

LEMMA FormUpOK ==
  ASSUME NEW w, WidgetOK(w), w.kind = "form"
  PROVE  Outcome(FormUp(w), w)
<1>1. CASE ~(w.item > 0 /\ CanLeave(w))
  BY <1>1, FormFacts, TouchedOK DEF FormUp
<1>2. CASE w.item > 0 /\ CanLeave(w)
  <2> DEFINE v == [w EXCEPT !.cur  = IF @ = 0 THEN NFields - 1 ELSE @ - 1,
                            !.item = Least(@ - 1, NFields - 1)]
  <2>1. w.bad = {}
    BY <1>2, LeavesClean
  <2>2. Least(w.item - 1, NFields - 1) \in 0 .. NFields - 1
    BY <1>2, FormFacts, ConstantsOK DEF Least
  <2>3. (IF w.cur = 0 THEN NFields - 1 ELSE w.cur - 1) = Least(w.item - 1, NFields - 1)
    BY <1>2, FormFacts, ConstantsOK DEF Least, FormOK
  <2>4. v \in Widgets /\ Kept(v, w) /\ v.bad = {}
        /\ v.item = Least(w.item - 1, NFields - 1) /\ v.cur = Least(w.item - 1, NFields - 1)
    <3>1. v = [w EXCEPT !.cur = Least(w.item - 1, NFields - 1),
                        !.item = Least(w.item - 1, NFields - 1)]
      BY <2>3
    <3>2. Least(w.item - 1, NFields - 1) \in Nat
      BY <2>2, ConstantsOK
    <3> HIDE DEF v
    <3>3. w \in Widgets
      BY FormFacts
    <3> QED BY <2>1, <3>1, <3>2, <3>3 DEF Widgets, Kept
  <2>5. WidgetOK(v)
    <3> HIDE DEF v
    <3> QED BY <2>1, <2>2, <2>4, MovedOK, ConstantsOK
  <2> QED BY <1>2, <2>4, <2>5, TouchedOK DEF FormUp
<1> QED BY <1>1, <1>2

LEMMA FormDownOK ==
  ASSUME NEW w, WidgetOK(w), w.kind = "form"
  PROVE  Outcome(FormDown(w), w)
<1>1. CASE ~(w.item < NFields /\ CanLeave(w))
  BY <1>1, FormFacts, TouchedOK DEF FormDown
<1>2. CASE w.item < NFields /\ CanLeave(w)
  <2> DEFINE v == [w EXCEPT !.cur  = IF @ = NFields - 1 THEN 0 ELSE @ + 1,
                            !.item = @ + 1]
  <2>1. w.bad = {} /\ w.cur = w.item
    BY <1>2, LeavesClean, FormFacts DEF FormOK
  <2>2. v \in Widgets /\ Kept(v, w) /\ v.bad = {} /\ v.item = w.item + 1
        /\ v.cur = IF w.item = NFields - 1 THEN 0 ELSE w.item + 1
    <3>1. (IF w.cur = NFields - 1 THEN 0 ELSE w.cur + 1) \in Nat /\ w.item + 1 \in Nat
      BY FormFacts, ConstantsOK
    <3> DEFINE c == IF w.cur = NFields - 1 THEN 0 ELSE w.cur + 1
    <3>2. v = [w EXCEPT !.cur = c, !.item = w.item + 1] /\ c = IF w.item = NFields - 1 THEN 0 ELSE w.item + 1
      BY <2>1
    <3>3. w \in Widgets
      BY FormFacts
    <3> HIDE DEF v, c
    <3> QED BY <2>1, <3>1, <3>2, <3>3 DEF Widgets, Kept, c
  <2>3. WidgetOK(v)
    <3>1. v.item < NFields + Len(Buttons) /\ v.cur = IF v.item < NFields THEN v.item ELSE 0
      <4> HIDE DEF v
      <4> QED BY <1>2, <2>2, FormFacts, ConstantsOK
    <3> HIDE DEF v
    <3> QED BY <2>1, <2>2, <3>1, MovedOK
  <2> QED BY <1>2, <2>2, <2>3, TouchedOK DEF FormDown
<1> QED BY <1>1, <1>2

LEMMA FormSidewaysOK ==
  ASSUME NEW w, WidgetOK(w), w.kind = "form"
  PROVE  Outcome(FormRight(w), w) /\ Outcome(FormLeft(w), w)
<1>1. ASSUME NEW i \in Nat, i >= NFields, i < NFields + Len(Buttons), w.item >= NFields
      PROVE  WidgetOK([w EXCEPT !.item = i]) /\ Kept([w EXCEPT !.item = i], w)
  <2> DEFINE v == [w EXCEPT !.item = i]
  <2>1. w.bad = {} /\ w.cur = 0
    BY <1>1, LeavesClean, FormFacts, ConstantsOK DEF FormOK
  <2>2. v \in Widgets /\ Kept(v, w) /\ v.bad = {} /\ v.item = i /\ v.cur = 0
    BY <2>1, FormFacts DEF Widgets, Kept
  <2>3. WidgetOK(v)
    <3> HIDE DEF v
    <3> QED BY <1>1, <2>1, <2>2, MovedOK, ConstantsOK
  <2> QED BY <2>2, <2>3
<1>2. Outcome(FormRight(w), w)
  <2>1. CASE ~(w.item >= NFields /\ w.item < NFields + Len(Buttons) - 1)
    BY <2>1, FormFacts, TouchedOK DEF FormRight
  <2>2. CASE w.item >= NFields /\ w.item < NFields + Len(Buttons) - 1
    <3>1. w.item + 1 \in Nat /\ w.item + 1 >= NFields /\ w.item + 1 < NFields + Len(Buttons)
      BY <2>2, FormFacts, ConstantsOK
    <3> QED BY <2>2, <3>1, <1>1, TouchedOK DEF FormRight
  <2> QED BY <2>1, <2>2
<1>3. Outcome(FormLeft(w), w)
  <2>1. CASE ~(w.item > NFields)
    BY <2>1, FormFacts, TouchedOK DEF FormLeft
  <2>2. CASE w.item > NFields
    <3>1. w.item - 1 \in Nat /\ w.item - 1 >= NFields /\ w.item - 1 < NFields + Len(Buttons)
          /\ w.item >= NFields
      BY <2>2, FormFacts, ConstantsOK DEF FormOK
    <3> QED BY <2>2, <3>1, <1>1, TouchedOK DEF FormLeft
  <2> QED BY <2>1, <2>2
<1> QED BY <1>2, <1>3

LEMMA FormEnterOK ==
  ASSUME NEW w, WidgetOK(w), w.kind = "form"
  PROVE  Outcome(FormEnter(w), w)
<1>1. w.item >= NFields => w.item - NFields + 1 \in 1 .. Len(Buttons)
  BY FormFacts, ConstantsOK DEF FormOK
<1> QED BY <1>1, FormFacts, ConstantsOK, TouchedOK DEF FormEnter, Running, Outcome

LEMMA FormBackspaceOK ==
  ASSUME NEW w, WidgetOK(w), w.kind = "form", NEW r \in FormBackspace(w)
  PROVE  Outcome(r, w)
BY FormFacts, EditsOK, TouchedOK DEF FormBackspace

LEMMA FormCharOK ==
  ASSUME NEW w, WidgetOK(w), w.kind = "form", NEW r \in FormChar(w)
  PROVE  Outcome(r, w)
<1>1. CASE w.item >= NFields
  <2>1. r = Quiet(w)
    BY <1>1, FormFacts, ConstantsOK DEF FormChar
  <2> QED BY <2>1, FormFacts, TouchedOK
<1>2. CASE w.item < NFields /\ FieldType[w.item + 1] = "checkbox"
  <2>1. PICK o \in SUBSET (0 .. NFields - 1) : r = Touched([w EXCEPT !.on = o])
    <3>1. w.on \subseteq 0 .. NFields - 1 /\ w.item \in 0 .. NFields - 1
      BY <1>2, FormFacts, ConstantsOK DEF Widgets
    <3>2. ~(w.item >= NFields)
      BY <1>2, FormFacts, ConstantsOK
    <3> QED BY <1>2, <3>1, <3>2 DEF FormChar
  <2> DEFINE v == [w EXCEPT !.on = o]
  <2>2. v \in Widgets /\ Kept(v, w) /\ v.item = w.item /\ v.cur = w.cur /\ v.bad = w.bad
    BY FormFacts DEF Widgets, Kept
  <2>3. WidgetOK(v)
    BY <2>2, FormFacts DEF WidgetOK, FormOK, Kept
  <2> QED BY <2>1, <2>2, <2>3, TouchedOK
<1>3. CASE w.item < NFields /\ FieldType[w.item + 1] # "checkbox"
  <2>1. PICK v \in {w} \cup Edits(w) : r = Touched(v)
    <3>1. ~(w.item >= NFields)
      BY <1>3, FormFacts, ConstantsOK
    <3> QED BY <1>3, <3>1 DEF FormChar
  <2> QED BY <1>3, <2>1, FormFacts, EditsOK, TouchedOK
<1> QED BY <1>1, <1>2, <1>3, FormFacts, ConstantsOK

\* Whatever the key, the widget comes out of it as good as it went in.
LEMMA WidgetKeyOK ==
  ASSUME NEW w, WidgetOK(w), NEW key \in Keys, NEW r \in WidgetKey(w, key)
  PROVE  Outcome(r, w)
<1>1. CASE w.kind = "menu"
  BY <1>1, MenuKeyOK DEF WidgetKey
<1>2. CASE w.kind = "form"
  <2>1. r \in FormKey(w, key)
    BY <1>2 DEF WidgetKey
  <2>2. \/ r = FormUp(w) \/ r = FormDown(w) \/ r = FormRight(w) \/ r = FormLeft(w)
        \/ r = FormEnter(w) \/ r \in FormBackspace(w) \/ r \in FormChar(w)
    BY <2>1 DEF FormKey, Keys
  <2> QED BY <1>2, <2>2, FormUpOK, FormDownOK, FormSidewaysOK, FormEnterOK,
             FormBackspaceOK, FormCharOK
<1> QED BY <1>1, <1>2 DEF WidgetOK, Widgets

-------------------------------------------------------------------------------
(* Windows                                                                 *)

LEMMA WindowFacts ==
  ASSUME NEW win, WindowOK(win)
  PROVE  /\ win.id \in WindowId /\ win.need \in BOOLEAN /\ win.widgets \in Seq(Widgets)
         /\ win = [id |-> win.id, need |-> win.need, again |-> win.again,
                   widgets |-> win.widgets]
         /\ Len(win.widgets) \in Nat /\ DOMAIN win.widgets = 1 .. Len(win.widgets)
         /\ \A i \in 1 .. Len(win.widgets) : WidgetOK(win.widgets[i])
<1>1. win.widgets \in Seq(Widgets)
  BY DEF WindowOK, Windows
<1>2. Len(win.widgets) \in Nat /\ DOMAIN win.widgets = 1 .. Len(win.widgets)
  BY <1>1, LenProperties
<1> QED BY <1>1, <1>2 DEF WindowOK, Windows

\* A window is good when its n widgets are.
LEMMA WindowFromWidgets ==
  ASSUME NEW win \in Windows,
         NEW n \in Nat, DOMAIN win.widgets = 1 .. n,
         \A i \in 1 .. n : WidgetOK(win.widgets[i]),
         n > 0 => \E i \in 1 .. n : \A j \in 1 .. n : win.widgets[j].focus <=> (j = i),
         (\A i \in 1 .. n : win.widgets[i].ready) \/ win.need
  PROVE  WindowOK(win)
<1>1. FocusOK(win)
  <2> SUFFICES ASSUME win.widgets # <<>>
               PROVE  \E i \in 1 .. n : HasFocus(win) = {i}
    BY DEF FocusOK
  <2>1. n > 0
    BY NonEmpty
  <2>2. PICK i \in 1 .. n : \A j \in 1 .. n : win.widgets[j].focus <=> (j = i)
    BY <2>1
  <2>3. HasFocus(win) = {i}
    BY <2>2 DEF HasFocus
  <2> QED BY <2>3
<1>2. Ready(win) \/ win.need
  BY DEF Ready
<1> QED BY <1>1, <1>2 DEF WindowOK

\* The one widget of a window that has the focus.
LEMMA OneHasFocus ==
  ASSUME NEW win, WindowOK(win), Len(win.widgets) > 0
  PROVE  \E i \in 1 .. Len(win.widgets) :
            \A j \in 1 .. Len(win.widgets) : win.widgets[j].focus <=> (j = i)
<1>1. win.widgets # <<>>
  BY EmptySeq, WindowFacts
<1>2. PICK i \in 1 .. Len(win.widgets) : HasFocus(win) = {i}
  BY <1>1, WindowFacts DEF WindowOK, FocusOK
<1>3. ASSUME NEW j \in 1 .. Len(win.widgets)
      PROVE  win.widgets[j].focus <=> (j = i)
  <2>1. win.widgets[j].focus <=> j \in HasFocus(win)
    BY WindowFacts DEF HasFocus
  <2> QED BY <2>1, <1>2
<1> QED BY <1>3

LEMMA RedrawnWidgetOK ==
  ASSUME NEW w, WidgetOK(w)
  PROVE  WidgetOK(Redrawn(w)) /\ Redrawn(w) \in Widgets
         /\ (Redrawn(w).focus <=> w.focus) /\ Redrawn(w).ready
<1>1. w \in Widgets
  BY DEF WidgetOK
<1> DEFINE v == Redrawn(w)
<1>2. /\ v \in Widgets /\ v.kind = w.kind /\ v.item = w.item /\ v.cur = w.cur
      /\ v.bad = w.bad /\ v.focus = w.focus /\ v.ready
  BY <1>1 DEF Redrawn, Initialized, Widgets
<1> HIDE DEF v
<1>3. WidgetOK(v)
  BY <1>2 DEF WidgetOK, MenuOK, FormOK
<1> QED BY <1>2, <1>3 DEF v

LEMMA RedrawnOK ==
  ASSUME NEW win, WindowOK(win)
  PROVE  WindowOK(RedrawnWindow(win)) /\ Ready(RedrawnWindow(win)) /\ RedrawnWindow(win).id = win.id
<1> DEFINE n == Len(win.widgets)
           f == [i \in 1 .. n |-> Redrawn(win.widgets[i])]
           v == RedrawnWindow(win)
<1>1. CASE win.widgets = <<>>
  <2>1. /\ v \in Windows
        /\ v.id = win.id /\ v.need /\ v.widgets = <<>>
    BY <1>1, WindowFacts DEF RedrawnWindow, RedrawnBar, WindowOK, Windows
  <2>2. DOMAIN v.widgets = 1 .. 0
    BY <2>1
  <2> HIDE DEF v
  <2>3. WindowOK(v)
    BY <2>1, <2>2, WindowFromWidgets
  <2> QED BY <2>1, <2>2, <2>3 DEF Ready, v
<1>2. CASE win.widgets # <<>>
  <2>1. n \in Nat /\ f \in [1 .. n -> Widgets]
    BY WindowFacts, RedrawnWidgetOK
  <2>2. f \in Seq(Widgets) /\ DOMAIN f = 1 .. n
    BY <2>1, FunctionIsSeq
  <2>3. \A i \in 1 .. n : WidgetOK(f[i]) /\ f[i].ready /\ (f[i].focus <=> win.widgets[i].focus)
    BY WindowFacts, RedrawnWidgetOK
  <2>4. v = [win EXCEPT !.need = FALSE, !.again = FALSE, !.widgets = f]
    BY <1>2, WindowFacts DEF RedrawnWindow
  <2> HIDE DEF f, v
  <2>5. /\ v \in Windows
        /\ v.id = win.id /\ v.widgets = f
    BY <2>2, <2>4 DEF WindowOK, Windows
  <2>6. n > 0 => \E i \in 1 .. n : \A j \in 1 .. n : f[j].focus <=> (j = i)
    <3> SUFFICES ASSUME n > 0 PROVE \E i \in 1 .. n : \A j \in 1 .. n : f[j].focus <=> (j = i)
      OBVIOUS
    <3>1. PICK i \in 1 .. n : \A j \in 1 .. n : win.widgets[j].focus <=> (j = i)
      BY OneHasFocus
    <3> QED BY <2>3, <3>1
  <2>7. WindowOK(v)
    BY <2>1, <2>2, <2>3, <2>5, <2>6, WindowFromWidgets
  <2> QED BY <2>2, <2>3, <2>5, <2>7 DEF Ready, v
<1> QED BY <1>1, <1>2

LEMMA FocusedOK ==
  ASSUME NEW win, WindowOK(win), NEW i \in DOMAIN win.widgets
  PROVE  /\ WindowOK(Focused(win, i))
         /\ Focused(win, i).id = win.id /\ Focused(win, i).need = win.need
         /\ Focused(win, i).again = win.again
<1> DEFINE n == Len(win.widgets)
           f == [j \in 1 .. n |-> [win.widgets[j] EXCEPT !.focus = (j = i)]]
           u == Focused(win, i)
<1>1. ASSUME NEW j \in 1 .. n
      PROVE  WidgetOK(f[j]) /\ f[j] \in Widgets /\ f[j].ready = win.widgets[j].ready
             /\ (f[j].focus <=> (j = i))
  <2> DEFINE w == win.widgets[j]
             v == [w EXCEPT !.focus = (j = i)]
  <2>1. WidgetOK(w) /\ w \in Widgets
    BY WindowFacts DEF WidgetOK
  <2>2. /\ v \in Widgets /\ v.kind = w.kind /\ v.item = w.item /\ v.cur = w.cur
        /\ v.bad = w.bad /\ v.ready = w.ready /\ v.focus = (j = i)
    <3> HIDE DEF w
    <3> QED BY <2>1 DEF Widgets
  <2>3. f[j] = v
    OBVIOUS
  <2> HIDE DEF v, w, f
  <2>4. WidgetOK(v)
    BY <2>1, <2>2 DEF WidgetOK, MenuOK, FormOK
  <2> QED BY <2>2, <2>3, <2>4 DEF w
<1>2. n \in Nat /\ f \in [1 .. n -> Widgets] /\ i \in 1 .. n
  BY <1>1, WindowFacts
<1>3. f \in Seq(Widgets) /\ DOMAIN f = 1 .. n
  BY <1>2, FunctionIsSeq
<1>4. u = [win EXCEPT !.widgets = f]
  BY WindowFacts DEF Focused
<1> HIDE DEF f, u
<1>5. /\ u \in Windows
      /\ u.id = win.id /\ u.need = win.need /\ u.again = win.again /\ u.widgets = f
  BY <1>3, <1>4 DEF WindowOK, Windows
<1>6. (\A j \in 1 .. n : f[j].ready) \/ win.need
  BY <1>1, WindowFacts DEF WindowOK, Ready
<1>7. \E k \in 1 .. n : \A j \in 1 .. n : f[j].focus <=> (j = k)
  BY <1>1, <1>2
<1>8. WindowOK(u)
  BY <1>1, <1>2, <1>3, <1>5, <1>6, <1>7, WindowFromWidgets
<1> QED BY <1>5, <1>8 DEF u

LEMMA NewOK ==
  ASSUME NEW kind \in {"menu", "form"}, NEW b \in BOOLEAN
  PROVE  LET w == [New(kind) EXCEPT !.focus = b] IN WidgetOK(w) /\ w \in Widgets /\ w.focus = b
<1> DEFINE w == [New(kind) EXCEPT !.focus = b]
<1>1. /\ w \in Widgets /\ w.kind = kind /\ w.item = 0 /\ w.cur = 0 /\ w.bad = {} /\ w.focus = b
  BY DEF New, Form, Menu, Widgets
<1> HIDE DEF w
<1>2. WidgetOK(w)
  BY <1>1, ConstantsOK DEF WidgetOK, MenuOK, FormOK
<1> QED BY <1>1, <1>2 DEF w

LEMMA NewWindowOK ==
  ASSUME NEW id \in WindowId, NEW l \in Layouts
  PROVE  WindowOK(Window(id, l)) /\ Window(id, l).need /\ Window(id, l).id = id
<1> DEFINE n == Len(l)
           f == [i \in 1 .. n |-> [New(l[i]) EXCEPT !.focus = (i = 1)]]
<1>1. l \in Seq({"menu", "form"})
  BY LayoutAssumption
<1>2. n \in Nat /\ DOMAIN l = 1 .. n /\ \A i \in 1 .. n : l[i] \in {"menu", "form"}
  BY <1>1, LenProperties
<1>3. \A i \in 1 .. n : WidgetOK(f[i]) /\ f[i] \in Widgets /\ f[i].focus = (i = 1)
  BY <1>2, NewOK
<1>4. f \in Seq(Widgets) /\ DOMAIN f = 1 .. n
  BY <1>2, <1>3, FunctionIsSeq
<1> DEFINE win == Window(id, l)
<1>5. win = [id |-> id, need |-> TRUE, again |-> FALSE, widgets |-> f]
  BY <1>2 DEF Window
<1> HIDE DEF f, win
<1>6. n > 0 => \E i \in 1 .. n : \A j \in 1 .. n : f[j].focus <=> (j = i)
  <2>1. n > 0 => 1 \in 1 .. n
    BY <1>2
  <2> QED BY <2>1, <1>3
<1>7. /\ win \in Windows
      /\ win.id = id /\ win.need /\ win.widgets = f
  BY <1>4, <1>5 DEF Windows
<1>8. /\ n \in Nat /\ DOMAIN win.widgets = 1 .. n
      /\ \A i \in 1 .. n : WidgetOK(win.widgets[i])
      /\ n > 0 => \E i \in 1 .. n : \A j \in 1 .. n : win.widgets[j].focus <=> (j = i)
  BY <1>2, <1>3, <1>4, <1>6, <1>7
<1> HIDE DEF n
<1>9. WindowOK(win)
  BY <1>7, <1>8, WindowFromWidgets
<1> QED BY <1>7, <1>9 DEF win

-------------------------------------------------------------------------------
(* Callbacks                                                               *)

LEMMA AppFacts ==
  ASSUME NEW s, WindowsOK(s)
  PROVE  /\ s = [windows |-> s.windows, terminated |-> s.terminated, drawn |-> s.drawn,
                 kept |-> s.kept]
         /\ s.kept \in SUBSET Windows /\ \A win \in s.kept : WindowOK(win)
         /\ s.windows \in Seq(Windows) /\ s.terminated \in BOOLEAN /\ s.drawn \in SUBSET WindowId
         /\ Len(s.windows) \in Nat /\ DOMAIN s.windows = 1 .. Len(s.windows)
         /\ \A k \in 1 .. Len(s.windows) : WindowOK(s.windows[k])
<1>1. s.windows \in Seq(Windows)
  BY DEF WindowsOK, App, Windows
<1>2. Len(s.windows) \in Nat /\ DOMAIN s.windows = 1 .. Len(s.windows)
  BY <1>1, LenProperties
<1> QED BY <1>1, <1>2 DEF WindowsOK, App

LEMMA WindowInSet ==
  ASSUME NEW win, WindowOK(win)
  PROVE  win \in Windows
BY DEF WindowOK, Windows

\* An application is good when its n windows are.
LEMMA AppFromWindows ==
  ASSUME NEW ws \in Seq(Windows), \A k \in 1 .. Len(ws) : WindowOK(ws[k]),
         NEW t \in BOOLEAN, NEW d \in SUBSET WindowId,
         NEW c \in SUBSET Windows, \A win \in c : WindowOK(win)
  PROVE  WindowsOK([windows |-> ws, terminated |-> t, drawn |-> d, kept |-> c])
<1>1. DOMAIN ws = 1 .. Len(ws)
  BY LenProperties
<1> QED BY <1>1 DEF WindowsOK, App, Windows

\* The same windows with some of them replaced by good ones.
LEMMA WithoutOK ==
  ASSUME NEW ws \in Seq(Windows), \A k \in 1 .. Len(ws) : WindowOK(ws[k]),
         NEW id \in Ids(ws)
  PROVE  /\ At(ws, id) \in 1 .. Len(ws)
         /\ Without(ws, id) \in Seq(Windows)
         /\ \A k \in 1 .. Len(Without(ws, id)) : WindowOK(Without(ws, id)[k])
<1> DEFINE c == At(ws, id)
           a == SubSeq(ws, 1, c - 1)
           b == SubSeq(ws, c + 1, Len(ws))
<1>1. Len(ws) \in Nat /\ DOMAIN ws = 1 .. Len(ws)
  BY LenProperties
<1>2. c \in 1 .. Len(ws)
  BY <1>1 DEF Ids, At
<1> HIDE DEF c
<1>3. Without(ws, id) = a \o b
  BY DEF Without, RemoveAt, c
<1>4. /\ a \in Seq(Windows) /\ Len(a) = c - 1
      /\ \A k \in 1 .. Len(a) : a[k] = ws[k]
  <2>1. 1 \in Int /\ c - 1 \in Int /\ \A k \in 1 .. c - 1 : ws[k] \in Windows
    BY <1>1, <1>2, ElementOfSeq
  <2>2. /\ a \in Seq(Windows) /\ Len(a) = IF 1 <= c - 1 THEN c - 1 - 1 + 1 ELSE 0
        /\ \A k \in 1 .. c - 1 - 1 + 1 : a[k] = ws[1 + k - 1]
    BY <2>1, SubSeqProperties
  <2> QED BY <1>1, <1>2, <2>2
<1>5. /\ b \in Seq(Windows) /\ Len(b) = Len(ws) - c
      /\ \A k \in 1 .. Len(b) : b[k] = ws[c + k]
  <2>1. c + 1 \in Int /\ Len(ws) \in Int /\ \A k \in c + 1 .. Len(ws) : ws[k] \in Windows
    BY <1>1, <1>2, ElementOfSeq
  <2>2. /\ b \in Seq(Windows)
        /\ Len(b) = IF c + 1 <= Len(ws) THEN Len(ws) - (c + 1) + 1 ELSE 0
        /\ \A k \in 1 .. Len(ws) - (c + 1) + 1 : b[k] = ws[(c + 1) + k - 1]
    BY <2>1, SubSeqProperties
  <2> HIDE DEF b
  <2>3. Len(b) = Len(ws) - c
    <3>1. CASE c + 1 <= Len(ws)
      <4>1. Len(b) = Len(ws) - (c + 1) + 1
        BY <2>2, <3>1
      <4> QED BY <4>1, <1>1, <1>2
    <3>2. CASE ~(c + 1 <= Len(ws))
      <4>1. Len(b) = 0
        BY <2>2, <3>2
      <4>2. Len(ws) \in Nat
        BY <1>1
      <4>3. Len(ws) - c = 0
        BY <4>2, <3>2, <1>2
      <4> QED BY <4>1, <4>3
    <3> QED BY <3>1, <3>2
  <2>4. ASSUME NEW k \in 1 .. Len(b) PROVE b[k] = ws[c + k]
    <3>1. k \in 1 .. Len(ws) - (c + 1) + 1 /\ (c + 1) + k - 1 = c + k
      BY <1>1, <1>2, <2>3
    <3> QED BY <2>2, <3>1
  <2> QED BY <2>2, <2>3, <2>4
<1> HIDE DEF a, b
<1>6. /\ a \o b \in Seq(Windows) /\ Len(a \o b) = Len(a) + Len(b)
      /\ \A k \in 1 .. Len(a) + Len(b) :
            (a \o b)[k] = IF k <= Len(a) THEN a[k] ELSE b[k - Len(a)]
  BY <1>4, <1>5, ConcatProperties
<1>7. ASSUME NEW k \in 1 .. Len(a \o b)
      PROVE  WindowOK((a \o b)[k])
  <2>1. CASE k <= Len(a)
    <3>1. k \in 1 .. Len(a) /\ k \in 1 .. Len(ws)
      BY <1>1, <1>2, <1>4, <1>6, <2>1
    <3> QED BY <1>4, <1>6, <2>1, <3>1
  <2>2. CASE ~(k <= Len(a))
    <3>1. k - Len(a) \in 1 .. Len(b) /\ c + (k - Len(a)) \in 1 .. Len(ws)
      BY <1>1, <1>2, <1>4, <1>5, <1>6, <2>2
    <3> QED BY <1>5, <1>6, <2>2, <3>1
  <2> QED BY <2>1, <2>2
<1> QED BY <1>2, <1>3, <1>6, <1>7 DEF c

LEMMA NeedOK ==
  ASSUME NEW win, WindowOK(win)
  PROVE  WindowOK([win EXCEPT !.need = TRUE]) /\ [win EXCEPT !.need = TRUE].need
<1> DEFINE v == [win EXCEPT !.need = TRUE]
<1>1. v \in Windows /\ v.need /\ v.widgets = win.widgets
  <2>1. win \in Windows
    BY WindowInSet
  <2> QED BY <2>1 DEF Windows
<1> HIDE DEF v
<1>2. WindowOK(v)
  BY <1>1 DEF WindowOK, Windows, FocusOK, HasFocus, Ready
<1> QED BY <1>1, <1>2 DEF v

\* Replacing a good window by a good one.
LEMMA ReplacedOK ==
  ASSUME NEW ws \in Seq(Windows), \A k \in 1 .. Len(ws) : WindowOK(ws[k]),
         NEW n \in 1 .. Len(ws), NEW win, WindowOK(win)
  PROVE  /\ [ws EXCEPT ![n] = win] \in Seq(Windows)
         /\ Len([ws EXCEPT ![n] = win]) = Len(ws)
         /\ [ws EXCEPT ![n] = win][n] = win
         /\ \A k \in 1 .. Len(ws) : WindowOK([ws EXCEPT ![n] = win][k])
BY WindowInSet, ExceptSeq

\* Removing a window leaves a top that asks to be drawn, or ends the loop.
LEMMA RemoveWindowOK ==
  ASSUME NEW s, AppOK(s), NEW id
  PROVE  AppOK(removeWindow(s, id))
<1>1. CASE id \notin Ids(s.windows)
  BY <1>1 DEF removeWindow
<1>2. CASE id \in Ids(s.windows)
  <2> DEFINE rest == Without(s.windows, id)
             n    == Len(rest)
             ws   == IF rest = <<>> THEN rest ELSE [rest EXCEPT ![n].need = TRUE]
             r    == removeWindow(s, id)
             c    == { s.windows[At(s.windows, id)] }
  <2>1. rest \in Seq(Windows) /\ \A k \in 1 .. n : WindowOK(rest[k])
    BY <1>2, AppFacts, WithoutOK DEF AppOK
  <2>5. c \in SUBSET Windows /\ \A win \in c : WindowOK(win)
    <3>1. At(s.windows, id) \in 1 .. Len(s.windows)
      BY <1>2, AppFacts, WithoutOK DEF AppOK
    <3> QED BY <3>1, AppFacts, WindowInSet DEF AppOK
  <2>2. r = [windows |-> ws, terminated |-> (rest = <<>>), drawn |-> {}, kept |-> c]
    BY <1>2 DEF removeWindow
  <2> HIDE DEF rest, r, c
  <2>3. CASE rest = <<>>
    <3>1. WindowsOK(r)
      BY <2>1, <2>2, <2>3, <2>5, AppFromWindows
    <3>2. r.terminated
      BY <2>2, <2>3
    <3> QED BY <3>1, <3>2 DEF AppOK, Shown, r
  <2>4. CASE rest # <<>>
    <3> DEFINE v == [rest[n] EXCEPT !.need = TRUE]
    <3>1. n \in 1 .. n /\ n > 0
      BY <2>1, <2>4, NonEmpty
    <3>2. WindowOK(v) /\ v.need
      BY <2>1, <3>1, NeedOK
    <3>3. ws = [rest EXCEPT ![n] = v]
      BY <2>4
    <3> HIDE DEF v, ws
    <3>4. /\ ws \in Seq(Windows) /\ Len(ws) = n /\ ws[n] = v
          /\ \A k \in 1 .. n : WindowOK(ws[k])
      BY <2>1, <3>1, <3>2, <3>3, ReplacedOK
    <3>5. WindowsOK(r)
      <4> HIDE DEF n
      <4> QED BY <2>2, <2>5, <3>4, AppFromWindows
    <3>6. ws # <<>>
      BY <3>1, <3>4, EmptySeq
    <3> QED BY <2>2, <3>2, <3>4, <3>5, <3>6 DEF AppOK, Shown, TopOf, r
  <2> QED BY <2>3, <2>4
<1> QED BY <1>1, <1>2

LEMMA AddWindowOK ==
  ASSUME NEW s, WindowsOK(s), NEW win, WindowOK(win), win.need \/ win.again
  PROVE  AppOK(addWindow(s, win))
<1> DEFINE n  == Len(s.windows)
           ws == Append(s.windows, win)
           r  == addWindow(s, win)
<1>1. n \in Nat /\ win \in Windows /\ s.windows \in Seq(Windows)
  BY AppFacts, WindowInSet
<1>2. /\ ws \in Seq(Windows) /\ Len(ws) = n + 1 /\ ws[n + 1] = win
      /\ \A k \in 1 .. n : ws[k] = s.windows[k]
  BY <1>1, AppendProperties
<1>3. r = [windows |-> ws, terminated |-> s.terminated, drawn |-> s.drawn, kept |-> s.kept]
  BY AppFacts DEF addWindow
<1> HIDE DEF ws, r
<1>4. \A k \in 1 .. Len(ws) : WindowOK(ws[k])
  <2> SUFFICES ASSUME NEW k \in 1 .. n + 1 PROVE WindowOK(ws[k])
    BY <1>2
  <2>1. CASE k = n + 1
    BY <1>2, <2>1
  <2>2. CASE k # n + 1
    <3>1. k \in 1 .. n
      BY <1>1, <2>2
    <3> QED BY <1>2, <3>1, AppFacts
  <2> QED BY <2>1, <2>2
<1>5. WindowsOK(r)
  BY <1>2, <1>3, <1>4, AppFacts, AppFromWindows
<1>6. ws # <<>>
  BY <1>1, <1>2, EmptySeq
<1> QED BY <1>2, <1>3, <1>5, <1>6 DEF AppOK, Shown, TopOf, r

LEMMA TerminateOK ==
  ASSUME NEW s, AppOK(s)
  PROVE  AppOK(terminate(s))
<1> DEFINE t == terminate(s)
<1>1. t \in App /\ t.windows = s.windows /\ t.terminated /\ t.kept = s.kept
  BY DEF AppOK, WindowsOK, terminate, App
<1> HIDE DEF t
<1>2. WindowsOK(t) /\ Shown(t)
  BY <1>1 DEF AppOK, WindowsOK, Shown
<1> QED BY <1>2 DEF AppOK, t

\* A window that comes back is as good as it was when it was closed.
LEMMA AgainOK ==
  ASSUME NEW s, AppOK(s), NEW t \in Again(s)
  PROVE  AppOK(t)
<1>1. PICK win \in s.kept : t = addWindow(s, [win EXCEPT !.again = TRUE])
  BY DEF Again
<1> DEFINE v == [win EXCEPT !.again = TRUE]
<1>2. WindowOK(win) /\ win \in Windows
  BY AppFacts DEF AppOK
<1>3. v \in Windows /\ v.again /\ v.need = win.need /\ v.widgets = win.widgets
  BY <1>2 DEF Windows
<1> HIDE DEF v
<1>4. WindowOK(v)
  BY <1>2, <1>3 DEF WindowOK, FocusOK, HasFocus, Ready
<1> QED BY <1>1, <1>3, <1>4, AddWindowOK DEF AppOK, v

LEMMA OpenOK ==
  ASSUME NEW s, AppOK(s), NEW t \in Open(s)
  PROVE  AppOK(t)
BY NewWindowOK, AddWindowOK, AgainOK DEF Open, AppOK

LEMMA RefocusOK ==
  ASSUME NEW s, AppOK(s), NEW id, NEW t \in Refocus(s, id)
  PROVE  AppOK(t)
<1>1. PICK k \in DOMAIN s.windows :
         \E i \in DOMAIN s.windows[k].widgets :
            t = [s EXCEPT !.windows[k] = Focused(s.windows[k], i)]
  BY DEF Refocus
<1> PICK i \in DOMAIN s.windows[k].widgets :
            t = [s EXCEPT !.windows[k] = Focused(s.windows[k], i)]
  BY <1>1
<1> DEFINE n   == Len(s.windows)
           win == Focused(s.windows[k], i)
           ws  == [s.windows EXCEPT ![k] = win]
<1>2. n \in Nat /\ k \in 1 .. n /\ s.windows \in Seq(Windows)
      /\ \A j \in 1 .. n : WindowOK(s.windows[j])
  BY AppFacts DEF AppOK
<1>3. WindowOK(win) /\ win.id = s.windows[k].id /\ win.need = s.windows[k].need
      /\ win.again = s.windows[k].again
  BY <1>2, FocusedOK
<1>4. t = [s EXCEPT !.windows = ws]
  BY <1>1
<1> HIDE DEF win
<1>5. /\ ws \in Seq(Windows) /\ Len(ws) = n /\ ws[k] = win
      /\ \A j \in 1 .. n : WindowOK(ws[j])
      /\ \A j \in 1 .. n : j # k => ws[j] = s.windows[j]
  <2>1. \A j \in 1 .. n : j # k => ws[j] = s.windows[j]
    BY <1>2, AppFacts DEF AppOK
  <2> HIDE DEF ws
  <2> QED BY <1>2, <1>3, <2>1, ReplacedOK DEF ws
<1> HIDE DEF ws
<1>6. /\ t \in App /\ t.windows = ws /\ t.terminated = s.terminated /\ t.drawn = s.drawn
      /\ t.kept = s.kept
  BY <1>4, <1>5 DEF AppOK, WindowsOK, App, Windows
<1>7. WindowsOK(t)
  BY <1>5, <1>6, AppFacts, LenProperties DEF WindowsOK, AppOK
<1>8. s.windows # <<>> => ws # <<>> /\ n \in 1 .. n
  BY <1>2, <1>5, EmptySeq, NonEmpty
<1>9. Shown(t)
  BY <1>3, <1>5, <1>6, <1>8 DEF AppOK, Shown, TopOf
<1> QED BY <1>7, <1>9 DEF AppOK

\* Whatever a callback does, it leaves a good application.
LEMMA CallbackOK ==
  ASSUME NEW name \in Callbacks, NEW s, AppOK(s), NEW id, NEW t \in Callback(name, s, id)
  PROVE  AppOK(t)
<1>1. CASE name = "nothing"
  BY <1>1 DEF Callback
<1>2. CASE name = "open"
  BY <1>2, OpenOK DEF Callback
<1>3. CASE name = "close"
  BY <1>3, RemoveWindowOK DEF Callback
<1>4. CASE name = "closeAny"
  BY <1>4, RemoveWindowOK DEF Callback
<1>5. CASE name = "focus"
  BY <1>5, RefocusOK DEF Callback
<1>6. CASE name = "terminate"
  BY <1>6, TerminateOK DEF Callback
<1>7. CASE name = "leave"
  BY <1>7, RemoveWindowOK, TerminateOK DEF Callback
<1>8. CASE name = "replace"
  BY <1>8, RemoveWindowOK, OpenOK DEF Callback
<1> QED BY <1>1, <1>2, <1>3, <1>4, <1>5, <1>6, <1>7, <1>8 DEF Callbacks

-------------------------------------------------------------------------------
(* The event loop                                                          *)

LEMMA InitIInv == Init => IInv
<1> SUFFICES ASSUME Init PROVE IInv
  OBVIOUS
<1>1. <<>> \in Seq(Windows) /\ Len(<<>>) = 0
  BY EmptySeq
<1>2. State = [windows |-> <<>>, terminated |-> FALSE, drawn |-> {}, kept |-> {}]
  BY DEF Init, State
<1>3. WindowsOK(State)
  <2>1. \A k \in 1 .. Len(<<>>) : WindowOK(<<>>[k])
    BY <1>1
  <2> QED BY <1>1, <1>2, <2>1, AppFromWindows
<1> QED BY <1>3 DEF Init, IInv

\* Before a key arrives the application is good.
LEMMA WaitingIsShown ==
  ASSUME IInv, pc = "select"
  PROVE  AppOK(State)
<1>1. Shown(State)
  BY DEF IInv, TopIsOnScreen, Shown, TopOf, Top, State
<1> QED BY <1>1 DEF IInv, AppOK

LEMMA PrepareOK == ASSUME IInv, Prepare PROVE IInv'
<1>1. PICK id \in WindowId, l \in Layouts : windows' = Append(windows, Window(id, l))
  BY DEF Prepare
<1>2. AppOK(addWindow(State, Window(id, l)))
  BY NewWindowOK, AddWindowOK DEF IInv
<1>3. addWindow(State, Window(id, l)) = State'
  <2>1. terminated' = terminated /\ drawn' = drawn /\ kept' = kept
    BY DEF Prepare
  <2>2. State' = [windows |-> windows', terminated |-> terminated, drawn |-> drawn,
                  kept |-> kept]
    BY <2>1 DEF State
  <2>3. addWindow(State, Window(id, l))
          = [windows |-> Append(windows, Window(id, l)), terminated |-> terminated, drawn |-> drawn,
             kept |-> kept]
    BY DEF addWindow, State
  <2> QED BY <1>1, <2>2, <2>3
<1> QED BY <1>2, <1>3 DEF Prepare, IInv, AppOK

\* Drawing the windows of D, the undrawn ones among them, makes all ready.
LEMMA DrawnOK ==
  ASSUME IInv, NEW D, \A i \in DOMAIN windows : windows[i].need => i \in D, NEW ws,
         ws = [i \in DOMAIN windows |-> IF i \in D THEN RedrawnWindow(windows[i])
                                                   ELSE windows[i]]
  PROVE  /\ ws \in Seq(Windows) /\ Len(ws) = Len(windows)
         /\ Len(windows) \in Nat /\ DOMAIN windows = 1 .. Len(windows)
         /\ \A i \in 1 .. Len(windows) : WindowOK(ws[i]) /\ Ready(ws[i]) /\ ws[i].id = windows[i].id
<1> DEFINE n == Len(windows)
<1>1. n \in Nat /\ DOMAIN windows = 1 .. n /\ \A i \in 1 .. n : WindowOK(windows[i])
  <2>1. WindowsOK(State) /\ State.windows = windows
    BY DEF IInv, State
  <2> QED BY <2>1, AppFacts
<1>2. ASSUME NEW i \in 1 .. n
      PROVE  WindowOK(ws[i]) /\ Ready(ws[i]) /\ ws[i].id = windows[i].id /\ ws[i] \in Windows
  <2>1. CASE i \in D
    BY <1>1, <2>1, RedrawnOK, WindowInSet
  <2>2. CASE i \notin D
    BY <1>1, <2>2, WindowInSet DEF WindowOK
  <2> QED BY <2>1, <2>2
<1>3. ws \in [1 .. n -> Windows]
  BY <1>1, <1>2
<1> QED BY <1>1, <1>2, <1>3, FunctionIsSeq

LEMMA FirstPassOK == ASSUME IInv, FirstPass PROVE IInv'
<1>1. windows' = [i \in DOMAIN windows |-> IF i \in DOMAIN windows THEN RedrawnWindow(windows[i])
                                                                 ELSE windows[i]]
  BY DEF FirstPass
<1> DEFINE n == Len(windows)
<1>2. /\ windows' \in Seq(Windows) /\ Len(windows') = n
      /\ n \in Nat /\ DOMAIN windows = 1 .. n
      /\ \A i \in 1 .. n : WindowOK(windows'[i]) /\ Ready(windows'[i]) /\ windows'[i].id = windows[i].id
  BY <1>1, DrawnOK
<1>3. n \in 1 .. n /\ windows # <<>> /\ windows' # <<>>
  <2>1. windows \in Seq(Windows)
    BY AppFacts DEF IInv, State
  <2> QED BY <1>2, <2>1, NonEmpty, EmptySeq DEF FirstPass
<1>4. /\ drawn' = Ids(windows) /\ drawn' \in SUBSET WindowId /\ terminated' \in BOOLEAN
      /\ pc' = "select" /\ kept' \in SUBSET Windows /\ \A win \in kept' : WindowOK(win)
  <2>1. drawn' = Ids(windows) /\ terminated' = terminated /\ pc' = "select" /\ kept' = kept
    BY DEF FirstPass
  <2>2. Ids(windows) \in SUBSET WindowId
    BY <1>2, WindowFacts DEF Ids
  <2> QED BY <2>1, <2>2, AppFacts DEF IInv, State
<1>5. WindowsOK(State')
  BY <1>2, <1>4, AppFromWindows DEF State
<1>6. TopIsOnScreen'
  BY <1>2, <1>3, <1>4 DEF TopIsOnScreen, Top, Ids
<1>7. DOMAIN windows' = 1 .. n /\ \A k \in DOMAIN windows' : Ready(windows'[k])
  BY <1>2, LenProperties
<1>8. KeysNeedInitialize'
  BY <1>7 DEF KeysNeedInitialize, AllForms, Ready
<1> QED BY <1>4, <1>5, <1>6, <1>7, <1>8 DEF IInv

LEMMA RedrawOK == ASSUME IInv, Redraw PROVE IInv'
<1> DEFINE n == Len(windows)
           D == { j \in DOMAIN windows : NeedsRedraw(windows[j]) }
<1>1. windows' = [i \in DOMAIN windows |-> IF i \in D THEN RedrawnWindow(windows[i])
                                                     ELSE windows[i]]
  BY DEF Redraw
<1>2. /\ windows' \in Seq(Windows) /\ Len(windows') = n
      /\ n \in Nat /\ DOMAIN windows = 1 .. n
      /\ \A i \in 1 .. n : WindowOK(windows'[i]) /\ Ready(windows'[i]) /\ windows'[i].id = windows[i].id
  <2>1. \A i \in DOMAIN windows : windows[i].need => i \in D
    BY DEF NeedsRedraw
  <2> HIDE DEF D
  <2> QED BY <1>1, <2>1, DrawnOK
<1>3. State.windows \in Seq(Windows) /\ State.windows = windows /\ State.terminated = terminated
      /\ terminated \in BOOLEAN /\ drawn \in SUBSET WindowId /\ State.drawn = drawn
      /\ kept \in SUBSET Windows /\ \A win \in kept : WindowOK(win)
  BY AppFacts DEF IInv, State
<1>4. /\ drawn' = drawn \cup { windows[i].id : i \in D } /\ drawn' \in SUBSET WindowId
      /\ terminated' = terminated /\ pc' = "select" /\ kept' = kept
  <2>1. \A i \in DOMAIN windows : windows[i].id \in WindowId
    BY <1>2, WindowFacts
  <2> QED BY <1>3, <2>1 DEF Redraw
<1>5. WindowsOK(State')
  BY <1>2, <1>3, <1>4, AppFromWindows DEF State
<1>6. TopIsOnScreen'
  <2> SUFFICES ASSUME ~terminated
               PROVE  windows' # <<>> /\ (windows'[n].id \in drawn' \/ windows'[n].again)
    BY <1>2, <1>4 DEF TopIsOnScreen, Top
  <2>1. windows # <<>> /\ (windows[n].id \in drawn \/ windows[n].need \/ windows[n].again)
    BY <1>3 DEF IInv, Redraw, Shown, TopOf
  <2>2. n \in 1 .. n
    BY <1>3, <2>1, NonEmpty
  <2>3. windows' # <<>>
    BY <1>2, <2>2, EmptySeq
  <2>4. windows[n].need => n \in D
    BY <1>2, <2>2 DEF NeedsRedraw
  <2>5. n \notin D => windows'[n] = windows[n]
    BY <1>1, <1>2, <2>2
  <2> HIDE DEF D
  <2> QED BY <1>2, <1>4, <2>1, <2>2, <2>3, <2>4, <2>5
<1>7. DOMAIN windows' = 1 .. n /\ \A k \in DOMAIN windows' : Ready(windows'[k])
  BY <1>2, LenProperties
<1>8. KeysNeedInitialize'
  BY <1>7 DEF KeysNeedInitialize, AllForms, Ready
<1> QED BY <1>4, <1>5, <1>6, <1>7, <1>8 DEF IInv

\* The state in which the callback of a key runs.
LEMMA KeyedOK ==
  ASSUME NEW s, AppOK(s), s.windows # <<>>, NEW key \in Keys,
         NEW i \in DOMAIN TopOf(s).widgets, NEW r \in WidgetKey(TopOf(s).widgets[i], key)
  PROVE  /\ AppOK([s EXCEPT !.windows[Len(s.windows)].widgets[i] = r.widget])
         /\ r.callback \in Callbacks
<1> DEFINE n   == Len(s.windows)
           top == TopOf(s)
           m   == Len(top.widgets)
           f   == [top.widgets EXCEPT ![i] = r.widget]
           win == [top EXCEPT !.widgets = f]
           ws  == [s.windows EXCEPT ![n] = win]
           t   == [s EXCEPT !.windows[n].widgets[i] = r.widget]
<1>1. /\ s.windows \in Seq(Windows) /\ n \in Nat /\ n \in 1 .. n
      /\ \A k \in 1 .. n : WindowOK(s.windows[k])
  BY AppFacts, NonEmpty DEF AppOK
<1>2. top = s.windows[n] /\ WindowOK(top) /\ top \in Windows
  BY <1>1, WindowInSet DEF TopOf
<1>3. /\ top.widgets \in Seq(Widgets) /\ m \in Nat /\ DOMAIN top.widgets = 1 .. m /\ i \in 1 .. m
      /\ \A j \in 1 .. m : WidgetOK(top.widgets[j])
  BY <1>2, WindowFacts
<1>4. Outcome(r, top.widgets[i])
  BY <1>3, WidgetKeyOK
<1>5. r.widget \in Widgets /\ WidgetOK(r.widget) /\ Kept(r.widget, top.widgets[i])
  BY <1>4 DEF Outcome, WidgetOK
<1>6. /\ f \in Seq(Widgets) /\ DOMAIN f = 1 .. m
      /\ \A j \in 1 .. m : /\ WidgetOK(f[j]) /\ f[j].focus = top.widgets[j].focus
                           /\ f[j].ready = top.widgets[j].ready
  BY <1>3, <1>5, ExceptSeq DEF Kept
<1>7. t = [s EXCEPT !.windows = ws]
  BY <1>2
<1> HIDE DEF f, top
<1>8. /\ win \in Windows /\ win.widgets = f /\ win.id = top.id /\ win.need = top.need
      /\ win.again = top.again
  BY <1>2, <1>6 DEF Windows
<1> HIDE DEF win
<1>9. WindowOK(win)
  <2>1. m > 0 => \E k \in 1 .. m : \A j \in 1 .. m : f[j].focus <=> (j = k)
    <3> SUFFICES ASSUME m > 0 PROVE \E k \in 1 .. m : \A j \in 1 .. m : f[j].focus <=> (j = k)
      OBVIOUS
    <3>1. PICK k \in 1 .. m : \A j \in 1 .. m : top.widgets[j].focus <=> (j = k)
      <4>1. WindowOK(top) /\ Len(top.widgets) > 0
        BY <1>2
      <4> QED BY <4>1, OneHasFocus
    <3> QED BY <1>6, <3>1
  <2>2. (\A j \in 1 .. m : f[j].ready) \/ win.need
    BY <1>2, <1>3, <1>6, <1>8 DEF WindowOK, Ready
  <2> QED BY <1>3, <1>6, <1>8, <2>1, <2>2, WindowFromWidgets DEF Windows
<1>10. /\ ws \in Seq(Windows) /\ Len(ws) = n /\ ws[n] = win
       /\ \A k \in 1 .. n : WindowOK(ws[k])
  BY <1>1, <1>9, ReplacedOK
<1> HIDE DEF ws, t
<1>11. t \in App /\ t.windows = ws /\ t.terminated = s.terminated /\ t.drawn = s.drawn
       /\ t.kept = s.kept
  BY <1>7, <1>10 DEF AppOK, WindowsOK, App, Windows
<1>12. WindowsOK(t)
  BY <1>10, <1>11, AppFacts, LenProperties DEF WindowsOK, AppOK
<1>13. Shown(t)
  BY <1>1, <1>2, <1>8, <1>10, <1>11, EmptySeq DEF AppOK, Shown, TopOf
<1> QED BY <1>4, <1>12, <1>13 DEF AppOK, Outcome, t, top

LEMMA KeyEventOK == ASSUME IInv, NEW key \in Keys, KeyEvent(key) PROVE IInv'
<1> DEFINE i == KeyWidget(Top)
<1>1. pc = "select" /\ pc' = "redraw" /\ windows # <<>>
  BY DEF KeyEvent
<1>2. AppOK(State) /\ State.windows = windows /\ TopOf(State) = Top
  BY <1>1, WaitingIsShown DEF State, TopOf, Top
<1>3. CASE i = 0 /\ UNCHANGED <<windows, terminated, drawn, kept>>
  BY <1>1, <1>2, <1>3 DEF IInv, AppOK, State
<1>4. ASSUME i # 0,
             NEW r \in WidgetKey(Top.widgets[i], key),
             NEW t \in Callback(r.callback,
                                [windows |-> [windows EXCEPT ![Len(windows)].widgets[i] = r.widget],
                                 terminated |-> terminated, drawn |-> drawn, kept |-> kept],
                                Top.id),
             windows' = t.windows, terminated' = t.terminated, drawn' = t.drawn, kept' = t.kept
      PROVE  IInv'
  <2>1. i \in DOMAIN Top.widgets
    <3>1. HasFocus(Top) # {}
      BY <1>4 DEF KeyWidget
    <3>2. WindowOK(Top)
      <4>1. Len(windows) \in 1 .. Len(windows)
        BY <1>1, <1>2, AppFacts, NonEmpty DEF AppOK
      <4> QED BY <1>2, <4>1, AppFacts DEF AppOK, Top
    <3>3. Top.widgets # <<>>
      BY <3>1 DEF HasFocus
    <3>4. PICK k \in DOMAIN Top.widgets : HasFocus(Top) = {k}
      BY <3>2, <3>3 DEF WindowOK, FocusOK
    <3>5. k \in Nat
      BY <3>2, WindowFacts
    <3> QED BY <3>1, <3>4, <3>5 DEF KeyWidget
  <2> HIDE DEF i
  <2> DEFINE s == [windows |-> [windows EXCEPT ![Len(windows)].widgets[i] = r.widget],
                   terminated |-> terminated, drawn |-> drawn, kept |-> kept]
  <2>2. s = [State EXCEPT !.windows[Len(State.windows)].widgets[i] = r.widget]
    <3> DEFINE ws == [windows EXCEPT ![Len(windows)].widgets[i] = r.widget]
    <3>1. State.windows = windows
      BY DEF State
    <3>2. [State EXCEPT !.windows[Len(State.windows)].widgets[i] = r.widget]
          = [State EXCEPT !.windows = ws]
      BY <3>1
    <3>3. s.windows = ws /\ s = [windows |-> ws, terminated |-> terminated,
                                drawn |-> drawn, kept |-> kept]
      OBVIOUS
    <3> HIDE DEF ws, s
    <3>4. [State EXCEPT !.windows = ws] = [windows |-> ws, terminated |-> terminated,
                                           drawn |-> drawn, kept |-> kept]
      BY DEF State
    <3> QED BY <3>2, <3>3, <3>4
  <2> HIDE DEF s
  <2>3. AppOK(s) /\ r.callback \in Callbacks
    BY <1>1, <1>2, <1>4, <2>1, <2>2, KeyedOK
  <2>4. AppOK(t)
    BY <1>4, <2>3, CallbackOK DEF s
  <2>5. State' = t
    <3>1. State' = [windows |-> t.windows, terminated |-> t.terminated, drawn |-> t.drawn,
                    kept |-> t.kept]
      BY <1>4 DEF State
    <3> QED BY <2>4, <3>1, AppFacts DEF AppOK
  <2> QED BY <1>1, <2>4, <2>5 DEF IInv, AppOK
<1> QED BY <1>3, <1>4 DEF KeyEvent

LEMMA NextIInv == IInv /\ [Next]_vars => IInv'
<1> SUFFICES ASSUME IInv, [Next]_vars PROVE IInv'
  OBVIOUS
<1>1. CASE Leave
  BY <1>1 DEF Leave, IInv, State, WindowsOK
<1>2. CASE Timeout
  BY <1>2, WaitingIsShown DEF Timeout, IInv, State, AppOK, Shown, TopOf
<1>3. CASE UNCHANGED vars
  BY <1>3 DEF vars, IInv, State, KeysNeedInitialize, AllForms, TopIsOnScreen, Top
<1> QED BY <1>1, <1>2, <1>3, PrepareOK, FirstPassOK, RedrawOK, KeyEventOK DEF Next

\* The invariant that carries the others holds in every reachable state.
THEOREM InductiveInvariant == Spec => []IInv
BY InitIInv, NextIInv, PTL DEF Spec

-------------------------------------------------------------------------------
(* What follows from it                                                    *)

\* The fields, the items, the windows drawn and the place in the loop keep
\* their types: no key and no callback takes them out of range.
THEOREM TypeCorrect == Spec => []TypeOK
<1>1. IInv => TypeOK
  <2> SUFFICES ASSUME IInv PROVE TypeOK
    OBVIOUS
  <2>1. WindowsOK(State)
    BY DEF IInv
  <2>2. State.windows \in Seq(Windows) /\ State.terminated \in BOOLEAN
        /\ State.drawn \in SUBSET WindowId /\ State.kept \in SUBSET Windows
    BY <2>1, AppFacts
  <2> QED BY <2>2 DEF IInv, TypeOK, State, Windows
<1> QED BY <1>1, InductiveInvariant, PTL

\* A form in an open window is a good one.
LEMMA FormsOK ==
  ASSUME IInv, NEW w \in AllForms
  PROVE  FormOK(w) /\ w \in Widgets
<1>1. PICK k \in DOMAIN windows : \E j \in DOMAIN windows[k].widgets :
            w = windows[k].widgets[j] /\ w.kind = "form"
  BY DEF AllForms
<1>2. WindowOK(windows[k])
  BY <1>1 DEF IInv, WindowsOK, State
<1> QED BY <1>1, <1>2 DEF WindowOK, WidgetOK

\* The form and the form library agree on the current field, whatever the
\* keys, the fields and the buttons.
THEOREM FormsStayInSync == Spec => []FormInSync
<1>1. IInv => FormInSync
  BY FormsOK DEF FormInSync, FormOK
<1> QED BY <1>1, InductiveInvariant, PTL

\* No button is reached while something the user typed is invalid.
THEOREM ButtonsAreValidated == Spec => []ButtonsOnlyWhenValid
<1>1. IInv => ButtonsOnlyWhenValid
  <2> SUFFICES ASSUME IInv, NEW w \in AllForms, w.item >= NFields PROVE w.bad = {}
    BY DEF ButtonsOnlyWhenValid
  <2>1. ~(w.item < NFields)
    BY FormsOK, ConstantsOK DEF Widgets
  <2> QED BY <2>1, FormsOK DEF FormOK
<1> QED BY <1>1, InductiveInvariant, PTL

\* No key reaches a form that has not been initialized.
THEOREM KeysReachReadyForms == Spec => []KeysNeedInitialize
<1>1. IInv => KeysNeedInitialize
  BY DEF IInv, KeysNeedInitialize
<1> QED BY <1>1, InductiveInvariant, PTL

\* exec waits for a key only in front of a window that is on the screen, or
\* one that was closed and added again (addWindow asks for no redraw).
THEOREM TopStaysOnScreen == Spec => []TopIsOnScreen
<1>1. IInv => TopIsOnScreen
  BY DEF IInv, TopIsOnScreen
<1> QED BY <1>1, InductiveInvariant, PTL

\* Keys have one receiver in every window that has widgets.
THEOREM FocusIsUnique == Spec => []OneFocus
<1>1. IInv => OneFocus
  BY DEF IInv, OneFocus, WindowsOK, State, WindowOK, FocusOK
<1> QED BY <1>1, InductiveInvariant, PTL
================================================================================
