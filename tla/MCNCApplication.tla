---------------------------- MODULE MCNCApplication ----------------------------
(* An application of up to three windows, with the menu and the form of    *)
(* tests/ncurses.cpp and windows that hold two widgets or are a   *)
(* status bar.                                                             *)
EXTENDS NCApplication

MCMenuItems == <<"open", "closeAny", "terminate", "replace">>
MCFieldType == <<"input", "checkbox", "input">>
MCButtons   == <<"close", "focus", "leave">>
MCLayouts   == { <<>>, <<"menu">>, <<"form">>, <<"form", "menu">> }
===============================================================================
