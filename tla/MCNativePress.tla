---------------------------- MODULE MCNativePress ----------------------------
(***************************************************************************)
(* Two presses of NativePress: with a modifier and without, completed by   *)
(* the page and by AppKit, for the same window and for different ones.     *)
(***************************************************************************)
EXTENDS NativePress

CONSTANTS w1, w2

InPage(w, s) == [win |-> w, shifted |-> s, webview |-> TRUE]
Native(w, s) == [win |-> w, shifted |-> s, webview |-> FALSE]

TwoPresses == {<<InPage(w1, TRUE), InPage(w2, FALSE)>>,
               <<InPage(w1, FALSE), InPage(w1, TRUE)>>,
               <<Native(w1, TRUE), InPage(w1, FALSE)>>}
=============================================================================
