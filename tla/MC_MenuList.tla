---------------------------- MODULE MC_MenuList ----------------------------
(* Two lists: one that does not fit the screen, and one that does and is    *)
(* shorter than the screen is high.  The item to go back has nowhere to go  *)
(* in the list that is opened, and has where the other list leads there.    *)
EXTENDS MenuList, TLC

CONSTANTS Fits, Scrolls

MCItems ==
       Fits    :> <<Scrolls>>
    @@ Scrolls :> <<TreeBack, Callback, Fits, Callback>>
=============================================================================
