------------------------------ MODULE MCInput -------------------------------
(***************************************************************************)
(* Instances of Input for TLC: a key, a mouse button and their combination. *)
(***************************************************************************)
EXTENDS Input, TLC

PlainButton == "btn" :> "plain"
DblButton   == "btn" :> "dbl"

KeyBindings == <<"a">> :> "menu" @@ <<"btn">> :> "pause" @@ <<"dbl">> :> "quit"
               @@ <<"a", "btn">> :> "keep"

PauseMenuCmds == { <<>>, <<"hide">>, <<"pause_space">> }
QuitMenuCmds == { <<>>, <<"quit">> }
=============================================================================
