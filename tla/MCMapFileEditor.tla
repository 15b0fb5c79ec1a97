--------------------------- MODULE MCMapFileEditor ---------------------------
(***************************************************************************)
(* The editor on a tree with a variable in the root, a folder a with a     *)
(* variable x and a folder b with a variable y.                            *)
(***************************************************************************)
EXTENDS MapFileEditor

MCDirs == {<<>>, <<"a">>, <<"a", "b">>}
MCVars == {<<"z">>, <<"a", "x">>, <<"a", "b", "y">>}
MCInputs == {<<"z">>, <<"a", "b", "y">>}
MCDefaultNames == <<"historySetting", "historySetting_0">>

(* A user's session: up to so many actions of each kind.                   *)
Session(exclude, history, place, cfg, files) ==
  [exclude |-> exclude, history |-> history, place |-> place,
   config |-> cfg, file |-> files]
MCSessions == {Session(4, 0, 0, 0, 2), Session(0, 5, 0, 0, 0),
               Session(0, 4, 0, 0, 3), Session(0, 0, 3, 0, 2),
               Session(0, 0, 0, 3, 3), Session(1, 2, 0, 0, 2),
               Session(1, 2, 1, 0, 1)}
=============================================================================
