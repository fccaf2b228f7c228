---------------------------- MODULE MCRepository ----------------------------
EXTENDS Repository, TLC

CONSTANTS main, a, b, c, d, lib

(* Circles of one, two, three and four files, a library several of them use, and a
   file (d) that a circle can reach at run time before it is loaded for its own sake. *)
Circles == main :> <<a, b, d>>
           @@ a :> <<b, lib>>
           @@ b :> <<b, a, c, lib>>
           @@ c :> <<a, main>>
           @@ d :> <<lib, c>>
           @@ lib :> <<>>
=============================================================================
