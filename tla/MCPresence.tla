------------------------------ MODULE MCPresence ------------------------------
(* Instances of presence for TLC. *)
EXTENDS Presence

(* A directory, a file in it, and a file beside it whose name begins alike. *)
Src == <<"src">>
SrcMain == <<"src", "/", "main">>
Src2 == <<"src", "2">>

MCToken == {"src", "/", "main", "2"}
MCPath == {Src, SrcMain, Src2}
MCProfile == {{}, {"review"}}
Symmetry == Permutations(SessionId) \cup Permutations(Pid)

=============================================================================
