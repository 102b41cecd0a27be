--------------------------- MODULE MCRestoreSystem ---------------------------
(***************************************************************************)
(* Two OBS sources, which may begin as copies with one token; a name the   *)
(* front end refuses, and more aliases than it takes.                      *)
(***************************************************************************)
EXTENDS RestoreSystem

Alias == <<"draft">>

Source(token) == [New("Camera") EXCEPT !.token = token]

Refusable == {[Source("old") EXCEPT !.name = "long"], [Source("old") EXCEPT !.aliases = <<Alias, Alias>>]}

MCBeginnings ==
  [Clients -> {Source(""), Source("old")}] \cup [Clients -> Refusable]

ClientSymmetry == Permutations(Clients)

MCTokens == <<"first">>
==============================================================================
