--------------------------- MODULE MCScreencastCall ---------------------------
(***************************************************************************)
(* Labels of every kind against a limit of four bytes: empty, at the limit *)
(* and over it, with control characters, and with a character across the   *)
(* limit.                                                                  *)
(***************************************************************************)
EXTENDS ScreencastCall

Ch(bytes, control) == [bytes |-> bytes, control |-> control]

A    == Ch(1, FALSE)
Wide == Ch(2, FALSE)
Tab  == Ch(1, TRUE)
Bidi == Ch(3, TRUE)

Label == <<A>>

MCLabels ==
  {<<>>, <<Bidi>>, <<Tab, A>>, <<A, A, Wide>>, <<A, A, A, Wide>>, <<A, A, A, Wide, A>>,
   <<Wide, Wide, A>>, <<Bidi, A, A>>, <<A, Bidi, Wide, Wide, A>>}

MCInputs == {[token |-> Absent, label |-> label] : label \in MCLabels}
            \cup {[token |-> "old", label |-> Label]}
==============================================================================
