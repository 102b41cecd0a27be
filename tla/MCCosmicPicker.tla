---------------------------- MODULE MCCosmicPicker ----------------------------
(***************************************************************************)
(* Two windows, one with a suggested project, and one output.              *)
(***************************************************************************)
EXTENDS CosmicPicker

Editor  == [id |-> 1, app |-> "code", title |-> "main"]
Browser == [id |-> 2, app |-> "web", title |-> "mail"]

MCShown     == <<Editor, Browser>>
MCSuggested == [w \in {Editor} |-> "p"]
MCSeeds     == <<[app |-> "web", title |-> "news", rules |-> <<>>],
                 [app |-> "mail", title |-> "mail",
                  rules |-> <<[pattern |-> "p", scope |-> "any_app"]>>]>>
NoSeeds     == <<>>

\* Chosen is the filter that the code uses: it leaves what SelectSeq would.
ASSUME ChosenIsFilter ==
  \A n \in 0..5 :
    LET list == [k \in 1..n |-> k]
    IN  \A S \in SUBSET (1..n) : Chosen(list, S) = SelectSeq(list, LAMBDA k : k \in S)

MCClientRules == <<[pattern |-> "p", scope |-> "same_app"]>>
==============================================================================
