----------------------------- MODULE StartContract -----------------------------
(***************************************************************************)
(* What a portal promises about a Start: the abstract specification that   *)
(* the COSMIC backend and the whole restore path implement.                *)
(*                                                                         *)
(* A session is set up, and a Start then decides between capturing,        *)
(* asking the user and failing by policy.  The user is asked only without  *)
(* something to restore, under prompt, or for consent to an alias that     *)
(* leaves the application.  A Start answers once, and a failure by policy  *)
(* answers as the policy says.                                             *)
(***************************************************************************)
EXTENDS RestoreActions

CONSTANT Sessions

VARIABLES at, terms, answer

contractVars == <<at, terms, answer>>

\* What SelectSources has settled: whether there is something to restore, what to do if that
\* fails, and whether it holds an alias the user has to consent to.
Terms == [restoring : BOOLEAN, action : Known, consent : BOOLEAN]

NoAnswer == [code |-> "none", failure |-> FALSE]

Init ==
  /\ at = [s \in Sessions |-> "selecting"]
  /\ terms \in [Sessions -> Terms]
  /\ answer = [s \in Sessions |-> NoAnswer]

Move(s, from, to) == at[s] = from /\ at' = [at EXCEPT ![s] = to]

Reply(s, code, failure) ==
  answer' = [answer EXCEPT ![s] = [code |-> code, failure |-> failure]]

SetTerms(s) == \E t \in Terms : terms' = [terms EXCEPT ![s] = t]

Select(s) == Move(s, "selecting", "selecting") /\ SetTerms(s) /\ UNCHANGED answer

\* A token that cannot be restored at all fails SelectSources.
Refuse(s) ==
  /\ Move(s, "selecting", "refused")
  /\ \/ Reply(s, "cancelled", FALSE)
     \/ Reply(s, "cancelled", TRUE)
     \/ Reply(s, "other", TRUE)
  /\ UNCHANGED terms

Begin(s) == Move(s, "selecting", "deciding") /\ UNCHANGED <<terms, answer>>

Ask(s) ==
  /\ (terms[s].restoring /\ terms[s].action # Prompt) => terms[s].consent
  /\ Move(s, "deciding", "asking")
  /\ UNCHANGED <<terms, answer>>

Grant(s) ==
  /\ \/ Move(s, "deciding", "granted") /\ terms[s].restoring
     \/ Move(s, "asking", "granted")
  /\ UNCHANGED <<terms, answer>>

FailByPolicy(s) ==
  /\ terms[s].restoring
  /\ Move(s, "deciding", "done")
  /\ \/ terms[s].action = Skip /\ Reply(s, "cancelled", FALSE)
     \/ terms[s].action = Error /\ Reply(s, "other", TRUE)
  /\ UNCHANGED terms

Dismiss(s) == Move(s, "asking", "done") /\ Reply(s, "cancelled", FALSE) /\ UNCHANGED terms

Finish(s) ==
  /\ Move(s, "granted", "done")
  /\ \/ Reply(s, "success", FALSE)
     \/ Reply(s, "other", FALSE)
  /\ UNCHANGED terms

\* The request is closed by its caller.
Cancel(s) ==
  /\ at[s] \in {"deciding", "asking", "granted"}
  /\ Move(s, at[s], "cancelled")
  /\ UNCHANGED <<terms, answer>>

\* The client has heard the answer and may make a new session.
Again(s) ==
  /\ at[s] \in {"refused", "done", "cancelled"}
  /\ Move(s, at[s], "selecting")
  /\ SetTerms(s)
  /\ answer' = [answer EXCEPT ![s] = NoAnswer]

Next ==
  \E s \in Sessions :
    \/ Select(s) \/ Refuse(s) \/ Begin(s) \/ Ask(s) \/ Grant(s) \/ FailByPolicy(s)
    \/ Dismiss(s) \/ Finish(s) \/ Cancel(s) \/ Again(s)

Spec == Init /\ [][Next]_contractVars
==============================================================================
