---------------------------- MODULE RestoreActions ----------------------------
(***************************************************************************)
(* What a restore_policy asks for.  Three programs resolve the same wire   *)
(* object independently: xdg-desktop-portal (C), the COSMIC backend and    *)
(* the mock portal (Rust).  A wire policy is a record                      *)
(*   [default |-> a u32 or Absent, actions |-> function of reason strings] *)
(* of the types the portal's validators accept; its actions may name       *)
(* reasons, and carry action values, that no version of the code knows.    *)
(***************************************************************************)
EXTENDS Integers

CONSTANTS
  Absent,       \* the entry is missing
  WireReasons   \* reason strings a client may send

\* RestoreFailReason.
Reasons == {"token_not_found", "source_unavailable", "permission_revoked", "token_consumed"}

Prompt == 0
Skip   == 1
Error  == 2
Known  == {Prompt, Skip, Error}

ASSUME RestoreActionsAssumption ==
  /\ Reasons \subseteq WireReasons
  /\ Absent \notin Nat

\* The shape the front end's validators let through.
IsWirePolicy(p) ==
  /\ p.default \in Nat \cup {Absent}
  /\ DOMAIN p.actions \subseteq WireReasons
  /\ \A reason \in DOMAIN p.actions : p.actions[reason] \in Nat

(***************************************************************************)
(* xdg-desktop-portal: an action overwritten twice, each time by a known   *)
(* value only.                                                             *)
(***************************************************************************)
XdpAction(policy, reason) ==
  LET fallback == IF policy.default \in Known THEN policy.default ELSE Prompt
  IN  IF reason \in DOMAIN policy.actions /\ policy.actions[reason] \in Known
      THEN policy.actions[reason]
      ELSE fallback

(***************************************************************************)
(* The mock: parsing drops unknown values and unknown reasons, and the     *)
(* action is the first of three that is present.                           *)
(***************************************************************************)
\* Mutant: values beyond the enumeration are kept.
ParseKeepingUnknown(policy) ==
  [default |-> policy.default,
   actions |-> [r \in DOMAIN policy.actions \cap Reasons |-> policy.actions[r]]]

ParseRestorePolicy(policy) ==
  [default |-> IF policy.default \in Known THEN policy.default ELSE Absent,
   actions |-> [r \in {q \in DOMAIN policy.actions \cap Reasons : policy.actions[q] \in Known} |->
                  policy.actions[r]]]

\* Mutant: the default is not consulted.
ActionListed(parsed, reason) ==
  IF reason \in DOMAIN parsed.actions THEN parsed.actions[reason] ELSE Prompt

ActionFor(parsed, reason) ==
  IF reason \in DOMAIN parsed.actions THEN parsed.actions[reason]
  ELSE IF parsed.default # Absent THEN parsed.default
  ELSE Prompt

MockAction(policy, reason) == ActionFor(ParseRestorePolicy(policy), reason)

(***************************************************************************)
(* COSMIC: the value of the reason, else the default, each filtered.       *)
(***************************************************************************)
\* Mutants: no filter, and a filter that loses the last action.
FilterNothing(a, otherwise)  == IF a \in Nat THEN a ELSE otherwise
FilterTooMuch(a, otherwise) == IF a \in Nat /\ a < Error THEN a ELSE otherwise

FilterAction(a, otherwise) == IF a \in Nat /\ a <= Error THEN a ELSE otherwise

CosmicAction(policy, reason) ==
  LET default == FilterAction(policy.default, Prompt)
  IN  FilterAction(IF reason \in DOMAIN policy.actions THEN policy.actions[reason] ELSE Absent,
                   default)
==============================================================================
