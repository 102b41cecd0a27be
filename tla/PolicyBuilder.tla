---------------------------- MODULE PolicyBuilder ----------------------------
(***************************************************************************)
(* libportal's XdpRestorePolicy: a policy object filled by setters, read   *)
(* back by getters, and put on the wire by select_sources.  requested      *)
(* records what the application asked the setters for, last call winning.  *)
(***************************************************************************)
EXTENDS RestoreActions

CONSTANTS
  RawActions   \* values an application passes for an action, beyond the enumeration too

ASSUME BuilderAssumption == RawActions \subseteq Nat

VARIABLES
  policy,     \* XdpRestorePolicy: has_default_action, default_action, actions
  requested   \* the wire policy the application's calls spell out

vars == <<policy, requested>>

NoActions == [r \in {} |-> Prompt]

\* xdp_restore_policy_new.
Init ==
  /\ policy = [hasDefault |-> FALSE, default |-> Prompt, actions |-> NoActions]
  /\ requested = [default |-> Absent, actions |-> NoActions]

NormalizeRestoreAction(a) == IF a > Error THEN Prompt ELSE a

Insert(f, key, value) == [r \in DOMAIN f \cup {key} |-> IF r = key THEN value ELSE f[r]]

SetDefaultAction(a) ==
  /\ policy' = [policy EXCEPT !.hasDefault = TRUE, !.default = NormalizeRestoreAction(a)]
  /\ requested' = [requested EXCEPT !.default = a]

SetAction(reason, a) ==
  /\ policy' = [policy EXCEPT !.actions = Insert(@, reason, NormalizeRestoreAction(a))]
  /\ requested' = [requested EXCEPT !.actions = Insert(@, reason, a)]

Next ==
  \/ \E a \in RawActions : SetDefaultAction(a)
  \/ \E reason \in Reasons, a \in RawActions : SetAction(reason, a)

Spec == Init /\ [][Next]_vars

GetDefaultAction(p) == IF p.hasDefault THEN p.default ELSE Prompt

GetAction(p, reason) ==
  IF reason \in DOMAIN p.actions THEN p.actions[reason] ELSE GetDefaultAction(p)

\* What select_sources sends: a prompt default is left out when there is nothing to override.
Wire(p) ==
  LET hasActions == DOMAIN p.actions # {}
  IN  [default |-> IF p.hasDefault /\ (p.default # Prompt \/ hasActions)
                   THEN p.default ELSE Absent,
       actions |-> p.actions]

(***************************************************************************)
(* Properties.                                                             *)
(***************************************************************************)

\* The object holds known actions only, under known reasons; what was asked for is a policy the
\* front end's validators would let through.
TypeOK ==
  /\ policy.hasDefault \in BOOLEAN
  /\ policy.default \in Known
  /\ DOMAIN policy.actions \subseteq Reasons
  /\ \A reason \in DOMAIN policy.actions : policy.actions[reason] \in Known
  /\ IsWirePolicy(requested)

\* The three resolvers take the same action for every reason, whatever values the application
\* asked for: the front end, the backend and the mock never disagree about one policy.
ResolversAgree ==
  \A reason \in Reasons :
    /\ XdpAction(requested, reason) = MockAction(requested, reason)
    /\ XdpAction(requested, reason) = CosmicAction(requested, reason)

\* What an application reads back from its policy object is what the front end will do with the
\* object on the wire, the omitted prompt default included.
WireMeansWhatGettersSay ==
  \A reason \in Reasons : XdpAction(Wire(policy), reason) = GetAction(policy, reason)

==============================================================================
