---------------------------- MODULE ScreencastCall ----------------------------
(***************************************************************************)
(* libportal's xdp_portal_create_screencast_session_full, from the call to *)
(* the result the application is given, while the application goes on      *)
(* using its policy object.                                                *)
(*                                                                         *)
(* The options go out in select_sources, which the portal's version and a  *)
(* CreateSession come before.  An option that is not sent is Absent, and a *)
(* label that is not sent is empty.                                        *)
(***************************************************************************)
EXTENDS PolicyBuilder, SourceLabel

CONSTANTS
  Inputs,    \* pairs of a token, or Absent for NULL, and a label
  Versions   \* of the portal

ASSUME CallAssumption == \A in \in Inputs : in.label \in Seq(Char)

VARIABLES
  version,   \* screencast_interface_version, 0 before it is known
  call,      \* the CreateCall, or StartCall
  given      \* what the application gave: its label, and what the getters said of its policy

callVars == <<policy, requested, version, call, given>>

NoCall == [at |-> "none"]

CallInit ==
  /\ Init
  /\ version \in Versions \cup {0}
  /\ call = NoCall
  /\ given = [label |-> <<>>, says |-> [reason \in Reasons |-> Prompt]]

\* Setters, at any moment.
UsePolicy == Next /\ UNCHANGED <<version, call, given>>

GettersSay == [reason \in Reasons |-> GetAction(policy, reason)]

Refuse == call' = [at |-> "ended", result |-> "invalid_argument"]

CreateScreencastSessionFull(in, withPolicy) ==
  /\ call.at = "none"
  /\ \/ ~ LibportalAccepts(in.label) /\ Refuse
     \/ /\ LibportalAccepts(in.label)
        /\ call' = [at |-> "created", token |-> in.token, label |-> in.label,
                    policy |-> IF withPolicy THEN policy ELSE Absent]
  /\ given' = [label |-> in.label, says |-> GettersSay]
  /\ UNCHANGED <<policy, requested, version>>

GetScreencastInterfaceVersion ==
  /\ call.at = "created" /\ version = 0
  /\ version' \in Versions
  /\ UNCHANGED <<policy, requested, call, given>>

\* Mutant: the call has kept the application's object instead of a copy.
SharedPolicy == IF call.policy = Absent THEN Absent ELSE Wire(policy)

SentPolicy == IF call.policy = Absent THEN Absent ELSE Wire(call.policy)

SelectSources ==
  /\ call.at = "created" /\ version # 0
  /\ LET extended == version >= 6
     IN  call' = [at |-> "selecting",
                  label  |-> IF extended THEN call.label ELSE <<>>,
                  policy |-> IF extended /\ call.token # Absent THEN SentPolicy ELSE Absent]
  /\ UNCHANGED <<policy, requested, version, given>>

\* sources_selected and session_started: both errors carry the text of a restore_failure, if any.
ErrorOf(code) == IF code = 1 THEN "cancelled" ELSE "failed"

Answer(code, success) ==
  call' = IF code = 0 THEN success ELSE [at |-> "ended", result |-> ErrorOf(code)]

SourcesSelected(code) ==
  /\ call.at = "selecting"
  /\ Answer(code, [at |-> "session"])
  /\ UNCHANGED <<policy, requested, version, given>>

SessionStarted(code) ==
  /\ call.at = "session"
  /\ Answer(code, [at |-> "ended", result |-> "started"])
  /\ UNCHANGED <<policy, requested, version, given>>

CallNext ==
  \/ UsePolicy
  \/ \E in \in Inputs, withPolicy \in BOOLEAN : CreateScreencastSessionFull(in, withPolicy)
  \/ GetScreencastInterfaceVersion
  \/ SelectSources
  \/ \E code \in 0..2 : SourcesSelected(code) \/ SessionStarted(code)

CallSpec == CallInit /\ [][CallNext]_callVars

(***************************************************************************)
(* Properties.                                                             *)
(***************************************************************************)

\* The policy that goes out means what its getters said when the application made the call, whatever
\* it has done with the object since: the front end will act on each reason as they said.
SentAsRead ==
  (call.at = "selecting" /\ call.policy # Absent) =>
    \A reason \in Reasons : XdpAction(call.policy, reason) = given.says[reason]

\* Both pickers show the same label, also when one has to be cut.  A label that libportal sends is
\* not refused by the front end, and reaches the pickers whole but for its control characters.
PickersShowTheLabel ==
  /\ SanitizeLabel(given.label) = SanitizeSourceLabel(given.label)
  /\ (call.at = "selecting" /\ version >= 6) =>
       ValidateSourceLabel(call.label) /\ SanitizeSourceLabel(call.label) = Cleaned(given.label)
==============================================================================
