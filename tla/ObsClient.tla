------------------------------- MODULE ObsClient -------------------------------
(***************************************************************************)
(* What OBS puts into SelectSources: the plugin's select_source and the    *)
(* mock crate's ObsClientModel of it, written in two languages.            *)
(*                                                                         *)
(* A source's settings are its name, its restore token, the restore action *)
(* and the lines of its alias text; an empty string is "".  An option that *)
(* is not sent is Absent.                                                  *)
(***************************************************************************)
EXTENDS MatchRules

ExtensionVersion == 6

\* A source without saved values: its restore action is skip.
New(name) == [name |-> name, token |-> "", action |-> Skip, aliases |-> <<>>]

NoOptions == [token |-> Absent, label |-> Absent, policy |-> Absent, rules |-> Absent]

DefaultOnly(action) == [default |-> action, actions |-> <<>>]

OrAbsent(sent, value) == IF sent THEN value ELSE Absent

(***************************************************************************)
(* ObsClientModel::select_sources_options.                                 *)
(***************************************************************************)
\* Mutant: the policy is not tied to the token.
OptionsWithoutToken(settings, version) ==
  LET extended == version >= ExtensionVersion
      rules    == ParseRestoreMatchRulesText(settings.aliases)
  IN  [token  |-> OrAbsent(settings.token # "", settings.token),
       label  |-> OrAbsent(extended /\ settings.name # "", settings.name),
       policy |-> OrAbsent(extended, DefaultOnly(settings.action)),
       rules  |-> OrAbsent(extended /\ rules # <<>>, rules)]

SelectSourcesOptions(settings, version) ==
  LET extended  == version >= ExtensionVersion
      restoring == extended /\ settings.token # ""
      rules     == ParseRestoreMatchRulesText(settings.aliases)
  IN  [token  |-> OrAbsent(settings.token # "", settings.token),
       label  |-> OrAbsent(extended /\ settings.name # "", settings.name),
       policy |-> OrAbsent(restoring, DefaultOnly(settings.action)),
       rules  |-> OrAbsent(restoring /\ rules # <<>>, rules)]

(***************************************************************************)
(* The plugin: the token goes to every version of the portal.              *)
(***************************************************************************)
PluginOptions(settings, version) ==
  LET base == [NoOptions EXCEPT !.token = OrAbsent(settings.token # "", settings.token)]
      labelled == [base EXCEPT !.label = OrAbsent(settings.name # "", settings.name)]
      added == AddRestoreMatchRules(settings.aliases)
  IN  IF version < ExtensionVersion THEN base
      ELSE IF settings.token = "" THEN labelled
      ELSE [labelled EXCEPT !.policy = DefaultOnly(settings.action),
                            !.rules = OrAbsent(added # <<>>, added)]
==============================================================================
