----------------------------- MODULE RestoreSystem -----------------------------
(***************************************************************************)
(* The life of restore tokens, across the programs that handle them: OBS   *)
(* sources that keep a token each, the front end (xdg-desktop-portal) that *)
(* exchanges it for restore data, the permission store, and the COSMIC     *)
(* backend, here only what StartContract leaves of it.                     *)
(*                                                                         *)
(* The front end handles calls in threads and talks to the store in a call *)
(* for the lookup and another for the deletion.  A restored session keeps  *)
(* its token's name, and a success stores the new data under it.           *)
(*                                                                         *)
(* Two sources may begin with one token, as copies of a source do.         *)
(***************************************************************************)
EXTENDS ObsClient

CONSTANTS
  Clients,      \* OBS sources
  Beginnings,   \* settings the sources may begin with, a function on Clients each
  LongNames,    \* names of more than 256 bytes
  Version,      \* the portal's version, as OBS sees it
  OldToken,     \* the token that sources begin with
  NewTokens     \* the tokens the front end issues, in this order

\* A token is a fresh UUID, so that no two are the same.
ASSUME RestoreSystemAssumption ==
  /\ Version \in Nat
  /\ OldToken \notin ToSet(NewTokens) /\ "" \notin ToSet(NewTokens) \cup {OldToken}
  /\ NewTokens \in Seq(ToSet(NewTokens))
  /\ \A i, j \in DOMAIN NewTokens : NewTokens[i] = NewTokens[j] => i = j

Names == {b[c].name : b \in Beginnings, c \in Clients}
Texts == {b[c].aliases : b \in Beginnings, c \in Clients}

\* A source's settings, with one of these tokens.
SettingsOf(tokens) == [name : Names, token : tokens, action : Known, aliases : Texts]

ASSUME BeginningsAssumption == Beginnings \subseteq [Clients -> SettingsOf({"", OldToken})]

Issued == ToSet(NewTokens)
Tokens == Issued \cup {OldToken}

\* What the store has for a token: nothing, an entry that no longer grants, a grant without data, or
\* data.  COSMIC decodes "plain" data and data with an "alias" that needs consent, but not "foreign";
\* "malformed" data, of no type the front end could pass on, never gets to it.
Data    == {"plain", "alias", "foreign", "malformed"}
Entries == {"none", "revoked", "empty"} \cup Data

\* restore_failure, as the front end and COSMIC fill it.
Failure(why, action, invalid) == [reason |-> why, action |-> action, token_invalid |-> invalid]

\* What is missing is none of the values that could be there.
ASSUME AbsentAssumption ==
  /\ Absent \notin Tokens \cup Entries \cup Reasons
  /\ \A action \in Known : Absent # DefaultOnly(action)
  /\ \A why \in Reasons, action \in Known, invalid \in BOOLEAN : Absent # Failure(why, action, invalid)

VARIABLES
  store,      \* the permission store
  issued,     \* how many tokens have been issued
  settings,   \* each source's settings, its token among them
  at,         \* where its session is
  options,    \* what its SelectSources carried
  reason,     \* XdpSessionRestoreFailureReason
  data,       \* the restore data of its session
  response,   \* the last Response
  silent      \* failures in a row that left it with a useless token and without a word

sessionVars == <<options, reason, data, response, silent>>
systemVars  == <<store, issued, settings, at, options, reason, data, response, silent>>

NoResponse == [code |-> 0, failure |-> Absent, token |-> Absent, phase |-> "none"]

Init ==
  /\ store \in {[t \in Tokens |-> IF t = OldToken THEN entry ELSE "none"] : entry \in Entries}
  /\ issued = 0
  /\ settings \in Beginnings
  /\ at = [c \in Clients |-> "idle"]
  /\ options = [c \in Clients |-> NoOptions]
  /\ reason = [c \in Clients |-> Absent]
  /\ data = [c \in Clients |-> Absent]
  /\ response = [c \in Clients |-> NoResponse]
  /\ silent = [c \in Clients |-> 0]

Go(c, from, to) == at[c] = from /\ at' = [at EXCEPT ![c] = to]

Respond(c, from, code, failure, phase) ==
  /\ Go(c, from, "responded")
  /\ response' = [response EXCEPT ![c] =
       [code |-> code, failure |-> failure, token |-> Absent, phase |-> phase]]

(***************************************************************************)
(* OBS calls SelectSources.  The front end first filters the options: the  *)
(* call is refused, and nothing changes, if there is one it cannot accept. *)
(***************************************************************************)
ValidateSourceLabel(label) == label \notin LongNames

Accepted(opts) ==
  /\ opts.label # Absent => ValidateSourceLabel(opts.label)
  /\ opts.rules # Absent => FrontEndAccepts(opts.rules)

SelectSource(c) ==
  /\ at[c] = "idle"
  /\ LET opts == PluginOptions(settings[c], Version)
     IN  /\ Accepted(opts)
         /\ options' = [options EXCEPT ![c] = opts]
         /\ Go(c, "idle", IF opts.token = Absent THEN "forwarded" ELSE "looking")
  /\ UNCHANGED <<issued, store, settings, reason, data, response, silent>>

(***************************************************************************)
(* The front end exchanges the token for data.                             *)
(***************************************************************************)
\* Mutant: the comparison with XDP_PERMISSION_YES is the wrong way round.
InvertedTristate(entry) ==
  IF entry = "none" THEN "token_not_found"
  ELSE IF entry = "revoked" THEN Absent ELSE "permission_revoked"

LookupReason(entry) ==
  CASE entry = "none"    -> "token_not_found"
    [] entry = "revoked" -> "permission_revoked"
    [] entry = "empty"   -> "token_consumed"
    [] OTHER             -> Absent

LookupPersistent(c) ==
  /\ at[c] = "looking"
  /\ LET entry == store[options[c].token]
         why   == LookupReason(entry)
     IN  /\ reason' = [reason EXCEPT ![c] = why]
         /\ data' = [data EXCEPT ![c] = IF why = Absent THEN entry ELSE Absent]
         /\ Go(c, "looking", IF why = Absent THEN "deleting" ELSE "missing")
  /\ UNCHANGED <<issued, store, settings, options, response, silent>>

\* Data that cannot be passed on is deleted all the same, and counts as consumed.
DeletePersistent(c) ==
  /\ at[c] = "deleting"
  /\ store' = [store EXCEPT ![options[c].token] = "none"]
  /\ \/ /\ data[c] # "malformed"
        /\ Go(c, "deleting", "forwarded")
        /\ UNCHANGED <<reason, data>>
     \/ /\ data[c] = "malformed"
        /\ Go(c, "deleting", "missing")
        /\ reason' = [reason EXCEPT ![c] = "token_consumed"]
        /\ data' = [data EXCEPT ![c] = Absent]
  /\ UNCHANGED <<issued, settings, options, response, silent>>

(***************************************************************************)
(* A token without data, under skip or error, is answered by the front end *)
(* itself, and the session closed.  Otherwise the call goes on without it. *)
(***************************************************************************)
PolicyOf(c) == IF options[c].policy = Absent THEN DefaultOnly(Absent) ELSE options[c].policy

\* Mutant: it asks whether there was a token once the token has been taken out of the options.
HadTokenAfter(c) == data[c] # Absent

HadRestoreToken(c) == options[c].token # Absent

\* Mutant: only a consumed token is invalid.
InvalidIfConsumed(why) == why = "token_consumed"

TokenInvalid(why) == TRUE

ApplyPolicy(c) ==
  LET why    == reason[c]
      action == XdpAction(PolicyOf(c), why)
  IN  /\ \/ /\ HadRestoreToken(c) /\ action # Prompt
            /\ Respond(c, "missing", action, Failure(why, action, TokenInvalid(why)), "select")
         \/ /\ ~ (HadRestoreToken(c) /\ action # Prompt)
            /\ Go(c, "missing", "forwarded")
            /\ UNCHANGED response
      /\ UNCHANGED <<issued, store, settings, options, reason, data, silent>>

(***************************************************************************)
(* COSMIC's SelectSources, and Start.                                      *)
(***************************************************************************)
Decoded(c) == data[c] \in {"plain", "alias"}

BackendSelect(c) ==
  LET action == CosmicAction(PolicyOf(c), "token_not_found")
      fails  == data[c] = "foreign" /\ action # Prompt
  IN  /\ \/ ~ fails /\ Go(c, "forwarded", "ready") /\ UNCHANGED response
         \/ fails /\ action = Skip /\ Respond(c, "forwarded", 1, Absent, "select")
         \/ fails /\ action = Error
              /\ Respond(c, "forwarded", 2, Failure("token_not_found", Error, TRUE), "select")
      /\ UNCHANGED <<issued, store, settings, options, reason, data, silent>>

Start(c) == Go(c, "ready", "deciding") /\ UNCHANGED <<issued, store, settings, sessionVars>>

ActionInStart(c) == CosmicAction(PolicyOf(c), "source_unavailable")

\* Windows come and go at any moment, so they leave open which of these three a Start does.
Restore(c) ==
  /\ Decoded(c)
  /\ Go(c, "deciding", "granted")
  /\ UNCHANGED <<issued, store, settings, sessionVars>>

\* Mutant: the picker opens whenever nothing is restored, as it did before there were policies.
PickerAlways(c) == Go(c, "deciding", "asking") /\ UNCHANGED <<issued, store, settings, sessionVars>>

OpenPicker(c) ==
  /\ \/ ~ Decoded(c)
     \/ ActionInStart(c) = Prompt
     \/ data[c] = "alias"
  /\ Go(c, "deciding", "asking")
  /\ UNCHANGED <<issued, store, settings, sessionVars>>

NoRescue(c) ==
  /\ Decoded(c)
  /\ LET action == ActionInStart(c)
     IN  \/ action = Skip /\ Respond(c, "deciding", 1, Absent, "start")
         \/ action = Error /\ Respond(c, "deciding", 2, Failure("source_unavailable", Error, FALSE), "start")
  /\ UNCHANGED <<issued, store, settings, options, reason, data, silent>>

Pick(c)    == Go(c, "asking", "granted") /\ UNCHANGED <<issued, store, settings, sessionVars>>
Dismiss(c) == Respond(c, "asking", 1, Absent, "start") /\ UNCHANGED <<issued, store, settings, options, reason, data, silent>>

(***************************************************************************)
(* Success, the front end's part of which is not in the patch: it stores   *)
(* the backend's new data under the session's token or else under a new    *)
(* one.  The backend may have no data to give, and streams may fail.       *)
(***************************************************************************)
Stored(c, token, entry) ==
  /\ store' = [store EXCEPT ![token] = entry]
  /\ response' = [response EXCEPT ![c] =
       [code |-> 0, failure |-> Absent, token |-> token, phase |-> "start"]]

StoreToken(c) ==
  /\ Go(c, "granted", "responded")
  /\ \E entry \in {"plain", "alias"} :
       \/ data[c] # Absent /\ Stored(c, options[c].token, entry) /\ UNCHANGED issued
       \/ /\ data[c] = Absent /\ issued < Len(NewTokens)
          /\ issued' = issued + 1
          /\ Stored(c, NewTokens[issued'], entry)
  /\ UNCHANGED <<settings, options, reason, data, silent>>

EndWithoutToken(c) ==
  /\ \E code \in {0, 2} : Respond(c, "granted", code, Absent, "start")
  /\ UNCHANGED <<issued, store, settings, options, reason, data, silent>>

(***************************************************************************)
(* OBS hears the Response.                                                 *)
(***************************************************************************)
\* handle_restore_failure: the token goes if the portal calls it invalid.
Discards(answer) == answer.code # 0 /\ answer.failure # Absent /\ answer.failure.token_invalid

TokenAfter(c) ==
  IF response[c].token # Absent THEN response[c].token
  ELSE IF Discards(response[c]) THEN "" ELSE settings[c].token

\* Without a word: OBS keeps a token that the store no longer has.
IsSilent(c) ==
  /\ response[c].code # 0
  /\ TokenAfter(c) \in Issued
  /\ store[TokenAfter(c)] \notin Data
  /\ PolicyOf(c).default \in {Skip, Error}

Hear(c) ==
  /\ Go(c, "responded", "idle")
  /\ settings' = [settings EXCEPT ![c].token = TokenAfter(c)]
  /\ silent' = [silent EXCEPT ![c] = IF IsSilent(c) THEN @ + 1 ELSE 0]
  /\ options' = [options EXCEPT ![c] = NoOptions]
  /\ reason' = [reason EXCEPT ![c] = Absent]
  /\ data' = [data EXCEPT ![c] = Absent]
  /\ response' = [response EXCEPT ![c] = NoResponse]
  /\ UNCHANGED <<issued, store>>

\* The user opens the selector again: OBS drops the token.
OpenSelector(c) ==
  /\ at[c] = "idle"
  /\ settings' = [settings EXCEPT ![c].token = ""]
  /\ silent' = [silent EXCEPT ![c] = 0]
  /\ UNCHANGED <<issued, store, at, options, reason, data, response>>

\* The user edits the source.  Only select_source reads the action, so an edit during a session is
\* no different from one after it.
Update(c) ==
  /\ at[c] = "idle"
  /\ \E action \in Known : settings' = [settings EXCEPT ![c].action = action]
  /\ UNCHANGED <<issued, store, at, sessionVars>>

\* The user takes a permission back.
Revoke(token) ==
  /\ store[token] \in Data \cup {"empty"}
  /\ store' = [store EXCEPT ![token] = "revoked"]
  /\ UNCHANGED <<issued, settings, at, sessionVars>>

Next ==
  \/ \E c \in Clients :
       \/ SelectSource(c) \/ LookupPersistent(c) \/ DeletePersistent(c) \/ ApplyPolicy(c)
       \/ BackendSelect(c) \/ Start(c) \/ Restore(c) \/ OpenPicker(c) \/ NoRescue(c)
       \/ Pick(c) \/ Dismiss(c) \/ StoreToken(c) \/ EndWithoutToken(c)
       \/ Hear(c) \/ OpenSelector(c) \/ Update(c)
  \/ \E token \in Tokens : Revoke(token)

Spec == Init /\ [][Next]_systemVars

(***************************************************************************)
(* Properties.                                                             *)
(***************************************************************************)

\* Every variable stays in its type.
TypeOK ==
  /\ store \in [Tokens -> Entries]
  /\ issued \in 0..Len(NewTokens)
  /\ \A c \in Clients : settings[c].token \in Tokens \cup {""} /\ settings[c].action \in Known
  /\ reason \in [Clients -> Reasons \cup {Absent}]
  /\ data \in [Clients -> Data \cup {Absent}]
  /\ \A c \in Clients : response[c].token \in Tokens \cup {Absent}
  /\ silent \in [Clients -> 0..2]

\* A user who configured skip or error for a source with a token is not shown a picker, whichever of
\* the programs notices the failure, unless the token itself holds an alias that needs consent, or
\* the portal is too old to hear of it.
PickerWithReason ==
  \A c \in Clients :
    (at[c] = "asking" /\ options[c].token # Absent /\ Version >= ExtensionVersion) =>
      options[c].policy.default = Prompt \/ data[c] = "alias"

\* "Applications SHOULD discard the token": one that OBS is told to discard could not have been
\* restored by anyone, as far as the portal issued it to this source alone.
InvalidMeansGone ==
  \A c \in Clients :
    (at[c] = "responded" /\ Discards(response[c]) /\ options[c].token \in Issued) =>
      store[options[c].token] \notin Data

\* No source fails for ever without a word: a failure that leaves OBS with a useless token under
\* skip or error is followed by one that says so.
UselessTokenIsReported == \A c \in Clients : silent[c] < 2

\* token_invalid is "true when applications SHOULD discard the token; false for temporarily
\* unavailable restored sources": a token OBS is told to keep can be restored when its source is back.
KeptTokenIsRestorable ==
  \A c \in Clients :
    (at[c] = "responded" /\ response[c].failure # Absent /\ ~ response[c].failure.token_invalid) =>
      store[options[c].token] \in Data \cup {"revoked"}

(***************************************************************************)
(* The contract of a Start, seen from the client.                          *)
(***************************************************************************)
ContractAt(c) ==
  IF at[c] \in {"deciding", "asking", "granted"} THEN at[c]
  ELSE IF at[c] # "responded" THEN "selecting"
  ELSE IF response[c].phase = "select" THEN "refused" ELSE "done"

ContractTerms(c) ==
  [restoring |-> Decoded(c), action |-> ActionInStart(c), consent |-> data[c] = "alias"]

CodeNames == <<"success", "cancelled", "other">>

ContractAnswer(c) ==
  IF at[c] # "responded" THEN [code |-> "none", failure |-> FALSE]
  ELSE [code |-> CodeNames[response[c].code + 1], failure |-> response[c].failure # Absent]

Contract ==
  INSTANCE StartContract WITH
    Sessions <- Clients,
    at       <- [c \in Clients |-> ContractAt(c)],
    terms    <- [c \in Clients |-> ContractTerms(c)],
    answer   <- [c \in Clients |-> ContractAnswer(c)]

\* The client sees the contract kept by the chain of programs: also with the policy resolved by two of
\* them, the settings edited and the token revoked in between.
KeepsContract == Contract!Spec
==============================================================================
