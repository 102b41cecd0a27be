------------------------- MODULE RestoreSystemProofs -------------------------
(***************************************************************************)
(* The life of restore tokens, for any number of OBS sources, any settings *)
(* they begin with, any tokens and any version of the portal.              *)
(*                                                                         *)
(* The argument is one of ownership: a token the front end has issued is   *)
(* kept by one source only.  So nobody else's success can put data behind  *)
(* it between the failure that a source is told of and the moment it drops *)
(* the token, and a source without data cannot come by any unnoticed.      *)
(***************************************************************************)
EXTENDS RestoreSystem, SharedProofs, SequenceTheorems

Settings  == SettingsOf(Tokens \cup {""})
Options   == {NoOptions} \cup {PluginOptions(s, Version) : s \in Settings}
Failures  == {Failure(why, action, invalid) : why \in Reasons, action \in Known, invalid \in BOOLEAN}
Responses ==
  [code : 0..2, failure : Failures \cup {Absent}, token : Tokens \cup {Absent},
   phase : {"none", "select", "start"}]

Resolving == {"looking", "deleting", "missing"}
Underway  == {"forwarded", "ready", "deciding", "asking", "granted"}
Places    == {"idle", "responded"} \cup Resolving \cup Underway

TypeInv ==
  /\ store \in [Tokens -> Entries]
  /\ issued \in 0..Len(NewTokens)
  /\ settings \in [Clients -> Settings]
  /\ at \in [Clients -> Places]
  /\ options \in [Clients -> Options]
  /\ reason \in [Clients -> Reasons \cup {Absent}]
  /\ data \in [Clients -> Data \cup {Absent}]
  /\ response \in [Clients -> Responses]
  /\ silent \in [Clients -> Nat]

\* What the programs do with a session whose token cannot be restored: OBS sends a default only, and
\* none to a portal that is too old.
ActionOf(c) == IF options[c].policy = Absent THEN Prompt ELSE options[c].policy.default

\* A session is set up from the settings as they are, and answered once.
SessionInv ==
  \A c \in Clients :
    /\ options[c] = IF at[c] = "idle" THEN NoOptions ELSE PluginOptions(settings[c], Version)
    /\ at[c] # "responded" => response[c] = NoResponse
    /\ response[c].code # 0 => response[c].token = Absent

\* What the look-up has found, and how far a session comes without it.
LookupInv ==
  \A c \in Clients :
    /\ at[c] \in Resolving \/ data[c] # Absent => options[c].token # Absent
    /\ at[c] \in {"idle", "looking", "missing"} => data[c] = Absent
    /\ at[c] = "deleting" => data[c] # Absent
    /\ data[c] = "malformed" => at[c] = "deleting"
    /\ at[c] = "missing" => reason[c] # Absent
    /\ (at[c] \in Underway /\ options[c].token # Absent /\ data[c] = Absent) => ActionOf(c) = Prompt
    /\ (at[c] \in Underway \ {"forwarded"} /\ data[c] = "foreign") => ActionOf(c) = Prompt
    /\ (at[c] = "asking" /\ options[c].token # Absent) => ActionOf(c) = Prompt \/ data[c] = "alias"

\* The issued tokens a source keeps, or is about to.
Held(c) == {settings[c].token, response[c].token} \cap Issued

\* A token is issued before anybody has it, and kept by one source.
OwnInv ==
  /\ \A c \in Clients : Held(c) \subseteq {NewTokens[i] : i \in 1..issued}
  /\ \A c, d \in Clients : c # d => Held(c) \cap Held(d) = {}

\* Once its token has been looked up, there is nothing behind it until the session succeeds.
GoneInv ==
  \A c \in Clients :
    (/\ options[c].token \in Issued
     /\ at[c] \in Underway \cup {"missing"} \/ (at[c] = "responded" /\ response[c].token = Absent))
      => store[options[c].token] \notin Data

\* A source that has failed without a word has a token with nothing behind it, and is either told of
\* it by the next failure or sees the picker.
SilentInv ==
  \A c \in Clients :
    /\ silent[c] \in {0, 1}
    /\ silent[c] = 1 =>
         /\ settings[c].token \in Issued
         /\ data[c] = Absent
         /\ at[c] \in {"idle", "looking"} => store[settings[c].token] \notin Data
         /\ at[c] = "responded" => Discards(response[c]) \/ ActionOf(c) = Prompt

IInv == TypeInv /\ SessionInv /\ LookupInv /\ OwnInv /\ GoneInv /\ SilentInv

(***************************************************************************)
(* Constants, options and policies.                                        *)
(***************************************************************************)

\* The issued tokens are the new ones in order, and none of them is a stand-in.
LEMMA IssuedTokens ==
  /\ Len(NewTokens) \in Nat
  /\ Issued = {NewTokens[i] : i \in 1..Len(NewTokens)}
  /\ \A i, j \in 1..Len(NewTokens) : NewTokens[i] = NewTokens[j] => i = j
  /\ Issued \subseteq Tokens /\ OldToken \in Tokens
  /\ "" \notin Tokens /\ OldToken \notin Issued /\ Absent \notin Tokens
<1>1. NewTokens \in Seq(ToSet(NewTokens))
  BY RestoreSystemAssumption
<1>2. Len(NewTokens) \in Nat /\ DOMAIN NewTokens = 1..Len(NewTokens)
  BY <1>1
<1> QED BY <1>2, RestoreSystemAssumption, AbsentAssumption DEF Issued, Tokens, ToSet

\* What OBS sends: the token if there is one, and with it, to a new portal, a default action.
LEMMA Sent ==
  ASSUME NEW s \in Settings
  PROVE  /\ PluginOptions(s, Version).token = IF s.token = "" THEN Absent ELSE s.token
         /\ PluginOptions(s, Version).policy =
              IF Version < ExtensionVersion \/ s.token = "" THEN Absent ELSE DefaultOnly(s.action)
         /\ s.token \in Tokens \cup {""} /\ s.action \in Known
<1>1. s.token \in Tokens \cup {""} /\ s.action \in Known
  BY DEF Settings, SettingsOf
<1>2. PluginOptions(s, Version).token = IF s.token = "" THEN Absent ELSE s.token
  BY DEF PluginOptions, NoOptions, OrAbsent
<1>3. PluginOptions(s, Version).policy =
              IF Version < ExtensionVersion \/ s.token = "" THEN Absent ELSE DefaultOnly(s.action)
  BY DEF PluginOptions, NoOptions, OrAbsent
<1> QED BY <1>1, <1>2, <1>3

\* Both resolvers do what the one action says that OBS has sent, whatever the reason.
LEMMA OneAction ==
  ASSUME TypeInv, NEW c \in Clients
  PROVE  /\ ActionOf(c) \in Known
         /\ \A why : XdpAction(PolicyOf(c), why) = ActionOf(c)
         /\ \A why : CosmicAction(PolicyOf(c), why) = ActionOf(c)
         /\ PolicyOf(c).default \in {Skip, Error} => ActionOf(c) # Prompt
<1>1. options[c].policy = Absent \/ \E action \in Known : options[c].policy = DefaultOnly(action)
  <2>1. options[c] \in Options
    BY DEF TypeInv
  <2>2. CASE options[c] = NoOptions
    BY <2>2 DEF NoOptions
  <2>3. CASE \E s \in Settings : options[c] = PluginOptions(s, Version)
    BY <2>3, Sent
  <2> QED BY <2>1, <2>2, <2>3 DEF Options
<1>2. CASE options[c].policy = Absent
  <2>1. PolicyOf(c) = [default |-> Absent, actions |-> <<>>]
    BY <1>2 DEF PolicyOf, DefaultOnly
  <2>2. PolicyOf(c).default = Absent /\ DOMAIN PolicyOf(c).actions = {}
    BY <2>1
  <2> QED BY <1>2, <2>2, RestoreActionsAssumption
          DEF ActionOf, XdpAction, CosmicAction, FilterAction, Known, Prompt, Skip, Error
<1>3. CASE \E action \in Known : options[c].policy = DefaultOnly(action)
  <2>1. PICK action \in Known : options[c].policy = DefaultOnly(action)
    BY <1>3
  <2>2. options[c].policy # Absent
    BY <2>1, AbsentAssumption
  <2>3. PolicyOf(c) = [default |-> action, actions |-> <<>>]
    BY <2>1, <2>2 DEF PolicyOf, DefaultOnly
  <2>4. PolicyOf(c).default = action /\ DOMAIN PolicyOf(c).actions = {} /\ ActionOf(c) = action
    BY <2>1, <2>2, <2>3 DEF ActionOf, DefaultOnly
  <2> QED BY <2>4, RestoreActionsAssumption
          DEF XdpAction, CosmicAction, FilterAction, Known, Prompt, Skip, Error
<1> QED BY <1>1, <1>2, <1>3

(***************************************************************************)
(* Type correctness, but for the counter.                                  *)
(***************************************************************************)
LEMMA NoResponseType == NoResponse \in Responses
BY DEF NoResponse, Responses

LEMMA NoOptionsType == NoOptions \in Options
BY DEF Options

LEMMA SettingsType == Init => settings \in [Clients -> Settings]
<1> SUFFICES ASSUME Init PROVE settings \in [Clients -> Settings]
  OBVIOUS
<1>1. settings \in [Clients -> SettingsOf({"", OldToken})]
  BY BeginningsAssumption DEF Init
<1>2. SettingsOf({"", OldToken}) \subseteq Settings
  <2>1. {"", OldToken} \subseteq Tokens \cup {""}
    BY DEF Tokens
  <2> QED BY <2>1 DEF SettingsOf, Settings
<1> QED BY <1>1, <1>2

LEMMA InitType == Init => TypeInv
<1> SUFFICES ASSUME Init PROVE TypeInv
  OBVIOUS
<1>1. store \in [Tokens -> Entries]
  BY DEF Init, Entries, Data
<1>2. issued \in 0..Len(NewTokens)
  <2>1. issued = 0
    BY DEF Init
  <2>2. Len(NewTokens) \in Nat
    BY IssuedTokens
  <2> QED BY <2>1, <2>2
<1>3. settings \in [Clients -> Settings]
  BY SettingsType
<1>4. at \in [Clients -> Places]
  BY DEF Init, Places
<1>5. options \in [Clients -> Options]
  BY NoOptionsType DEF Init
<1>6. reason \in [Clients -> Reasons \cup {Absent}] /\ data \in [Clients -> Data \cup {Absent}]
  BY DEF Init
<1>7. response \in [Clients -> Responses]
  BY NoResponseType DEF Init
<1>8. silent \in [Clients -> Nat]
  BY DEF Init
<1> QED BY <1>1, <1>2, <1>3, <1>4, <1>5, <1>6, <1>7, <1>8 DEF TypeInv

\* The answers that refuse or fail a session are well formed.
LEMMA FailureType ==
  ASSUME NEW why \in Reasons, NEW action \in Known, NEW invalid \in BOOLEAN
  PROVE  Failure(why, action, invalid) \in Failures /\ Failure(why, action, invalid) # Absent
BY AbsentAssumption DEF Failures

\* A token in the options is one of the tokens.
LEMMA TokenType ==
  ASSUME TypeInv, NEW c \in Clients
  PROVE  options[c].token \in Tokens \cup {Absent}
<1>1. options[c] = NoOptions \/ \E s \in Settings : options[c] = PluginOptions(s, Version)
  BY DEF TypeInv, Options
<1>2. CASE options[c] = NoOptions
  BY <1>2 DEF NoOptions
<1>3. CASE \E s \in Settings : options[c] = PluginOptions(s, Version)
  BY <1>3, Sent
<1> QED BY <1>1, <1>2, <1>3

\* The look-up finds data, or a reason why there is none.
LEMMA LookupType ==
  ASSUME NEW entry \in Entries
  PROVE  \/ LookupReason(entry) = Absent /\ entry \in Data
         \/ /\ LookupReason(entry) \in {"token_not_found", "permission_revoked", "token_consumed"}
            /\ LookupReason(entry) # Absent /\ entry \notin Data
<1>1. Absent \notin {"token_not_found", "permission_revoked", "token_consumed"}
  BY AbsentAssumption DEF Reasons
<1> QED BY <1>1 DEF LookupReason, Entries, Data

\* OBS ends with its old token, the answer's, or none.
LEMMA TokenAfterType ==
  ASSUME TypeInv, NEW c \in Clients
  PROVE  TokenAfter(c) \in Tokens \cup {""}
<1>1. response[c].token \in Tokens \cup {Absent} /\ settings[c].token \in Tokens \cup {""}
  BY DEF TypeInv, Responses, Settings, SettingsOf
<1> QED BY <1>1 DEF TokenAfter

\* Every action keeps the types, and leaves the sessions of the other sources alone.
Others(c) ==
  \A d \in Clients : d # c =>
    /\ settings'[d] = settings[d] /\ at'[d] = at[d] /\ options'[d] = options[d]
    /\ reason'[d] = reason[d] /\ data'[d] = data[d] /\ response'[d] = response[d]
    /\ silent'[d] = silent[d]

LEMMA SelectType ==
  ASSUME TypeInv, NEW c \in Clients, SelectSource(c)
  PROVE  TypeInv' /\ Others(c) /\ options'[c] = PluginOptions(settings[c], Version)
<1> DEFINE opts == PluginOptions(settings[c], Version)
<1>1. opts \in Options
  BY DEF TypeInv, Options
<1>2. \E place \in {"forwarded", "looking"} : at' = [at EXCEPT ![c] = place]
  BY DEF SelectSource, Go
<1>3. options' = [options EXCEPT ![c] = opts]
  BY DEF SelectSource
<1>4. UNCHANGED <<issued, store, settings, reason, data, response, silent>>
  BY DEF SelectSource
<1> HIDE DEF opts
<1>5. at' \in [Clients -> Places] /\ options' \in [Clients -> Options] /\ options'[c] = opts
  BY <1>1, <1>2, <1>3 DEF TypeInv, Places, Underway, Resolving
<1>6. Others(c)
  BY <1>2, <1>3, <1>4 DEF Others, TypeInv
<1> QED BY <1>4, <1>5, <1>6 DEF TypeInv, opts

LEMMA LookupPersistentType ==
  ASSUME TypeInv, LookupInv, NEW c \in Clients, LookupPersistent(c)
  PROVE  /\ TypeInv' /\ Others(c) /\ options[c].token \in Tokens
         /\ reason'[c] = LookupReason(store[options[c].token])
         /\ data'[c] = IF reason'[c] = Absent THEN store[options[c].token] ELSE Absent
         /\ at'[c] = IF reason'[c] = Absent THEN "deleting" ELSE "missing"
<1> DEFINE entry == store[options[c].token]
           why   == LookupReason(entry)
<1>1. options[c].token \in Tokens
  BY TokenType DEF LookupInv, LookupPersistent, Resolving
<1>2. entry \in Entries
  BY <1>1 DEF TypeInv
<1>3. why \in Reasons \cup {Absent} /\ (why = Absent => entry \in Data)
  BY <1>2, LookupType DEF Reasons
<1>4. /\ reason' = [reason EXCEPT ![c] = why]
      /\ data' = [data EXCEPT ![c] = IF why = Absent THEN entry ELSE Absent]
      /\ at' = [at EXCEPT ![c] = IF why = Absent THEN "deleting" ELSE "missing"]
      /\ UNCHANGED <<issued, store, settings, options, response, silent>>
  BY DEF LookupPersistent, Go
<1> HIDE DEF entry, why
<1>5. reason' \in [Clients -> Reasons \cup {Absent}] /\ reason'[c] = why
  BY <1>3, <1>4 DEF TypeInv
<1>6. data' \in [Clients -> Data \cup {Absent}]
  BY <1>3, <1>4 DEF TypeInv
<1>7. at' \in [Clients -> Places]
  BY <1>4 DEF TypeInv, Places, Resolving
<1>8. Others(c)
  BY <1>4 DEF Others, TypeInv
<1>9. /\ data'[c] = IF reason'[c] = Absent THEN entry ELSE Absent
      /\ at'[c] = IF reason'[c] = Absent THEN "deleting" ELSE "missing"
  BY <1>4, <1>5 DEF TypeInv
<1> QED BY <1>1, <1>4, <1>5, <1>6, <1>7, <1>8, <1>9 DEF TypeInv, entry, why

LEMMA DeletePersistentType ==
  ASSUME TypeInv, LookupInv, NEW c \in Clients, DeletePersistent(c)
  PROVE  /\ TypeInv' /\ Others(c) /\ options[c].token \in Tokens
         /\ at[c] = "deleting" /\ UNCHANGED <<issued, settings, options, response, silent>>
         /\ \/ /\ at'[c] = "forwarded" /\ data[c] # "malformed"
               /\ UNCHANGED <<reason, data>>
            \/ at'[c] = "missing" /\ data'[c] = Absent /\ reason'[c] = "token_consumed"
         /\ store'[options[c].token] = "none"
         /\ \A t \in Tokens : t # options[c].token => store'[t] = store[t]
<1>1. options[c].token \in Tokens
  BY TokenType DEF LookupInv, DeletePersistent, Resolving
<1>2. /\ at[c] = "deleting" /\ UNCHANGED <<issued, settings, options, response, silent>>
      /\ store' = [store EXCEPT ![options[c].token] = "none"]
  BY DEF DeletePersistent
<1>3. /\ store' \in [Tokens -> Entries] /\ store'[options[c].token] = "none"
      /\ \A t \in Tokens : t # options[c].token => store'[t] = store[t]
  BY <1>1, <1>2 DEF TypeInv, Entries
<1>4. CASE data[c] # "malformed" /\ Go(c, "deleting", "forwarded") /\ UNCHANGED <<reason, data>>
  <2>1. at' = [at EXCEPT ![c] = "forwarded"]
    BY <1>4 DEF Go
  <2>2. at' \in [Clients -> Places] /\ at'[c] = "forwarded"
    BY <2>1 DEF TypeInv, Places, Underway
  <2>3. Others(c)
    BY <1>2, <1>4, <2>1 DEF Others, TypeInv
  <2> QED BY <1>1, <1>2, <1>3, <1>4, <2>2, <2>3 DEF TypeInv
<1>5. CASE /\ data[c] = "malformed" /\ Go(c, "deleting", "missing")
           /\ reason' = [reason EXCEPT ![c] = "token_consumed"]
           /\ data' = [data EXCEPT ![c] = Absent]
  <2>1. at' = [at EXCEPT ![c] = "missing"]
    BY <1>5 DEF Go
  <2>2. at' \in [Clients -> Places] /\ at'[c] = "missing"
    BY <2>1 DEF TypeInv, Places, Resolving
  <2>3. reason' \in [Clients -> Reasons \cup {Absent}] /\ reason'[c] = "token_consumed"
    BY <1>5 DEF TypeInv, Reasons
  <2>4. data' \in [Clients -> Data \cup {Absent}] /\ data'[c] = Absent
    BY <1>5 DEF TypeInv
  <2>5. Others(c)
    BY <1>2, <1>5, <2>1 DEF Others, TypeInv
  <2> QED BY <1>1, <1>2, <1>3, <2>2, <2>3, <2>4, <2>5 DEF TypeInv
<1> QED BY <1>4, <1>5 DEF DeletePersistent

\* A step that only moves a session on.
LEMMA MoveType ==
  ASSUME TypeInv, NEW c \in Clients, NEW place \in Places, at' = [at EXCEPT ![c] = place],
         UNCHANGED <<issued, store, settings, sessionVars>>
  PROVE  TypeInv' /\ Others(c) /\ at'[c] = place
<1>1. UNCHANGED <<issued, store, settings, options, reason, data, response, silent>>
  BY DEF sessionVars
<1>2. at' \in [Clients -> Places] /\ at'[c] = place
  BY DEF TypeInv
<1>3. Others(c)
  BY <1>1 DEF Others, TypeInv
<1> QED BY <1>1, <1>2, <1>3 DEF TypeInv

\* A step that only answers a session.
LEMMA RespondType ==
  ASSUME TypeInv, NEW c \in Clients, NEW reply \in Responses,
         at' = [at EXCEPT ![c] = "responded"], response' = [response EXCEPT ![c] = reply],
         UNCHANGED <<issued, store, settings, options, reason, data, silent>>
  PROVE  TypeInv' /\ Others(c) /\ at'[c] = "responded" /\ response'[c] = reply
<1>1. at' \in [Clients -> Places] /\ at'[c] = "responded"
  BY DEF TypeInv, Places
<1>2. response' \in [Clients -> Responses] /\ response'[c] = reply
  BY DEF TypeInv
<1>3. Others(c)
  BY DEF Others, TypeInv
<1> QED BY <1>1, <1>2, <1>3 DEF TypeInv

LEMMA ApplyPolicyType ==
  ASSUME TypeInv, LookupInv, NEW c \in Clients, ApplyPolicy(c)
  PROVE  /\ TypeInv' /\ Others(c) /\ at[c] = "missing"
         /\ UNCHANGED <<issued, store, settings, options, reason, data, silent>>
         /\ \/ /\ at'[c] = "responded" /\ ActionOf(c) \in {Skip, Error}
               /\ response'[c] = [code |-> ActionOf(c), failure |-> Failure(reason[c], ActionOf(c), TRUE),
                                  token |-> Absent, phase |-> "select"]
               /\ response'[c].token = Absent
            \/ at'[c] = "forwarded" /\ response' = response /\ ActionOf(c) = Prompt
<1> DEFINE why    == reason[c]
           action == ActionOf(c)
<1>1. /\ HadRestoreToken(c) <=> options[c].token # Absent
      /\ TokenInvalid(why) = TRUE /\ XdpAction(PolicyOf(c), why) = action /\ action \in Known
  BY OneAction DEF HadRestoreToken, TokenInvalid
<1>2. UNCHANGED <<issued, store, settings, options, reason, data, silent>>
  BY DEF ApplyPolicy
<1>3. CASE HadRestoreToken(c) /\ action # Prompt
           /\ Respond(c, "missing", action, Failure(why, action, TokenInvalid(why)), "select")
  <2>1. at[c] = "missing"
    BY <1>3 DEF Respond, Go
  <2>2. why \in Reasons
    BY <2>1 DEF LookupInv, TypeInv
  <2>3. Failure(why, action, TRUE) \in Failures /\ action \in 0..2 /\ action \in {Skip, Error}
    <3>1. action \in {Skip, Error} /\ action \in 0..2 /\ TRUE \in BOOLEAN
      BY <1>1, <1>3 DEF Known, Prompt, Skip, Error
    <3> QED BY <1>1, <2>2, <3>1, FailureType
  <2>4. Respond(c, "missing", action, Failure(why, action, TRUE), "select")
    BY <1>1, <1>3
  <2> DEFINE reply == [code |-> action, failure |-> Failure(why, action, TRUE), token |-> Absent,
                       phase |-> "select"]
  <2>5. reply \in Responses
    BY <2>3 DEF Responses
  <2>6. at' = [at EXCEPT ![c] = "responded"] /\ response' = [response EXCEPT ![c] = reply]
    BY <2>4 DEF Respond, Go
  <2> HIDE DEF reply
  <2>7. TypeInv' /\ Others(c) /\ at'[c] = "responded" /\ response'[c] = reply
    BY <1>2, <2>5, <2>6, RespondType
  <2>8. response'[c].token = Absent
    BY <2>7 DEF reply
  <2> QED BY <1>2, <2>1, <2>3, <2>7, <2>8 DEF reply
<1>4. CASE /\ ~ (HadRestoreToken(c) /\ action # Prompt)
           /\ Go(c, "missing", "forwarded") /\ response' = response
  <2>1. at[c] = "missing" /\ at' = [at EXCEPT ![c] = "forwarded"]
    BY <1>4 DEF Go
  <2>2. options[c].token # Absent
    BY <2>1 DEF LookupInv, Resolving
  <2>3. "forwarded" \in Places /\ UNCHANGED <<issued, store, settings, sessionVars>>
    BY <1>2, <1>4 DEF Places, Underway, sessionVars
  <2>4. TypeInv' /\ Others(c) /\ at'[c] = "forwarded"
    BY <2>1, <2>3, MoveType
  <2> QED BY <1>1, <1>2, <1>4, <2>1, <2>2, <2>4
<1> QED BY <1>1, <1>3, <1>4 DEF ApplyPolicy

LEMMA BackendSelectType ==
  ASSUME TypeInv, NEW c \in Clients, BackendSelect(c)
  PROVE  /\ TypeInv' /\ Others(c) /\ at[c] = "forwarded"
         /\ UNCHANGED <<issued, store, settings, options, reason, data, silent>>
         /\ \/ /\ at'[c] = "ready" /\ response' = response
               /\ data[c] = "foreign" => ActionOf(c) = Prompt
            \/ /\ at'[c] = "responded" /\ ActionOf(c) = Skip /\ data[c] = "foreign"
               /\ response'[c] = [code |-> 1, failure |-> Absent, token |-> Absent, phase |-> "select"]
            \/ /\ at'[c] = "responded" /\ ActionOf(c) = Error /\ data[c] = "foreign"
               /\ response'[c] = [code |-> 2, failure |-> Failure("token_not_found", Error, TRUE),
                                  token |-> Absent, phase |-> "select"]
<1> DEFINE fails == data[c] = "foreign" /\ ActionOf(c) # Prompt
<1>1. CosmicAction(PolicyOf(c), "token_not_found") = ActionOf(c)
  BY OneAction
<1>2. UNCHANGED <<issued, store, settings, options, reason, data, silent>>
  BY DEF BackendSelect
<1>3. \/ ~ fails /\ Go(c, "forwarded", "ready") /\ response' = response
      \/ fails /\ ActionOf(c) = Skip /\ Respond(c, "forwarded", 1, Absent, "select")
      \/ fails /\ ActionOf(c) = Error
         /\ Respond(c, "forwarded", 2, Failure("token_not_found", Error, TRUE), "select")
  BY <1>1 DEF BackendSelect
<1>4. CASE ~ fails /\ Go(c, "forwarded", "ready") /\ response' = response
  <2>1. at[c] = "forwarded" /\ at' = [at EXCEPT ![c] = "ready"]
    BY <1>4 DEF Go
  <2>2. "ready" \in Places /\ UNCHANGED <<issued, store, settings, sessionVars>>
    BY <1>2, <1>4 DEF Places, Underway, sessionVars
  <2>3. TypeInv' /\ Others(c) /\ at'[c] = "ready"
    BY <2>1, <2>2, MoveType
  <2> QED BY <1>2, <1>4, <2>1, <2>3
<1>5. CASE fails /\ ActionOf(c) = Skip /\ Respond(c, "forwarded", 1, Absent, "select")
  <2> DEFINE reply == [code |-> 1, failure |-> Absent, token |-> Absent,
                       phase |-> "select"]
  <2>2. reply \in Responses
    BY DEF Responses
  <2>3. at[c] = "forwarded" /\ at' = [at EXCEPT ![c] = "responded"] /\ response' = [response EXCEPT ![c] = reply]
    BY <1>5 DEF Respond, Go
  <2> HIDE DEF reply
  <2>4. TypeInv' /\ Others(c) /\ at'[c] = "responded" /\ response'[c] = reply
    BY <1>2, <2>2, <2>3, RespondType
  <2> QED BY <1>2, <1>5, <2>3, <2>4 DEF reply
<1>6. CASE fails /\ ActionOf(c) = Error
           /\ Respond(c, "forwarded", 2, Failure("token_not_found", Error, TRUE), "select")
  <2> DEFINE failure == Failure("token_not_found", Error, TRUE)
  <2>1. failure \in Failures
    BY FailureType DEF Reasons, Known
  <2> HIDE DEF failure
  <2> DEFINE reply == [code |-> 2, failure |-> failure, token |-> Absent,
                       phase |-> "select"]
  <2>2. reply \in Responses
    BY <2>1 DEF Responses
  <2>3. at[c] = "forwarded" /\ at' = [at EXCEPT ![c] = "responded"] /\ response' = [response EXCEPT ![c] = reply]
    BY <1>6 DEF Respond, Go, failure
  <2> HIDE DEF reply
  <2>4. TypeInv' /\ Others(c) /\ at'[c] = "responded" /\ response'[c] = reply
    BY <1>2, <2>2, <2>3, RespondType
  <2> QED BY <1>2, <1>6, <2>3, <2>4 DEF reply, failure
<1> QED BY <1>3, <1>4, <1>5, <1>6

LEMMA NoRescueType ==
  ASSUME TypeInv, NEW c \in Clients, NoRescue(c)
  PROVE  /\ TypeInv' /\ Others(c) /\ at[c] = "deciding" /\ at'[c] = "responded" /\ Decoded(c)
         /\ UNCHANGED <<issued, store, settings, options, reason, data, silent>>
         /\ \/ /\ ActionOf(c) = Skip
               /\ response'[c] = [code |-> 1, failure |-> Absent, token |-> Absent, phase |-> "start"]
            \/ /\ ActionOf(c) = Error
               /\ response'[c] = [code |-> 2, failure |-> Failure("source_unavailable", Error, FALSE),
                                  token |-> Absent, phase |-> "start"]
<1>1. ActionInStart(c) = ActionOf(c)
  BY OneAction DEF ActionInStart
<1>2. UNCHANGED <<issued, store, settings, options, reason, data, silent>> /\ Decoded(c)
  BY DEF NoRescue
<1>3. \/ ActionOf(c) = Skip /\ Respond(c, "deciding", 1, Absent, "start")
      \/ ActionOf(c) = Error /\ Respond(c, "deciding", 2, Failure("source_unavailable", Error, FALSE), "start")
  BY <1>1 DEF NoRescue
<1>4. CASE ActionOf(c) = Skip /\ Respond(c, "deciding", 1, Absent, "start")
  <2> DEFINE reply == [code |-> 1, failure |-> Absent, token |-> Absent,
                       phase |-> "start"]
  <2>2. reply \in Responses
    BY DEF Responses
  <2>3. at[c] = "deciding" /\ at' = [at EXCEPT ![c] = "responded"] /\ response' = [response EXCEPT ![c] = reply]
    BY <1>4 DEF Respond, Go
  <2> HIDE DEF reply
  <2>4. TypeInv' /\ Others(c) /\ at'[c] = "responded" /\ response'[c] = reply
    BY <1>2, <2>2, <2>3, RespondType
  <2> QED BY <1>2, <1>4, <2>3, <2>4 DEF reply
<1>5. CASE ActionOf(c) = Error
           /\ Respond(c, "deciding", 2, Failure("source_unavailable", Error, FALSE), "start")
  <2> DEFINE failure == Failure("source_unavailable", Error, FALSE)
  <2>1. failure \in Failures
    BY FailureType DEF Reasons, Known
  <2> HIDE DEF failure
  <2> DEFINE reply == [code |-> 2, failure |-> failure, token |-> Absent,
                       phase |-> "start"]
  <2>2. reply \in Responses
    BY <2>1 DEF Responses
  <2>3. at[c] = "deciding" /\ at' = [at EXCEPT ![c] = "responded"] /\ response' = [response EXCEPT ![c] = reply]
    BY <1>5 DEF Respond, Go, failure
  <2> HIDE DEF reply
  <2>4. TypeInv' /\ Others(c) /\ at'[c] = "responded" /\ response'[c] = reply
    BY <1>2, <2>2, <2>3, RespondType
  <2> QED BY <1>2, <1>5, <2>3, <2>4 DEF reply, failure
<1> QED BY <1>3, <1>4, <1>5

\* A picker that is dismissed, and a capture that brings no token.
LEMMA PlainAnswerType ==
  ASSUME TypeInv, NEW c \in Clients, Dismiss(c) \/ EndWithoutToken(c)
  PROVE  /\ TypeInv' /\ Others(c) /\ at[c] \in {"asking", "granted"} /\ at'[c] = "responded"
         /\ UNCHANGED <<issued, store, settings, options, reason, data, silent>>
         /\ \E code \in 0..2 :
              /\ response'[c] = [code |-> code, failure |-> Absent, token |-> Absent, phase |-> "start"]
              /\ \/ Dismiss(c) /\ at[c] = "asking" /\ code = 1
                 \/ EndWithoutToken(c) /\ at[c] = "granted" /\ code \in {0, 2}
<1>1. UNCHANGED <<issued, store, settings, options, reason, data, silent>>
  BY DEF Dismiss, EndWithoutToken
<1>2. \E code \in 0..2 :
        /\ \/ Dismiss(c) /\ at[c] = "asking" /\ code = 1
           \/ EndWithoutToken(c) /\ at[c] = "granted" /\ code \in {0, 2}
        /\ at' = [at EXCEPT ![c] = "responded"]
        /\ response' = [response EXCEPT ![c] =
             [code |-> code, failure |-> Absent, token |-> Absent, phase |-> "start"]]
  BY DEF Dismiss, EndWithoutToken, Respond, Go
<1>3. PICK code \in 0..2 :
        /\ \/ Dismiss(c) /\ at[c] = "asking" /\ code = 1
           \/ EndWithoutToken(c) /\ at[c] = "granted" /\ code \in {0, 2}
        /\ at' = [at EXCEPT ![c] = "responded"]
        /\ response' = [response EXCEPT ![c] =
             [code |-> code, failure |-> Absent, token |-> Absent, phase |-> "start"]]
  BY <1>2
<1> DEFINE reply == [code |-> code, failure |-> Absent, token |-> Absent, phase |-> "start"]
<1>4. reply \in Responses
  BY DEF Responses
<1>5. response' = [response EXCEPT ![c] = reply]
  BY <1>3
<1> HIDE DEF reply
<1>6. TypeInv' /\ Others(c) /\ at'[c] = "responded" /\ response'[c] = reply
  BY <1>1, <1>3, <1>4, <1>5, RespondType
<1> QED BY <1>1, <1>3, <1>6 DEF reply

\* The steps of a session that only move it on.
LEMMA OnlyMovesType ==
  ASSUME TypeInv, NEW c \in Clients, Start(c) \/ Restore(c) \/ OpenPicker(c) \/ Pick(c)
  PROVE  /\ TypeInv' /\ Others(c)
         /\ UNCHANGED <<issued, store, settings, options, reason, data, response, silent>>
         /\ \/ at[c] = "ready" /\ at'[c] = "deciding"
            \/ at[c] = "deciding" /\ at'[c] = "granted" /\ Decoded(c)
            \/ /\ at[c] = "deciding" /\ at'[c] = "asking"
               /\ ~ Decoded(c) \/ ActionOf(c) = Prompt \/ data[c] = "alias"
            \/ at[c] = "asking" /\ at'[c] = "granted"
<1>1. UNCHANGED <<issued, store, settings, sessionVars>>
  BY DEF Start, Restore, OpenPicker, Pick
<1>2. ActionInStart(c) = ActionOf(c)
  BY OneAction DEF ActionInStart
<1>3. \/ at[c] = "ready" /\ at' = [at EXCEPT ![c] = "deciding"]
      \/ at[c] = "deciding" /\ at' = [at EXCEPT ![c] = "granted"] /\ Decoded(c)
      \/ /\ at[c] = "deciding" /\ at' = [at EXCEPT ![c] = "asking"]
         /\ ~ Decoded(c) \/ ActionOf(c) = Prompt \/ data[c] = "alias"
      \/ at[c] = "asking" /\ at' = [at EXCEPT ![c] = "granted"]
  BY <1>2 DEF Start, Restore, OpenPicker, Pick, Go
<1>4. {"deciding", "granted", "asking"} \subseteq Places
  BY DEF Places, Underway
<1>5. TypeInv' /\ Others(c) /\ \A place \in Places : at' = [at EXCEPT ![c] = place] => at'[c] = place
  BY <1>1, <1>3, <1>4, MoveType
<1> QED BY <1>1, <1>3, <1>4, <1>5 DEF sessionVars

\* What the front end stores is the session's own, or behind a token nobody has.
LEMMA StoreTokenType ==
  ASSUME TypeInv, LookupInv, NEW c \in Clients, StoreToken(c)
  PROVE  /\ TypeInv' /\ Others(c) /\ at[c] = "granted" /\ at'[c] = "responded"
         /\ UNCHANGED <<settings, options, reason, data, silent>>
         /\ \E token \in Tokens :
              /\ \/ data[c] # Absent /\ token = options[c].token /\ issued' = issued
                 \/ /\ issued' = issued + 1 /\ issued' \in 1..Len(NewTokens)
                    /\ token = NewTokens[issued']
              /\ response'[c] = [code |-> 0, failure |-> Absent, token |-> token, phase |-> "start"]
              /\ \A t \in Tokens : t # token => store'[t] = store[t]
         /\ response'[c].code = 0 /\ response'[c].token # Absent
<1>1. at[c] = "granted" /\ at' = [at EXCEPT ![c] = "responded"]
      /\ UNCHANGED <<settings, options, reason, data, silent>>
  BY DEF StoreToken, Go
<1>2. PICK entry \in {"plain", "alias"} :
       \/ data[c] # Absent /\ Stored(c, options[c].token, entry) /\ issued' = issued
       \/ /\ data[c] = Absent /\ issued < Len(NewTokens)
          /\ issued' = issued + 1
          /\ Stored(c, NewTokens[issued'], entry)
  BY DEF StoreToken
<1>3. \E token \in Tokens :
        /\ \/ data[c] # Absent /\ token = options[c].token /\ issued' = issued
           \/ /\ issued' = issued + 1 /\ issued' \in 1..Len(NewTokens)
              /\ token = NewTokens[issued']
        /\ store' = [store EXCEPT ![token] = entry]
        /\ response' = [response EXCEPT ![c] =
             [code |-> 0, failure |-> Absent, token |-> token, phase |-> "start"]]
  <2>1. CASE data[c] # Absent /\ Stored(c, options[c].token, entry) /\ issued' = issued
    <3>1. options[c].token \in Tokens
      BY <2>1, TokenType DEF LookupInv
    <3> QED BY <2>1, <3>1 DEF Stored
  <2>2. CASE /\ data[c] = Absent /\ issued < Len(NewTokens) /\ issued' = issued + 1
             /\ Stored(c, NewTokens[issued'], entry)
    <3>1. issued \in 0..Len(NewTokens) /\ Len(NewTokens) \in Nat
      BY IssuedTokens DEF TypeInv
    <3>2. issued' \in 1..Len(NewTokens)
      BY <2>2, <3>1
    <3>3. NewTokens[issued'] \in Tokens
      BY <3>2, IssuedTokens
    <3> QED BY <2>2, <3>2, <3>3 DEF Stored
  <2> QED BY <1>2, <2>1, <2>2
<1>4. PICK token \in Tokens :
        /\ \/ data[c] # Absent /\ token = options[c].token /\ issued' = issued
           \/ /\ issued' = issued + 1 /\ issued' \in 1..Len(NewTokens)
              /\ token = NewTokens[issued']
        /\ store' = [store EXCEPT ![token] = entry]
        /\ response' = [response EXCEPT ![c] =
             [code |-> 0, failure |-> Absent, token |-> token, phase |-> "start"]]
  BY <1>3
<1>5. at' \in [Clients -> Places] /\ at'[c] = "responded"
  BY <1>1 DEF TypeInv, Places
<1>6. store' \in [Tokens -> Entries] /\ \A t \in Tokens : t # token => store'[t] = store[t]
  BY <1>4 DEF TypeInv, Entries, Data
<1> DEFINE reply == [code |-> 0, failure |-> Absent, token |-> token, phase |-> "start"]
<1>7. reply \in Responses
  BY DEF Responses
<1>8. response' = [response EXCEPT ![c] = reply]
  BY <1>4
<1> HIDE DEF reply
<1>9. response' \in [Clients -> Responses] /\ response'[c] = reply
  BY <1>7, <1>8 DEF TypeInv
<1>10. issued' \in 0..Len(NewTokens)
  <2>1. Len(NewTokens) \in Nat /\ issued \in 0..Len(NewTokens)
    BY IssuedTokens DEF TypeInv
  <2>2. issued' = issued \/ issued' \in 1..Len(NewTokens)
    BY <1>4
  <2> QED BY <2>1, <2>2
<1>11. Others(c)
  BY <1>1, <1>8 DEF Others, TypeInv
<1>12. response'[c].code = 0 /\ response'[c].token = token /\ token # Absent
  BY <1>4, <1>9, IssuedTokens DEF reply
<1> QED BY <1>1, <1>4, <1>5, <1>6, <1>9, <1>10, <1>11, <1>12 DEF TypeInv, reply

\* OBS ends where it began, with the token that the answer leaves it.
LEMMA HearType ==
  ASSUME TypeInv, NEW c \in Clients, Hear(c)
  PROVE  /\ TypeInv' /\ Others(c) /\ at[c] = "responded" /\ at'[c] = "idle"
         /\ UNCHANGED <<issued, store>>
         /\ settings'[c].token = TokenAfter(c)
         /\ silent'[c] = (IF IsSilent(c) THEN silent[c] + 1 ELSE 0)
         /\ options'[c] = NoOptions /\ data'[c] = Absent /\ response'[c] = NoResponse
<1> DEFINE token == TokenAfter(c)
           count == IF IsSilent(c) THEN silent[c] + 1 ELSE 0
<1>1. /\ at[c] = "responded" /\ at' = [at EXCEPT ![c] = "idle"]
      /\ settings' = [settings EXCEPT ![c].token = token]
      /\ options' = [options EXCEPT ![c] = NoOptions]
      /\ reason' = [reason EXCEPT ![c] = Absent]
      /\ data' = [data EXCEPT ![c] = Absent]
      /\ response' = [response EXCEPT ![c] = NoResponse]
      /\ UNCHANGED <<issued, store>>
  BY DEF Hear, Go
<1>2. silent' = [silent EXCEPT ![c] = count]
  BY DEF Hear
<1>3. token \in Tokens \cup {""}
  BY TokenAfterType
<1>4. count \in Nat
  BY DEF TypeInv
<1> HIDE DEF token, count
<1>5. settings' \in [Clients -> Settings] /\ settings'[c].token = token
  BY <1>1, <1>3 DEF TypeInv, Settings, SettingsOf
<1>6. options' \in [Clients -> Options] /\ options'[c] = NoOptions
  BY <1>1, NoOptionsType DEF TypeInv
<1>7. response' \in [Clients -> Responses] /\ response'[c] = NoResponse
  BY <1>1, NoResponseType DEF TypeInv
<1>8. at' \in [Clients -> Places] /\ at'[c] = "idle"
  BY <1>1 DEF TypeInv, Places
<1>9. /\ reason' \in [Clients -> Reasons \cup {Absent}]
      /\ data' \in [Clients -> Data \cup {Absent}] /\ data'[c] = Absent
  BY <1>1 DEF TypeInv
<1>10. silent' \in [Clients -> Nat] /\ silent'[c] = count
  BY <1>2, <1>4 DEF TypeInv
<1>11. Others(c)
  BY <1>1, <1>2 DEF Others, TypeInv
<1> QED BY <1>1, <1>5, <1>6, <1>7, <1>8, <1>9, <1>10, <1>11 DEF TypeInv, token, count

LEMMA OpenSelectorType ==
  ASSUME TypeInv, NEW c \in Clients, OpenSelector(c)
  PROVE  /\ TypeInv' /\ Others(c) /\ at[c] = "idle"
         /\ UNCHANGED <<issued, store, at, options, reason, data, response>>
         /\ settings'[c].token = "" /\ silent'[c] = 0
<1>1. /\ settings' = [settings EXCEPT ![c].token = ""] /\ at[c] = "idle"
      /\ silent' = [silent EXCEPT ![c] = 0]
      /\ UNCHANGED <<issued, store, at, options, reason, data, response>>
  BY DEF OpenSelector
<1>2. settings' \in [Clients -> Settings] /\ settings'[c].token = ""
  BY <1>1 DEF TypeInv, Settings, SettingsOf
<1>3. silent' \in [Clients -> Nat] /\ silent'[c] = 0
  BY <1>1 DEF TypeInv
<1>4. Others(c)
  BY <1>1 DEF Others, TypeInv
<1> QED BY <1>1, <1>2, <1>3, <1>4 DEF TypeInv

LEMMA UpdateType ==
  ASSUME TypeInv, NEW c \in Clients, Update(c)
  PROVE  /\ TypeInv' /\ Others(c) /\ at[c] = "idle"
         /\ UNCHANGED <<issued, store, at, options, reason, data, response, silent>>
         /\ settings'[c].token = settings[c].token
<1>1. PICK action \in Known : settings' = [settings EXCEPT ![c].action = action]
  BY DEF Update
<1>2. at[c] = "idle" /\ UNCHANGED <<issued, store, at, options, reason, data, response, silent>>
  BY DEF Update, sessionVars
<1>3. settings' \in [Clients -> Settings] /\ settings'[c].token = settings[c].token
  BY <1>1 DEF TypeInv, Settings, SettingsOf
<1>4. Others(c)
  BY <1>1, <1>2 DEF Others, TypeInv
<1> QED BY <1>2, <1>3, <1>4 DEF TypeInv

LEMMA RevokeType ==
  ASSUME TypeInv, NEW token \in Tokens, Revoke(token)
  PROVE  /\ TypeInv' /\ UNCHANGED <<issued, settings, at, options, reason, data, response, silent>>
         /\ \A t \in Tokens : store'[t] \in Data => store[t] = store'[t]
<1>1. /\ store' = [store EXCEPT ![token] = "revoked"]
      /\ UNCHANGED <<issued, settings, at, options, reason, data, response, silent>>
  BY DEF Revoke, sessionVars
<1>2. store' \in [Tokens -> Entries] /\ \A t \in Tokens : store'[t] \in Data => store[t] = store'[t]
  BY <1>1 DEF TypeInv, Entries, Data
<1> QED BY <1>1, <1>2 DEF TypeInv

\* A step of one source, or of the front end and COSMIC for it.
Act(c) ==
  \/ SelectSource(c) \/ LookupPersistent(c) \/ DeletePersistent(c) \/ ApplyPolicy(c)
  \/ BackendSelect(c) \/ Start(c) \/ Restore(c) \/ OpenPicker(c) \/ NoRescue(c)
  \/ Pick(c) \/ Dismiss(c) \/ StoreToken(c) \/ EndWithoutToken(c)
  \/ Hear(c) \/ OpenSelector(c) \/ Update(c)

LEMMA NextActs == Next => (\E c \in Clients : Act(c)) \/ \E token \in Tokens : Revoke(token)
BY DEF Next, Act

LEMMA ActType ==
  ASSUME TypeInv, LookupInv, NEW c \in Clients, Act(c)
  PROVE  TypeInv' /\ Others(c)
<1>1. CASE SelectSource(c)
  BY <1>1, SelectType
<1>2. CASE LookupPersistent(c)
  BY <1>2, LookupPersistentType
<1>3. CASE DeletePersistent(c)
  BY <1>3, DeletePersistentType
<1>4. CASE ApplyPolicy(c)
  BY <1>4, ApplyPolicyType
<1>5. CASE BackendSelect(c)
  BY <1>5, BackendSelectType
<1>6. CASE Start(c) \/ Restore(c) \/ OpenPicker(c) \/ Pick(c)
  BY <1>6, OnlyMovesType
<1>7. CASE NoRescue(c)
  BY <1>7, NoRescueType
<1>8. CASE Dismiss(c) \/ EndWithoutToken(c)
  BY <1>8, PlainAnswerType
<1>9. CASE StoreToken(c)
  BY <1>9, StoreTokenType
<1>10. CASE Hear(c)
  BY <1>10, HearType
<1>11. CASE OpenSelector(c)
  BY <1>11, OpenSelectorType
<1>12. CASE Update(c)
  BY <1>12, UpdateType
<1> QED BY <1>1, <1>2, <1>3, <1>4, <1>5, <1>6, <1>7, <1>8, <1>9, <1>10, <1>11, <1>12 DEF Act

(***************************************************************************)
(* The sessions follow the settings.                                       *)
(***************************************************************************)
SessionAt(c) ==
  /\ options[c] = IF at[c] = "idle" THEN NoOptions ELSE PluginOptions(settings[c], Version)
  /\ at[c] # "responded" => response[c] = NoResponse
  /\ response[c].code # 0 => response[c].token = Absent

LEMMA SessionActs ==
  ASSUME TypeInv, LookupInv, SessionInv, NEW c \in Clients, Act(c)
  PROVE  SessionInv'
<1> USE DEF SessionAt
<1>0. SessionAt(c) /\ TypeInv' /\ Others(c)
  BY ActType DEF SessionInv
<1>1. ASSUME SelectSource(c) PROVE SessionAt(c)'
  <2>1. options'[c] = PluginOptions(settings[c], Version) /\ at[c] = "idle"
        /\ at'[c] \in {"forwarded", "looking"} /\ UNCHANGED <<settings, response>>
    BY <1>1, SelectType DEF SelectSource, Go, TypeInv
  <2> QED BY <1>0, <2>1
<1>2. ASSUME LookupPersistent(c) PROVE SessionAt(c)'
  BY <1>0, <1>2, LookupPersistentType DEF LookupPersistent
<1>3. ASSUME DeletePersistent(c) PROVE SessionAt(c)'
  BY <1>0, <1>3, DeletePersistentType
<1>4. ASSUME ApplyPolicy(c) PROVE SessionAt(c)'
  <2>1. /\ UNCHANGED <<settings, options>> /\ at[c] = "missing"
        /\ \/ at'[c] = "responded" /\ response'[c].token = Absent
           \/ at'[c] = "forwarded" /\ response' = response
    BY <1>4, ApplyPolicyType
  <2> QED BY <1>0, <2>1
<1>5. ASSUME BackendSelect(c) PROVE SessionAt(c)'
  BY <1>0, <1>5, BackendSelectType
<1>6. ASSUME Start(c) \/ Restore(c) \/ OpenPicker(c) \/ Pick(c) PROVE SessionAt(c)'
  BY <1>0, <1>6, OnlyMovesType
<1>7. ASSUME NoRescue(c) PROVE SessionAt(c)'
  BY <1>0, <1>7, NoRescueType
<1>8. ASSUME Dismiss(c) \/ EndWithoutToken(c) PROVE SessionAt(c)'
  BY <1>0, <1>8, PlainAnswerType
<1>9. ASSUME StoreToken(c) PROVE SessionAt(c)'
  <2>1. /\ UNCHANGED <<settings, options>> /\ at[c] = "granted" /\ at'[c] = "responded"
        /\ response'[c].code = 0
    BY <1>9, StoreTokenType
  <2> QED BY <1>0, <2>1
<1>10. ASSUME Hear(c) PROVE SessionAt(c)'
  <2>1. at'[c] = "idle" /\ options'[c] = NoOptions /\ response'[c] = NoResponse
    BY <1>10, HearType
  <2>2. NoResponse.code = 0
    BY DEF NoResponse
  <2> QED BY <2>1, <2>2
<1>11. ASSUME OpenSelector(c) PROVE SessionAt(c)'
  BY <1>0, <1>11, OpenSelectorType
<1>12. ASSUME Update(c) PROVE SessionAt(c)'
  BY <1>0, <1>12, UpdateType
<1>13. SessionAt(c)'
  BY <1>1, <1>2, <1>3, <1>4, <1>5, <1>6, <1>7, <1>8, <1>9, <1>10, <1>11, <1>12 DEF Act
<1>14. ASSUME NEW d \in Clients, d # c PROVE SessionAt(d)'
  BY <1>0, <1>14 DEF Others, SessionInv
<1> QED BY <1>13, <1>14 DEF SessionInv

(***************************************************************************)
(* How far a session comes without data.                                   *)
(***************************************************************************)
LookupAt(c) ==
  /\ at[c] \in Resolving \/ data[c] # Absent => options[c].token # Absent
  /\ at[c] \in {"idle", "looking", "missing"} => data[c] = Absent
  /\ at[c] = "deleting" => data[c] # Absent
  /\ data[c] = "malformed" => at[c] = "deleting"
  /\ at[c] = "missing" => reason[c] # Absent
  /\ (at[c] \in Underway /\ options[c].token # Absent /\ data[c] = Absent) => ActionOf(c) = Prompt
  /\ (at[c] \in Underway \ {"forwarded"} /\ data[c] = "foreign") => ActionOf(c) = Prompt
  /\ (at[c] = "asking" /\ options[c].token # Absent) => ActionOf(c) = Prompt \/ data[c] = "alias"

LEMMA LookupActs ==
  ASSUME TypeInv, LookupInv, NEW c \in Clients, Act(c)
  PROVE  LookupInv'
<1> USE DEF LookupAt, Resolving, Underway
<1>0. LookupAt(c) /\ TypeInv' /\ Others(c) /\ "malformed" # Absent
  BY ActType, AbsentAssumption DEF LookupInv, Entries, Data
<1>1. ASSUME SelectSource(c) PROVE LookupAt(c)'
  <2> DEFINE opts == PluginOptions(settings[c], Version)
  <2>1. options'[c] = opts
    BY <1>1, SelectType
  <2>2. at[c] = "idle" /\ at'[c] = (IF opts.token = Absent THEN "forwarded" ELSE "looking")
        /\ UNCHANGED data
    BY <1>1 DEF SelectSource, Go, TypeInv
  <2> HIDE DEF opts
  <2> QED BY <1>0, <2>1, <2>2, AbsentAssumption DEF Entries, Data
<1>2. ASSUME LookupPersistent(c) PROVE LookupAt(c)'
  <2>1. /\ options[c].token \in Tokens /\ reason'[c] = LookupReason(store[options[c].token])
        /\ data'[c] = IF reason'[c] = Absent THEN store[options[c].token] ELSE Absent
        /\ at'[c] = IF reason'[c] = Absent THEN "deleting" ELSE "missing"
        /\ options' = options
    BY <1>2, LookupPersistentType DEF LookupPersistent
  <2>2. store[options[c].token] \in Entries
    BY <2>1 DEF TypeInv
  <2>3. store[options[c].token] # Absent
    BY <2>2, AbsentAssumption
  <2>4. options[c].token # Absent
    BY <2>1, IssuedTokens
  <2> QED BY <1>0, <2>1, <2>3, <2>4
<1>3. ASSUME DeletePersistent(c) PROVE LookupAt(c)'
  <2>1. /\ at[c] = "deleting" /\ options' = options
        /\ \/ at'[c] = "forwarded" /\ data[c] # "malformed" /\ UNCHANGED <<reason, data>>
           \/ at'[c] = "missing" /\ data'[c] = Absent /\ reason'[c] = "token_consumed"
    BY <1>3, DeletePersistentType
  <2>2. "token_consumed" # Absent
    BY AbsentAssumption DEF Reasons
  <2> QED BY <1>0, <2>1, <2>2
<1>4. ASSUME ApplyPolicy(c) PROVE LookupAt(c)'
  <2>1. /\ at[c] = "missing" /\ UNCHANGED <<options, data, reason>> /\ ActionOf(c)' = ActionOf(c)
        /\ at'[c] = "responded" \/ (at'[c] = "forwarded" /\ ActionOf(c) = Prompt)
    BY <1>4, ApplyPolicyType DEF ActionOf
  <2> QED BY <1>0, <2>1, AbsentAssumption DEF Entries, Data
<1>5. ASSUME BackendSelect(c) PROVE LookupAt(c)'
  <2>1. /\ at[c] = "forwarded" /\ UNCHANGED <<options, data, reason>> /\ ActionOf(c)' = ActionOf(c)
        /\ at'[c] = "responded" \/ (at'[c] = "ready" /\ (data[c] = "foreign" => ActionOf(c) = Prompt))
    BY <1>5, BackendSelectType DEF ActionOf
  <2> QED BY <1>0, <2>1
<1>6. ASSUME Start(c) \/ Restore(c) \/ OpenPicker(c) \/ Pick(c) PROVE LookupAt(c)'
  <2>1. UNCHANGED <<options, data, reason>> /\ ActionOf(c)' = ActionOf(c)
    BY <1>6, OnlyMovesType DEF ActionOf
  <2>2. \/ at[c] = "ready" /\ at'[c] = "deciding"
        \/ at[c] = "deciding" /\ at'[c] = "granted"
        \/ /\ at[c] = "deciding" /\ at'[c] = "asking"
           /\ ~ Decoded(c) \/ ActionOf(c) = Prompt \/ data[c] = "alias"
        \/ at[c] = "asking" /\ at'[c] = "granted"
    BY <1>6, OnlyMovesType
  <2>3. ~ Decoded(c) => data[c] \in {Absent, "foreign", "malformed"}
    BY DEF Decoded, TypeInv, Data
  <2> QED BY <1>0, <2>1, <2>2, <2>3
<1>7. ASSUME NoRescue(c) PROVE LookupAt(c)'
  BY <1>0, <1>7, NoRescueType
<1>8. ASSUME Dismiss(c) \/ EndWithoutToken(c) PROVE LookupAt(c)'
  BY <1>0, <1>8, PlainAnswerType
<1>9. ASSUME StoreToken(c) PROVE LookupAt(c)'
  BY <1>0, <1>9, StoreTokenType
<1>10. ASSUME Hear(c) PROVE LookupAt(c)'
  BY <1>0, <1>10, HearType
<1>11. ASSUME OpenSelector(c) PROVE LookupAt(c)'
  BY <1>0, <1>11, OpenSelectorType DEF ActionOf
<1>12. ASSUME Update(c) PROVE LookupAt(c)'
  BY <1>0, <1>12, UpdateType DEF ActionOf
<1>13. LookupAt(c)'
  BY <1>1, <1>2, <1>3, <1>4, <1>5, <1>6, <1>7, <1>8, <1>9, <1>10, <1>11, <1>12 DEF Act
<1>14. ASSUME NEW d \in Clients, d # c PROVE LookupAt(d)'
  BY <1>0, <1>14 DEF Others, LookupInv, ActionOf
<1> QED BY <1>13, <1>14 DEF LookupInv

(***************************************************************************)
(* Ownership.                                                              *)
(***************************************************************************)

\* The token of a session is its source's.
LEMMA SessionToken ==
  ASSUME TypeInv, SessionInv, NEW c \in Clients
  PROVE  /\ options[c].token \in Tokens => settings[c].token = options[c].token
         /\ at[c] # "idle" /\ settings[c].token \in Tokens => options[c].token = settings[c].token
<1>1. settings[c] \in Settings
  BY DEF TypeInv
<1>2. CASE at[c] = "idle"
  <2>1. options[c].token = Absent
    BY <1>2 DEF SessionInv, NoOptions
  <2> QED BY <1>2, <2>1, IssuedTokens
<1>3. CASE at[c] # "idle"
  <2>1. options[c].token = IF settings[c].token = "" THEN Absent ELSE settings[c].token
    BY <1>1, <1>3, Sent DEF SessionInv
  <2> QED BY <2>1, IssuedTokens
<1> QED BY <1>2, <1>3

\* A step of a source adds no token to those it keeps but the next to be issued.
LEMMA HeldActs ==
  ASSUME TypeInv, LookupInv, SessionInv, NEW c \in Clients, Act(c)
  PROVE  \/ issued' = issued /\ Held(c)' \subseteq Held(c)
         \/ /\ issued' = issued + 1 /\ issued' \in 1..Len(NewTokens)
            /\ Held(c)' \subseteq Held(c) \cup {NewTokens[issued']}
<1> DEFINE NoMore == issued' = issued /\ Held(c)' \subseteq Held(c)
<1>0. Absent \notin Issued /\ "" \notin Issued /\ NoResponse.token = Absent
  BY IssuedTokens DEF NoResponse
<1>1. ASSUME issued' = issued, settings' = settings, response'[c].token \in {response[c].token, Absent}
      PROVE  NoMore
  BY <1>0, <1>1 DEF Held
<1>2. CASE \/ SelectSource(c) \/ LookupPersistent(c) \/ DeletePersistent(c)
           \/ Start(c) \/ Restore(c) \/ OpenPicker(c) \/ Pick(c)
  BY <1>1, <1>2 DEF SelectSource, LookupPersistent, DeletePersistent, Start, Restore, OpenPicker, Pick,
                    sessionVars
<1>3. CASE ApplyPolicy(c)
  <2>1. UNCHANGED <<settings, issued>> /\ (response'[c].token = Absent \/ response' = response)
    BY <1>3, ApplyPolicyType
  <2> QED BY <1>1, <2>1
<1>4. CASE BackendSelect(c)
  BY <1>1, <1>4, BackendSelectType
<1>5. CASE NoRescue(c)
  BY <1>1, <1>5, NoRescueType
<1>6. CASE Dismiss(c) \/ EndWithoutToken(c)
  BY <1>1, <1>6, PlainAnswerType
<1>7. CASE StoreToken(c)
  <2>1. PICK token \in Tokens :
          /\ \/ data[c] # Absent /\ token = options[c].token /\ issued' = issued
             \/ /\ issued' = issued + 1 /\ issued' \in 1..Len(NewTokens)
                /\ token = NewTokens[issued']
          /\ response'[c] = [code |-> 0, failure |-> Absent, token |-> token, phase |-> "start"]
    BY <1>7, StoreTokenType
  <2>2. settings' = settings /\ response'[c].token = token
    BY <1>7, <2>1 DEF StoreToken
  <2>3. CASE token = options[c].token /\ issued' = issued
    <3>1. token = settings[c].token
      BY <2>3, SessionToken
    <3> QED BY <2>2, <2>3, <3>1 DEF Held
  <2>4. CASE issued' = issued + 1 /\ issued' \in 1..Len(NewTokens) /\ token = NewTokens[issued']
    BY <2>2, <2>4 DEF Held
  <2> QED BY <2>1, <2>3, <2>4
<1>8. CASE Hear(c)
  <2>1. issued' = issued /\ settings'[c].token = TokenAfter(c) /\ response'[c].token = Absent
    BY <1>0, <1>8, HearType
  <2>2. TokenAfter(c) \in {response[c].token, "", settings[c].token}
    BY DEF TokenAfter
  <2> QED BY <1>0, <2>1, <2>2 DEF Held
<1>9. CASE OpenSelector(c)
  BY <1>0, <1>9, OpenSelectorType DEF Held
<1>10. CASE Update(c)
  BY <1>10, UpdateType DEF Held
<1> QED BY <1>2, <1>3, <1>4, <1>5, <1>6, <1>7, <1>8, <1>9, <1>10 DEF Act

LEMMA OwnActs ==
  ASSUME TypeInv, LookupInv, SessionInv, OwnInv, NEW c \in Clients, Act(c)
  PROVE  OwnInv'
<1> DEFINE Old == {NewTokens[i] : i \in 1..issued}
<1>1. Len(NewTokens) \in Nat /\ issued \in 0..Len(NewTokens)
  BY IssuedTokens DEF TypeInv
<1>2. \A d \in Clients : d # c => Held(d)' = Held(d)
  BY ActType DEF Others, Held
<1>3. (\A d \in Clients : Held(d) \subseteq Old) /\ \A d, e \in Clients : d # e => Held(d) \cap Held(e) = {}
  BY DEF OwnInv
<1>4. CASE issued' = issued /\ Held(c)' \subseteq Held(c)
  BY <1>2, <1>3, <1>4 DEF OwnInv
<1>5. CASE /\ issued' = issued + 1 /\ issued' \in 1..Len(NewTokens)
           /\ Held(c)' \subseteq Held(c) \cup {NewTokens[issued']}
  <2>1. NewTokens[issued'] \notin Old
    <3>1. \A i \in 1..issued : NewTokens[i] # NewTokens[issued']
      <4>1. \A i, j \in 1..Len(NewTokens) : NewTokens[i] = NewTokens[j] => i = j
        BY IssuedTokens
      <4>2. \A i \in 1..issued : i \in 1..Len(NewTokens) /\ i # issued'
        BY <1>1, <1>5
      <4> QED BY <1>5, <4>1, <4>2
    <3> QED BY <3>1
  <2>2. Old \cup {NewTokens[issued']} \subseteq {NewTokens[i] : i \in 1..issued'}
    BY <1>1, <1>5
  <2> HIDE DEF Old
  <2>3. \A d \in Clients : Held(d)' \subseteq {NewTokens[i] : i \in 1..issued'}
    BY <1>2, <1>3, <1>5, <2>2
  <2>4. \A d, e \in Clients : d # e => Held(d)' \cap Held(e)' = {}
    BY <1>2, <1>3, <1>5, <2>1
  <2> QED BY <2>3, <2>4 DEF OwnInv
<1> QED BY <1>4, <1>5, HeldActs

(***************************************************************************)
(* What is behind a token.                                                 *)
(***************************************************************************)

\* Data comes to be behind a token only by a success, which answers its source with that token.
LEMMA Gains ==
  ASSUME TypeInv, LookupInv, NEW c \in Clients, Act(c), NEW t \in Tokens,
         store'[t] \in Data, store[t] \notin Data
  PROVE  at'[c] = "responded" /\ response'[c].token = t
<1>1. CASE store' = store
  BY <1>1
<1>2. CASE \/ SelectSource(c) \/ LookupPersistent(c) \/ Start(c) \/ Restore(c) \/ OpenPicker(c) \/ Pick(c)
           \/ ApplyPolicy(c) \/ BackendSelect(c) \/ NoRescue(c) \/ Dismiss(c) \/ EndWithoutToken(c)
           \/ Hear(c) \/ OpenSelector(c) \/ Update(c)
  <2>1. store' = store
    BY <1>2 DEF SelectSource, LookupPersistent, Start, Restore, OpenPicker, Pick, ApplyPolicy,
                BackendSelect, NoRescue, Dismiss, EndWithoutToken, Hear, OpenSelector, Update
  <2> QED BY <1>1, <2>1
<1>3. CASE DeletePersistent(c)
  <2>1. /\ store'[options[c].token] = "none"
        /\ \A u \in Tokens : u # options[c].token => store'[u] = store[u]
    BY <1>3, DeletePersistentType
  <2> QED BY <2>1 DEF Data
<1>4. CASE StoreToken(c)
  <2>1. PICK token \in Tokens :
          /\ response'[c] = [code |-> 0, failure |-> Absent, token |-> token, phase |-> "start"]
          /\ \A u \in Tokens : u # token => store'[u] = store[u]
    BY <1>4, StoreTokenType
  <2>2. response'[c].token = token /\ token = t
    BY <2>1
  <2> QED BY <1>4, <2>2, StoreTokenType
<1> QED BY <1>2, <1>3, <1>4 DEF Act

\* So nothing comes to be behind the token of a source by a step of another.
LEMMA OthersGainNothing ==
  ASSUME TypeInv, LookupInv, OwnInv', NEW c \in Clients, NEW d \in Clients, d # c, Act(c),
         settings[d].token \in Issued, store[settings[d].token] \notin Data
  PROVE  store'[settings[d].token] \notin Data
<1> DEFINE t == settings[d].token
<1>1. t \in Tokens
  BY IssuedTokens
<1>2. ASSUME store'[t] \in Data PROVE FALSE
  <2>1. response'[c].token = t
    BY <1>1, <1>2, Gains
  <2>2. settings'[d].token = t
    BY ActType DEF Others
  <2>3. t \in Held(c)' /\ t \in Held(d)'
    BY <2>1, <2>2 DEF Held
  <2> QED BY <2>3 DEF OwnInv
<1> QED BY <1>2

GoneAt(c) ==
  (/\ options[c].token \in Issued
   /\ at[c] \in Underway \cup {"missing"} \/ (at[c] = "responded" /\ response[c].token = Absent))
    => store[options[c].token] \notin Data

LEMMA GoneActs ==
  ASSUME TypeInv, LookupInv, SessionInv, OwnInv, GoneInv, NEW c \in Clients, Act(c)
  PROVE  GoneInv'
<1> DEFINE t == options[c].token
<1>0. OwnInv' /\ Others(c) /\ GoneAt(c) /\ Issued \subseteq Tokens /\ Absent \notin Issued
  BY OwnActs, ActType, IssuedTokens DEF GoneInv, GoneAt
<1>1. ASSUME NEW d \in Clients, d # c PROVE GoneAt(d)'
  <2> SUFFICES ASSUME options[d].token \in Issued, store[options[d].token] \notin Data
               PROVE  store'[options[d].token] \notin Data
    BY <1>0, <1>1 DEF Others, GoneInv, GoneAt
  <2>1. settings[d].token = options[d].token
    BY <1>0, SessionToken
  <2> QED BY <1>0, <1>1, <2>1, OthersGainNothing
\* The steps before which the claim is made already.
<1>2. ASSUME options' = options, store' = store, at[c] \in Underway \cup {"missing"}, response[c].token = Absent
      PROVE  GoneAt(c)'
  BY <1>0, <1>2 DEF GoneAt
<1>3. at[c] # "responded" => response[c].token = Absent
  BY DEF SessionInv, NoResponse
<1>4. ASSUME SelectSource(c) PROVE GoneAt(c)'
  <2>1. at'[c] = "looking" \/ options'[c].token = Absent
    <3> DEFINE opts == PluginOptions(settings[c], Version)
    <3>1. options'[c] = opts
      BY <1>4, SelectType
    <3>2. at'[c] = (IF opts.token = Absent THEN "forwarded" ELSE "looking")
      BY <1>4 DEF SelectSource, Go, TypeInv
    <3> HIDE DEF opts
    <3> QED BY <3>1, <3>2
  <2> QED BY <1>0, <2>1 DEF GoneAt, Underway
<1>5. ASSUME LookupPersistent(c) PROVE GoneAt(c)'
  <2>1. /\ t \in Tokens /\ options' = options /\ store' = store
        /\ at'[c] = "deleting" \/ (at'[c] = "missing" /\ LookupReason(store[t]) # Absent)
    BY <1>5, LookupPersistentType DEF LookupPersistent
  <2>2. LookupReason(store[t]) # Absent => store[t] \notin Data
    BY <2>1, LookupType DEF TypeInv
  <2> QED BY <2>1, <2>2 DEF GoneAt, Underway
<1>6. ASSUME DeletePersistent(c) PROVE GoneAt(c)'
  <2>1. store'[t] = "none" /\ options' = options
    BY <1>6, DeletePersistentType
  <2> QED BY <2>1 DEF GoneAt, Data
<1>7. ASSUME ApplyPolicy(c) PROVE GoneAt(c)'
  BY <1>2, <1>3, <1>7, ApplyPolicyType
<1>8. ASSUME BackendSelect(c) PROVE GoneAt(c)'
  BY <1>2, <1>3, <1>8, BackendSelectType DEF Underway
<1>9. ASSUME Start(c) \/ Restore(c) \/ OpenPicker(c) \/ Pick(c) PROVE GoneAt(c)'
  BY <1>2, <1>3, <1>9, OnlyMovesType DEF Underway
<1>10. ASSUME NoRescue(c) PROVE GoneAt(c)'
  BY <1>2, <1>3, <1>10, NoRescueType DEF Underway
<1>11. ASSUME Dismiss(c) \/ EndWithoutToken(c) PROVE GoneAt(c)'
  BY <1>2, <1>3, <1>11, PlainAnswerType DEF Underway
<1>12. ASSUME StoreToken(c) PROVE GoneAt(c)'
  BY <1>12, StoreTokenType DEF GoneAt, Underway
<1>13. ASSUME Hear(c) PROVE GoneAt(c)'
  BY <1>13, HearType DEF GoneAt, Underway
<1>14. ASSUME OpenSelector(c) \/ Update(c) PROVE GoneAt(c)'
  BY <1>14, OpenSelectorType, UpdateType DEF GoneAt, Underway
<1>15. GoneAt(c)'
  BY <1>4, <1>5, <1>6, <1>7, <1>8, <1>9, <1>10, <1>11, <1>12, <1>13, <1>14 DEF Act
<1> QED BY <1>1, <1>15 DEF GoneInv, GoneAt

(***************************************************************************)
(* Failures without a word.                                                *)
(***************************************************************************)
SilentAt(c) ==
  /\ silent[c] \in {0, 1}
  /\ silent[c] = 1 =>
       /\ settings[c].token \in Issued
       /\ data[c] = Absent
       /\ at[c] \in {"idle", "looking"} => store[settings[c].token] \notin Data
       /\ at[c] = "responded" => Discards(response[c]) \/ ActionOf(c) = Prompt

\* A source with a useless token, and without data, has been refused or is under prompt.
LEMMA SilentHears ==
  ASSUME TypeInv, SessionInv, SilentInv, NEW c \in Clients, Hear(c)
  PROVE  SilentAt(c)'
<1>1. /\ at[c] = "responded" /\ at'[c] = "idle" /\ store' = store /\ data'[c] = Absent
      /\ settings'[c].token = TokenAfter(c)
      /\ silent'[c] = (IF IsSilent(c) THEN silent[c] + 1 ELSE 0)
  BY HearType
<1>2. silent[c] = 1 => ~ IsSilent(c)
  <2> SUFFICES ASSUME silent[c] = 1, IsSilent(c) PROVE FALSE
    OBVIOUS
  <2>1. ActionOf(c) # Prompt
    BY OneAction DEF IsSilent
  <2>2. Discards(response[c])
    BY <1>1, <2>1 DEF SilentInv
  <2>3. response[c].token = Absent
    BY <2>2 DEF SessionInv, Discards
  <2>4. TokenAfter(c) = ""
    BY <2>2, <2>3 DEF TokenAfter
  <2> QED BY <2>4, IssuedTokens DEF IsSilent
<1>3. silent[c] \in {0, 1}
  BY DEF SilentInv
<1>4. CASE IsSilent(c)
  <2>1. silent'[c] = 1
    <3>1. silent[c] = 0
      BY <1>2, <1>3, <1>4
    <3> QED BY <1>1, <1>4, <3>1
  <2>2. TokenAfter(c) \in Issued /\ store[TokenAfter(c)] \notin Data
    BY <1>4 DEF IsSilent
  <2> QED BY <1>1, <2>1, <2>2 DEF SilentAt
<1>5. CASE ~ IsSilent(c)
  <2>1. silent'[c] = 0
    BY <1>1, <1>5
  <2> QED BY <2>1 DEF SilentAt
<1> QED BY <1>4, <1>5

LEMMA SilentActs ==
  ASSUME TypeInv, LookupInv, SessionInv, OwnInv, SilentInv, NEW c \in Clients, Act(c)
  PROVE  SilentInv'
<1>0. OwnInv' /\ Others(c) /\ SilentAt(c) /\ Issued \subseteq Tokens /\ Absent \notin Tokens
  BY OwnActs, ActType, IssuedTokens DEF SilentInv, SilentAt
<1>1. ASSUME NEW d \in Clients, d # c PROVE SilentAt(d)'
  <2>1. SilentAt(d)
    BY DEF SilentInv, SilentAt
  <2>2. /\ settings'[d] = settings[d] /\ at'[d] = at[d] /\ data'[d] = data[d] /\ silent'[d] = silent[d]
        /\ response'[d] = response[d] /\ ActionOf(d)' = ActionOf(d)
    BY <1>0, <1>1 DEF Others, ActionOf
  <2>3. settings[d].token \in Issued /\ store[settings[d].token] \notin Data
          => store'[settings[d].token] \notin Data
    BY <1>0, <1>1, OthersGainNothing
  <2>4. Discards(response[d])' = Discards(response[d])
    BY <2>2 DEF Discards
  <2> QED BY <2>1, <2>2, <2>3, <2>4 DEF SilentAt
<1>2. silent[c] = 1 /\ at[c] # "idle" => options[c].token = settings[c].token /\ options[c].token # Absent
  BY <1>0, SessionToken DEF SilentAt
<1>3. silent[c] = 1 /\ at[c] \in Underway => ActionOf(c) = Prompt
  BY <1>0, <1>2 DEF SilentAt, LookupInv, Underway
<1>4. silent[c] = 1 => data[c] = Absent
  BY <1>0 DEF SilentAt
\* Steps after which nothing is claimed of what is behind the token.
<1>5. ASSUME UNCHANGED <<settings, data, silent>>, at'[c] \notin {"idle", "looking", "responded"}
      PROVE  SilentAt(c)'
  BY <1>0, <1>5 DEF SilentAt
<1>6. ASSUME UNCHANGED <<settings, options, data, silent>>, at[c] \in Underway, at'[c] = "responded"
      PROVE  SilentAt(c)'
  <2>1. ActionOf(c)' = ActionOf(c)
    BY <1>6 DEF ActionOf
  <2> QED BY <1>0, <1>3, <1>6, <2>1 DEF SilentAt
<1>7. ASSUME SelectSource(c) PROVE SilentAt(c)'
  <2>1. UNCHANGED <<settings, data, silent, store>> /\ at[c] = "idle" /\ at'[c] \in {"forwarded", "looking"}
    BY <1>7 DEF SelectSource, Go, TypeInv
  <2> QED BY <1>0, <2>1 DEF SilentAt
<1>8. ASSUME LookupPersistent(c) PROVE SilentAt(c)'
  <2> DEFINE t == options[c].token
  <2>1. /\ t \in Tokens /\ UNCHANGED <<settings, silent>> /\ at[c] = "looking"
        /\ at'[c] \in {"deleting", "missing"}
        /\ data'[c] = IF LookupReason(store[t]) = Absent THEN store[t] ELSE Absent
    BY <1>8, LookupPersistentType DEF LookupPersistent
  <2>2. store[t] \in Entries
    BY <2>1 DEF TypeInv
  <2>3. LookupReason(store[t]) = Absent => store[t] \in Data
    BY <2>2, LookupType
  <2>4. silent[c] = 1 => store[t] \notin Data
    BY <1>0, <1>2, <2>1 DEF SilentAt
  <2> QED BY <1>0, <2>1, <2>3, <2>4 DEF SilentAt
<1>9. ASSUME DeletePersistent(c) PROVE SilentAt(c)'
  <2>1. /\ UNCHANGED <<settings, silent>> /\ at'[c] \in {"forwarded", "missing"}
        /\ data'[c] = data[c] \/ data'[c] = Absent
    BY <1>9, DeletePersistentType
  <2> QED BY <1>0, <2>1 DEF SilentAt
<1>10. ASSUME ApplyPolicy(c) PROVE SilentAt(c)'
  <2>1. /\ UNCHANGED <<settings, options, data, silent>> /\ at[c] = "missing"
        /\ \/ /\ at'[c] = "responded" /\ ActionOf(c) \in {Skip, Error}
              /\ response'[c] = [code |-> ActionOf(c), failure |-> Failure(reason[c], ActionOf(c), TRUE),
                                 token |-> Absent, phase |-> "select"]
           \/ at'[c] = "forwarded"
    BY <1>10, ApplyPolicyType
  <2>2. CASE at'[c] = "forwarded"
    BY <1>5, <2>1, <2>2
  <2>3. CASE /\ at'[c] = "responded" /\ ActionOf(c) \in {Skip, Error}
             /\ response'[c] = [code |-> ActionOf(c), failure |-> Failure(reason[c], ActionOf(c), TRUE),
                                token |-> Absent, phase |-> "select"]
    <3>1. reason[c] \in Reasons
      BY <2>1 DEF LookupInv, TypeInv
    <3> DEFINE failure == Failure(reason[c], ActionOf(c), TRUE)
    <3>2. failure # Absent
      BY <2>3, <3>1, FailureType DEF Known
    <3>3. failure.token_invalid = TRUE
      BY DEF Failure
    <3> HIDE DEF failure
    <3>4. response'[c] = [code |-> ActionOf(c), failure |-> failure, token |-> Absent, phase |-> "select"]
      BY <2>3 DEF failure
    <3>5. response'[c].code # 0 /\ response'[c].failure = failure
      <4>1. ActionOf(c) # 0
        BY <2>3 DEF Skip, Error
      <4> QED BY <3>4, <4>1
    <3>6. Discards(response[c])'
      BY <3>2, <3>3, <3>5 DEF Discards
    <3> QED BY <1>0, <2>1, <2>3, <3>6 DEF SilentAt
  <2> QED BY <2>1, <2>2, <2>3
<1>11. ASSUME BackendSelect(c) PROVE SilentAt(c)'
  <2>1. /\ UNCHANGED <<settings, options, data, silent>> /\ at[c] = "forwarded"
        /\ at'[c] = "ready" \/ at'[c] = "responded"
    BY <1>11, BackendSelectType
  <2> QED BY <1>5, <1>6, <2>1 DEF Underway
<1>12. ASSUME Start(c) \/ Restore(c) \/ OpenPicker(c) \/ Pick(c) PROVE SilentAt(c)'
  <2>1. UNCHANGED <<settings, data, silent>> /\ at'[c] \in {"deciding", "granted", "asking"}
    BY <1>12, OnlyMovesType
  <2> QED BY <1>5, <2>1
<1>13. ASSUME NoRescue(c) PROVE SilentAt(c)'
  BY <1>6, <1>13, NoRescueType DEF Underway
<1>14. ASSUME Dismiss(c) \/ EndWithoutToken(c) PROVE SilentAt(c)'
  BY <1>6, <1>14, PlainAnswerType DEF Underway
<1>15. ASSUME StoreToken(c) PROVE SilentAt(c)'
  BY <1>6, <1>15, StoreTokenType DEF Underway
<1>16. ASSUME Hear(c) PROVE SilentAt(c)'
  BY <1>16, SilentHears
<1>17. ASSUME OpenSelector(c) PROVE SilentAt(c)'
  <2>1. silent'[c] = 0
    BY <1>17, OpenSelectorType
  <2> QED BY <2>1 DEF SilentAt
<1>18. ASSUME Update(c) PROVE SilentAt(c)'
  <2>1. /\ at[c] = "idle" /\ settings'[c].token = settings[c].token
        /\ UNCHANGED <<store, at, data, silent>>
    BY <1>18, UpdateType
  <2> QED BY <1>0, <2>1 DEF SilentAt
<1>19. SilentAt(c)'
  BY <1>7, <1>8, <1>9, <1>10, <1>11, <1>12, <1>13, <1>14, <1>15, <1>16, <1>17, <1>18 DEF Act
<1> QED BY <1>1, <1>19 DEF SilentInv, SilentAt

(***************************************************************************)
(* The invariant.                                                          *)
(***************************************************************************)
LEMMA InitInvariant == Init => IInv
<1> SUFFICES ASSUME Init PROVE IInv
  OBVIOUS
<1>1. TypeInv
  BY InitType
<1>2. /\ at = [c \in Clients |-> "idle"] /\ options = [c \in Clients |-> NoOptions]
      /\ data = [c \in Clients |-> Absent] /\ response = [c \in Clients |-> NoResponse]
      /\ silent = [c \in Clients |-> 0] /\ issued = 0
  BY DEF Init
<1>3. SessionInv
  BY <1>2 DEF SessionInv, NoResponse
<1>4. LookupInv
  <2>1. "malformed" # Absent
    BY AbsentAssumption DEF Entries, Data
  <2> QED BY <1>2, <2>1 DEF LookupInv, Resolving, Underway
<1>5. \A c \in Clients : Held(c) = {}
  <2> TAKE c \in Clients
  <2>1. settings[c].token \in {"", OldToken}
    <3>1. settings \in [Clients -> SettingsOf({"", OldToken})]
      BY BeginningsAssumption DEF Init
    <3> QED BY <3>1 DEF SettingsOf
  <2>2. response[c].token = Absent
    BY <1>2 DEF NoResponse
  <2> QED BY <2>1, <2>2, IssuedTokens DEF Held
<1>6. OwnInv
  BY <1>5 DEF OwnInv
<1>7. GoneInv
  BY <1>2 DEF GoneInv, Underway
<1>8. SilentInv
  BY <1>2 DEF SilentInv
<1> QED BY <1>1, <1>3, <1>4, <1>6, <1>7, <1>8 DEF IInv

\* Taking a permission back leaves the sessions alone, and puts nothing behind a token.
LEMMA RevokeKeeps == ASSUME IInv, NEW token \in Tokens, Revoke(token) PROVE IInv'
<1> USE DEF IInv
<1>1. /\ TypeInv' /\ UNCHANGED <<issued, settings, at, options, reason, data, response, silent>>
      /\ \A t \in Tokens : store'[t] \in Data => store[t] = store'[t]
  BY RevokeType
<1>2. SessionInv'
  BY <1>1 DEF SessionInv
<1>3. LookupInv'
  BY <1>1 DEF LookupInv, ActionOf
<1>4. OwnInv'
  BY <1>1 DEF OwnInv, Held
<1>5. GoneInv'
  BY <1>1, IssuedTokens DEF GoneInv
<1>6. SilentInv'
  BY <1>1, IssuedTokens DEF SilentInv, ActionOf
<1> QED BY <1>1, <1>2, <1>3, <1>4, <1>5, <1>6

LEMMA StepInvariant == IInv /\ [Next]_systemVars => IInv'
<1> SUFFICES ASSUME IInv, [Next]_systemVars PROVE IInv'
  OBVIOUS
<1>1. ASSUME NEW c \in Clients, Act(c) PROVE IInv'
  BY <1>1, ActType, SessionActs, LookupActs, OwnActs, GoneActs, SilentActs DEF IInv
<1>2. CASE UNCHANGED systemVars
  BY <1>2 DEF systemVars, IInv, TypeInv, SessionInv, LookupInv, OwnInv, Held, GoneInv, SilentInv, ActionOf
<1> QED BY <1>1, <1>2, RevokeKeeps, NextActs

THEOREM RestoreInvariant == Spec => []IInv
BY InitInvariant, StepInvariant, PTL DEF Spec

\* Every variable of the restore path stays in its type, the count of silent failures included.
THEOREM TypeCorrect == Spec => []TypeOK
<1>1. IInv => TypeOK
  <2> SUFFICES ASSUME IInv PROVE TypeOK
    OBVIOUS
  <2>1. \A c \in Clients : settings[c].token \in Tokens \cup {""} /\ settings[c].action \in Known
    BY DEF IInv, TypeInv, Settings, SettingsOf
  <2>2. \A c \in Clients : response[c].token \in Tokens \cup {Absent}
    BY DEF IInv, TypeInv, Responses
  <2>3. silent \in [Clients -> 0..2]
    BY DEF IInv, TypeInv, SilentInv
  <2> QED BY <2>1, <2>2, <2>3 DEF IInv, TypeInv, TypeOK
<1> QED BY <1>1, RestoreInvariant, PTL

\* For any settings: a source under skip or error that has a token sees a picker only for an alias.
THEOREM PickerOnlyWithReason == Spec => []PickerWithReason
<1>1. IInv => PickerWithReason
  <2> SUFFICES ASSUME IInv, NEW c \in Clients, at[c] = "asking", options[c].token # Absent,
                      Version >= ExtensionVersion
               PROVE  options[c].policy.default = Prompt \/ data[c] = "alias"
    BY DEF PickerWithReason
  <2>1. ActionOf(c) = Prompt \/ data[c] = "alias"
    BY DEF IInv, LookupInv
  <2>2. options[c].policy # Absent
    <3>1. settings[c] \in Settings /\ options[c] = PluginOptions(settings[c], Version)
      BY DEF IInv, TypeInv, SessionInv
    <3>2. settings[c].token # "" /\ ~ (Version < ExtensionVersion)
      <4>1. settings[c].token # ""
        BY <3>1, Sent
      <4>2. ~ (Version < ExtensionVersion)
        <5>1. Version \in Nat
          BY RestoreSystemAssumption
        <5> QED BY <5>1 DEF ExtensionVersion
      <4> QED BY <4>1, <4>2
    <3>3. options[c].policy = DefaultOnly(settings[c].action) /\ settings[c].action \in Known
      BY <3>1, <3>2, Sent
    <3> QED BY <3>3, AbsentAssumption
  <2> QED BY <2>1, <2>2 DEF ActionOf
<1> QED BY <1>1, RestoreInvariant, PTL

\* For any number of sources: a token of its own that OBS is told to discard has no data behind it.
THEOREM InvalidTokenIsGone == Spec => []InvalidMeansGone
<1>1. IInv => InvalidMeansGone
  <2> SUFFICES ASSUME IInv, NEW c \in Clients, at[c] = "responded", Discards(response[c]),
                      options[c].token \in Issued
               PROVE  store[options[c].token] \notin Data
    BY DEF InvalidMeansGone
  <2>1. response[c].token = Absent
    BY DEF IInv, SessionInv, Discards
  <2> QED BY <2>1 DEF IInv, GoneInv
<1> QED BY <1>1, RestoreInvariant, PTL

\* For any number of sources and tokens: no source fails twice in a row without a word.
THEOREM UselessTokenReported == Spec => []UselessTokenIsReported
<1>1. IInv => UselessTokenIsReported
  BY DEF IInv, SilentInv, UselessTokenIsReported
<1> QED BY <1>1, RestoreInvariant, PTL

(***************************************************************************)
(* The contract of a Start, kept by the chain of programs.                 *)
(***************************************************************************)
PlaceBar  == [c \in Clients |-> ContractAt(c)]
TermsBar  == [c \in Clients |-> ContractTerms(c)]
AnswerBar == [c \in Clients |-> ContractAnswer(c)]

LEMMA SameActions ==
  /\ Contract!Known = Known
  /\ Contract!Prompt = Prompt /\ Contract!Skip = Skip /\ Contract!Error = Error
BY DEF Contract!Known, Contract!Prompt, Contract!Skip, Contract!Error, Known, Prompt, Skip, Error

LEMMA TermsType ==
  ASSUME TypeInv, NEW c \in Clients
  PROVE  /\ ContractTerms(c) \in Contract!Terms
         /\ ContractTerms(c).restoring = Decoded(c) /\ ContractTerms(c).action = ActionOf(c)
         /\ ContractTerms(c).consent = (data[c] = "alias")
<1> DEFINE restoring == Decoded(c)
           consent   == data[c] = "alias"
<1>1. restoring \in BOOLEAN /\ consent \in BOOLEAN
  BY DEF Decoded
<1>2. ActionInStart(c) = ActionOf(c) /\ ActionOf(c) \in Known
  BY OneAction DEF ActionInStart
<1>3. ContractTerms(c) = [restoring |-> restoring, action |-> ActionOf(c), consent |-> consent]
  BY <1>2 DEF ContractTerms
<1> HIDE DEF restoring, consent
<1>4. /\ ContractTerms(c) \in Contract!Terms
      /\ ContractTerms(c).restoring = restoring /\ ContractTerms(c).action = ActionOf(c)
      /\ ContractTerms(c).consent = consent
  BY <1>1, <1>2, <1>3, SameActions DEF Contract!Terms
<1> QED BY <1>4 DEF restoring, consent

\* A step that leaves the other sources alone does so in the contract.
LEMMA OneSource ==
  ASSUME NEW c \in Clients, Others(c)
  PROVE  /\ PlaceBar'  = [PlaceBar EXCEPT ![c] = ContractAt(c)'] /\ PlaceBar[c] = ContractAt(c)
         /\ TermsBar'  = [TermsBar EXCEPT ![c] = ContractTerms(c)'] /\ TermsBar[c] = ContractTerms(c)
         /\ AnswerBar' = [AnswerBar EXCEPT ![c] = ContractAnswer(c)'] /\ AnswerBar[c] = ContractAnswer(c)
<1>1. \A d \in Clients : d # c => ContractAt(d)' = ContractAt(d)
  BY DEF Others, ContractAt
<1>2. \A d \in Clients : d # c => ContractTerms(d)' = ContractTerms(d)
  BY DEF Others, ContractTerms, Decoded, ActionInStart, PolicyOf
<1>3. \A d \in Clients : d # c => ContractAnswer(d)' = ContractAnswer(d)
  BY DEF Others, ContractAnswer
<1>4. /\ PlaceBar' = [d \in Clients |-> ContractAt(d)']
      /\ TermsBar' = [d \in Clients |-> ContractTerms(d)']
      /\ AnswerBar' = [d \in Clients |-> ContractAnswer(d)']
  BY DEF PlaceBar, TermsBar, AnswerBar
<1>5. PlaceBar'  = [PlaceBar EXCEPT ![c] = ContractAt(c)'] /\ PlaceBar[c] = ContractAt(c)
  BY <1>1, <1>4 DEF PlaceBar
<1>6. TermsBar'  = [TermsBar EXCEPT ![c] = ContractTerms(c)'] /\ TermsBar[c] = ContractTerms(c)
  BY <1>2, <1>4 DEF TermsBar
<1>7. AnswerBar' = [AnswerBar EXCEPT ![c] = ContractAnswer(c)'] /\ AnswerBar[c] = ContractAnswer(c)
  BY <1>3, <1>4 DEF AnswerBar
<1> QED BY <1>5, <1>6, <1>7

\* What the client reads in the answer of a step.
LEMMA AnswerRead ==
  ASSUME NEW c \in Clients, at'[c] = "responded"
  PROVE  /\ response'[c].code = 0 =>
              ContractAnswer(c)' = [code |-> "success", failure |-> response'[c].failure # Absent]
         /\ response'[c].code = 1 =>
              ContractAnswer(c)' = [code |-> "cancelled", failure |-> response'[c].failure # Absent]
         /\ response'[c].code = 2 =>
              ContractAnswer(c)' = [code |-> "other", failure |-> response'[c].failure # Absent]
<1>1. CodeNames[1] = "success" /\ CodeNames[2] = "cancelled" /\ CodeNames[3] = "other"
  BY DEF CodeNames
<1>2. ContractAnswer(c)' =
        [code |-> CodeNames[response'[c].code + 1], failure |-> response'[c].failure # Absent]
  BY DEF ContractAnswer
<1> QED BY <1>1, <1>2

LEMMA InitKeeps == Init => Contract!Init
<1> SUFFICES ASSUME Init PROVE Contract!Init
  OBVIOUS
<1>1. TypeInv
  BY InitType
<1>2. at = [c \in Clients |-> "idle"]
  BY DEF Init
<1>3. PlaceBar = [c \in Clients |-> "selecting"]
  BY <1>2 DEF PlaceBar, ContractAt
<1>4. TermsBar \in [Clients -> Contract!Terms]
  BY <1>1, TermsType DEF TermsBar
<1>5. AnswerBar = [c \in Clients |-> Contract!NoAnswer]
  BY <1>2 DEF AnswerBar, ContractAnswer, Contract!NoAnswer
<1> QED BY <1>3, <1>4, <1>5 DEF Contract!Init, PlaceBar, TermsBar, AnswerBar

TermsTyped == \A c \in Clients : ContractTerms(c) \in Contract!Terms

\* A step of one source that moves it from one place of the contract to another.
LEMMA Moves ==
  ASSUME NEW c \in Clients, Others(c), NEW from, NEW to, ContractAt(c) = from, ContractAt(c)' = to
  PROVE  Contract!Move(c, from, to)
BY OneSource DEF Contract!Move, PlaceBar

LEMMA TermsStay ==
  ASSUME NEW c \in Clients, Others(c), UNCHANGED <<options, data>>
  PROVE  TermsBar' = TermsBar
<1>1. \A d \in Clients : ContractTerms(d)' = ContractTerms(d)
  BY DEF ContractTerms, Decoded, ActionInStart, PolicyOf
<1> QED BY <1>1 DEF TermsBar

LEMMA AnswerStays ==
  ASSUME NEW c \in Clients, Others(c), at[c] # "responded", at'[c] # "responded"
  PROVE  AnswerBar' = AnswerBar
<1>1. ContractAnswer(c)' = ContractAnswer(c)
  BY DEF ContractAnswer
<1> QED BY <1>1, OneSource DEF AnswerBar

LEMMA Replies ==
  ASSUME NEW c \in Clients, Others(c), NEW code, NEW failure,
         ContractAnswer(c)' = [code |-> code, failure |-> failure]
  PROVE  Contract!Reply(c, code, failure)
BY OneSource DEF Contract!Reply, AnswerBar

\* While a session is set up, its terms may change.
LEMMA SelectKeeps ==
  ASSUME NEW c \in Clients, Others(c), TermsTyped',
         ContractAt(c) = "selecting", ContractAt(c)' = "selecting", at[c] # "responded", at'[c] # "responded"
  PROVE  Contract!Select(c)
<1>1. Contract!Move(c, "selecting", "selecting")
  BY Moves
<1>2. Contract!SetTerms(c)
  <2>1. ContractTerms(c)' \in Contract!Terms
    BY DEF TermsTyped
  <2>2. TermsBar' = [TermsBar EXCEPT ![c] = ContractTerms(c)']
    BY OneSource
  <2> QED BY <2>1, <2>2 DEF Contract!SetTerms, TermsBar
<1>3. AnswerBar' = AnswerBar
  BY AnswerStays
<1> QED BY <1>1, <1>2, <1>3 DEF Contract!Select, AnswerBar

LEMMA ActKeeps ==
  ASSUME IInv, TermsTyped', NEW c \in Clients, Act(c)
  PROVE  Contract!Next \/ UNCHANGED Contract!contractVars
<1> USE DEF IInv
<1>0. Others(c) /\ TermsBar[c] = ContractTerms(c)
  BY ActType, OneSource
<1>1. ASSUME UNCHANGED <<at, options, data, response>>
      PROVE  UNCHANGED Contract!contractVars
  BY <1>1 DEF Contract!contractVars, ContractAt, ContractTerms, Decoded, ActionInStart, PolicyOf,
              ContractAnswer
<1>2. CASE SelectSource(c) \/ LookupPersistent(c) \/ DeletePersistent(c)
  <2>1. ContractAt(c) = "selecting" /\ ContractAt(c)' = "selecting" /\ at[c] # "responded" /\ at'[c] # "responded"
    <3>1. at[c] \in {"idle", "looking", "deleting"}
          /\ at'[c] \in {"looking", "deleting", "missing", "forwarded"}
      BY <1>2 DEF SelectSource, LookupPersistent, DeletePersistent, Go, TypeInv
    <3> QED BY <3>1 DEF ContractAt
  <2> QED BY <1>0, <2>1, SelectKeeps DEF Contract!Next
<1>3. CASE ApplyPolicy(c)
  <2>1. /\ at[c] = "missing" /\ UNCHANGED <<options, data>>
        /\ \/ /\ at'[c] = "responded" /\ ActionOf(c) \in {Skip, Error}
              /\ response'[c] = [code |-> ActionOf(c), failure |-> Failure(reason[c], ActionOf(c), TRUE),
                                 token |-> Absent, phase |-> "select"]
           \/ at'[c] = "forwarded"
    BY <1>3, ApplyPolicyType
  <2>2. TermsBar' = TermsBar
    BY <1>0, <2>1, TermsStay
  <2>3. CASE at'[c] = "forwarded"
    <3>1. ContractAt(c) = "selecting" /\ ContractAt(c)' = "selecting"
      BY <2>1, <2>3 DEF ContractAt
    <3> QED BY <1>0, <2>1, <2>3, <3>1, SelectKeeps DEF Contract!Next
  <2>4. CASE /\ at'[c] = "responded" /\ ActionOf(c) \in {Skip, Error}
             /\ response'[c] = [code |-> ActionOf(c), failure |-> Failure(reason[c], ActionOf(c), TRUE),
                                token |-> Absent, phase |-> "select"]
    <3> DEFINE failure == Failure(reason[c], ActionOf(c), TRUE)
    <3>1. reason[c] \in Reasons
      BY <2>1 DEF LookupInv, TypeInv
    <3>2. failure # Absent
      BY <2>4, <3>1, FailureType DEF Known
    <3> HIDE DEF failure
    <3>3. response'[c] = [code |-> ActionOf(c), failure |-> failure, token |-> Absent, phase |-> "select"]
      BY <2>4 DEF failure
    <3>4. ActionOf(c) \in {1, 2}
      BY <2>4 DEF Skip, Error
    <3>5. response'[c].failure = failure /\ response'[c].code \in {1, 2} /\ response'[c].phase = "select"
      BY <3>3, <3>4
    <3>6. Contract!Move(c, "selecting", "refused")
      <4>1. ContractAt(c) = "selecting" /\ ContractAt(c)' = "refused"
        BY <2>1, <2>4, <3>5 DEF ContractAt
      <4> QED BY <1>0, <4>1, Moves
    <3>7. (response'[c].failure # Absent) = TRUE
      BY <3>2, <3>5
    <3>8. \/ ContractAnswer(c)' = [code |-> "cancelled", failure |-> TRUE]
          \/ ContractAnswer(c)' = [code |-> "other", failure |-> TRUE]
      BY <2>4, <3>5, <3>7, AnswerRead
    <3>9. Contract!Reply(c, "cancelled", TRUE) \/ Contract!Reply(c, "other", TRUE)
      BY <1>0, <3>8, Replies
    <3> QED BY <2>2, <3>6, <3>9 DEF Contract!Next, Contract!Refuse, TermsBar
  <2> QED BY <2>1, <2>3, <2>4
<1>4. CASE BackendSelect(c)
  <2>1. /\ at[c] = "forwarded" /\ UNCHANGED <<options, data>>
        /\ \/ at'[c] = "ready"
           \/ /\ at'[c] = "responded"
              /\ response'[c] = [code |-> 1, failure |-> Absent, token |-> Absent, phase |-> "select"]
           \/ /\ at'[c] = "responded"
              /\ response'[c] = [code |-> 2, failure |-> Failure("token_not_found", Error, TRUE),
                                 token |-> Absent, phase |-> "select"]
    BY <1>4, BackendSelectType
  <2>2. TermsBar' = TermsBar
    BY <1>0, <2>1, TermsStay
  <2>3. CASE at'[c] = "ready"
    <3>1. ContractAt(c) = "selecting" /\ ContractAt(c)' = "selecting"
      BY <2>1, <2>3 DEF ContractAt
    <3> QED BY <1>0, <2>1, <2>3, <3>1, SelectKeeps DEF Contract!Next
  <2>4. ASSUME at'[c] = "responded", response'[c].phase = "select" PROVE Contract!Move(c, "selecting", "refused")
    <3>1. ContractAt(c) = "selecting" /\ ContractAt(c)' = "refused"
      BY <2>1, <2>4 DEF ContractAt
    <3> QED BY <1>0, <3>1, Moves
  <2>5. CASE /\ at'[c] = "responded"
             /\ response'[c] = [code |-> 1, failure |-> Absent, token |-> Absent, phase |-> "select"]
    <3>1. response'[c].code = 1 /\ (response'[c].failure # Absent) = FALSE /\ response'[c].phase = "select"
      BY <2>5
    <3>2. ContractAnswer(c)' = [code |-> "cancelled", failure |-> FALSE]
      BY <2>5, <3>1, AnswerRead
    <3>3. Contract!Reply(c, "cancelled", FALSE)
      BY <1>0, <3>2, Replies
    <3> QED BY <2>2, <2>4, <2>5, <3>1, <3>3 DEF Contract!Next, Contract!Refuse, TermsBar
  <2>6. CASE /\ at'[c] = "responded"
             /\ response'[c] = [code |-> 2, failure |-> Failure("token_not_found", Error, TRUE),
                                token |-> Absent, phase |-> "select"]
    <3> DEFINE failure == Failure("token_not_found", Error, TRUE)
    <3>1. failure # Absent
      BY FailureType DEF Reasons, Known
    <3> HIDE DEF failure
    <3>2. response'[c] = [code |-> 2, failure |-> failure, token |-> Absent, phase |-> "select"]
      BY <2>6 DEF failure
    <3>3. response'[c].code = 2 /\ (response'[c].failure # Absent) = TRUE /\ response'[c].phase = "select"
      BY <3>1, <3>2
    <3>4. ContractAnswer(c)' = [code |-> "other", failure |-> TRUE]
      BY <2>6, <3>3, AnswerRead
    <3>5. Contract!Reply(c, "other", TRUE)
      BY <1>0, <3>4, Replies
    <3> QED BY <2>2, <2>4, <2>6, <3>3, <3>5 DEF Contract!Next, Contract!Refuse, TermsBar
  <2> QED BY <2>1, <2>3, <2>5, <2>6
<1>5. CASE Start(c) \/ Restore(c) \/ OpenPicker(c) \/ Pick(c)
  <2>1. /\ UNCHANGED <<options, data>>
        /\ \/ at[c] = "ready" /\ at'[c] = "deciding"
           \/ at[c] = "deciding" /\ at'[c] = "granted" /\ Decoded(c)
           \/ /\ at[c] = "deciding" /\ at'[c] = "asking"
              /\ ~ Decoded(c) \/ ActionOf(c) = Prompt \/ data[c] = "alias"
           \/ at[c] = "asking" /\ at'[c] = "granted"
    BY <1>5, OnlyMovesType
  <2>2. TermsBar' = TermsBar
    BY <1>0, <2>1, TermsStay
  <2>3. AnswerBar' = AnswerBar
    BY <1>0, <2>1, AnswerStays
  <2>4. CASE at[c] = "ready" /\ at'[c] = "deciding"
    <3>1. ContractAt(c) = "selecting" /\ ContractAt(c)' = "deciding"
      BY <2>4 DEF ContractAt
    <3>2. Contract!Move(c, "selecting", "deciding")
      BY <1>0, <3>1, Moves
    <3> QED BY <2>2, <2>3, <3>2 DEF Contract!Next, Contract!Begin, TermsBar, AnswerBar
  <2>5. CASE at[c] = "deciding" /\ at'[c] = "granted" /\ Decoded(c)
    <3>1. ContractAt(c) = "deciding" /\ ContractAt(c)' = "granted"
      BY <2>5 DEF ContractAt
    <3>2. Contract!Move(c, "deciding", "granted") /\ TermsBar[c].restoring
      BY <1>0, <2>5, <3>1, Moves, TermsType
    <3> QED BY <2>2, <2>3, <3>2 DEF Contract!Next, Contract!Grant, TermsBar, AnswerBar
  <2>6. CASE /\ at[c] = "deciding" /\ at'[c] = "asking"
             /\ ~ Decoded(c) \/ ActionOf(c) = Prompt \/ data[c] = "alias"
    <3>1. ContractAt(c) = "deciding" /\ ContractAt(c)' = "asking"
      BY <2>6 DEF ContractAt
    <3>2. Contract!Move(c, "deciding", "asking")
      BY <1>0, <3>1, Moves
    <3>3. (TermsBar[c].restoring /\ TermsBar[c].action # Contract!Prompt) => TermsBar[c].consent
      BY <1>0, <2>6, TermsType, SameActions
    <3> QED BY <2>2, <2>3, <3>2, <3>3 DEF Contract!Next, Contract!Ask, TermsBar, AnswerBar
  <2>7. CASE at[c] = "asking" /\ at'[c] = "granted"
    <3>1. ContractAt(c) = "asking" /\ ContractAt(c)' = "granted"
      BY <2>7 DEF ContractAt
    <3>2. Contract!Move(c, "asking", "granted")
      BY <1>0, <3>1, Moves
    <3> QED BY <2>2, <2>3, <3>2 DEF Contract!Next, Contract!Grant, TermsBar, AnswerBar
  <2> QED BY <2>1, <2>4, <2>5, <2>6, <2>7
<1>6. CASE NoRescue(c)
  <2>1. /\ at[c] = "deciding" /\ at'[c] = "responded" /\ Decoded(c) /\ UNCHANGED <<options, data>>
        /\ \/ /\ ActionOf(c) = Skip
              /\ response'[c] = [code |-> 1, failure |-> Absent, token |-> Absent, phase |-> "start"]
           \/ /\ ActionOf(c) = Error
              /\ response'[c] = [code |-> 2, failure |-> Failure("source_unavailable", Error, FALSE),
                                 token |-> Absent, phase |-> "start"]
    BY <1>6, NoRescueType
  <2>2. TermsBar' = TermsBar
    BY <1>0, <2>1, TermsStay
  <2>3. TermsBar[c].restoring /\ TermsBar[c].action = ActionOf(c)
    BY <1>0, <2>1, TermsType
  <2>4. ASSUME response'[c].phase = "start" PROVE Contract!Move(c, "deciding", "done")
    <3>1. ContractAt(c) = "deciding" /\ ContractAt(c)' = "done"
      BY <2>1, <2>4 DEF ContractAt
    <3> QED BY <1>0, <3>1, Moves
  <2>5. CASE /\ ActionOf(c) = Skip
             /\ response'[c] = [code |-> 1, failure |-> Absent, token |-> Absent, phase |-> "start"]
    <3>1. response'[c].code = 1 /\ (response'[c].failure # Absent) = FALSE /\ response'[c].phase = "start"
      BY <2>5
    <3>2. ContractAnswer(c)' = [code |-> "cancelled", failure |-> FALSE]
      BY <2>1, <3>1, AnswerRead
    <3>3. Contract!Reply(c, "cancelled", FALSE)
      BY <1>0, <3>2, Replies
    <3> QED BY <2>2, <2>3, <2>4, <2>5, <3>1, <3>3, SameActions
            DEF Contract!Next, Contract!FailByPolicy, TermsBar
  <2>6. CASE /\ ActionOf(c) = Error
             /\ response'[c] = [code |-> 2, failure |-> Failure("source_unavailable", Error, FALSE),
                                token |-> Absent, phase |-> "start"]
    <3> DEFINE failure == Failure("source_unavailable", Error, FALSE)
    <3>1. failure # Absent
      BY FailureType DEF Reasons, Known
    <3> HIDE DEF failure
    <3>2. response'[c] = [code |-> 2, failure |-> failure, token |-> Absent, phase |-> "start"]
      BY <2>6 DEF failure
    <3>3. response'[c].code = 2 /\ (response'[c].failure # Absent) = TRUE /\ response'[c].phase = "start"
      BY <3>1, <3>2
    <3>4. ContractAnswer(c)' = [code |-> "other", failure |-> TRUE]
      BY <2>1, <3>3, AnswerRead
    <3>5. Contract!Reply(c, "other", TRUE)
      BY <1>0, <3>4, Replies
    <3> QED BY <2>2, <2>3, <2>4, <2>6, <3>3, <3>5, SameActions
            DEF Contract!Next, Contract!FailByPolicy, TermsBar
  <2> QED BY <2>1, <2>5, <2>6
<1>7. CASE Dismiss(c) \/ EndWithoutToken(c)
  <2>1. PICK code \in 0..2 :
          /\ response'[c] = [code |-> code, failure |-> Absent, token |-> Absent, phase |-> "start"]
          /\ \/ at[c] = "asking" /\ code = 1
             \/ at[c] = "granted" /\ code \in {0, 2}
    BY <1>7, PlainAnswerType
  <2>2. at'[c] = "responded" /\ UNCHANGED <<options, data>>
    BY <1>7, PlainAnswerType
  <2>3. TermsBar' = TermsBar
    BY <1>0, <2>2, TermsStay
  <2>4. response'[c].code = code /\ (response'[c].failure # Absent) = FALSE /\ response'[c].phase = "start"
    BY <2>1
  <2>5. ContractAt(c)' = "done"
    BY <2>2, <2>4 DEF ContractAt
  <2>6. CASE at[c] = "asking" /\ code = 1
    <3>1. ContractAt(c) = "asking"
      BY <2>6 DEF ContractAt
    <3>2. ContractAnswer(c)' = [code |-> "cancelled", failure |-> FALSE]
      BY <2>2, <2>4, <2>6, AnswerRead
    <3>3. Contract!Move(c, "asking", "done") /\ Contract!Reply(c, "cancelled", FALSE)
      BY <1>0, <2>5, <3>1, <3>2, Moves, Replies
    <3> QED BY <2>3, <3>3 DEF Contract!Next, Contract!Dismiss, TermsBar
  <2>7. CASE at[c] = "granted" /\ code \in {0, 2}
    <3>1. ContractAt(c) = "granted"
      BY <2>7 DEF ContractAt
    <3>2. \/ ContractAnswer(c)' = [code |-> "success", failure |-> FALSE]
          \/ ContractAnswer(c)' = [code |-> "other", failure |-> FALSE]
      BY <2>2, <2>4, <2>7, AnswerRead
    <3>3. Contract!Move(c, "granted", "done")
      BY <1>0, <2>5, <3>1, Moves
    <3>4. Contract!Reply(c, "success", FALSE) \/ Contract!Reply(c, "other", FALSE)
      BY <1>0, <3>2, Replies
    <3> QED BY <2>3, <3>3, <3>4 DEF Contract!Next, Contract!Finish, TermsBar
  <2> QED BY <2>1, <2>6, <2>7
<1>8. CASE StoreToken(c)
  <2>1. PICK token \in Tokens :
          response'[c] = [code |-> 0, failure |-> Absent, token |-> token, phase |-> "start"]
    BY <1>8, StoreTokenType
  <2>2. at[c] = "granted" /\ at'[c] = "responded" /\ UNCHANGED <<options, data>>
    BY <1>8, StoreTokenType
  <2>3. TermsBar' = TermsBar
    BY <1>0, <2>2, TermsStay
  <2>4. response'[c].code = 0 /\ (response'[c].failure # Absent) = FALSE /\ response'[c].phase = "start"
    BY <2>1
  <2>5. ContractAt(c) = "granted" /\ ContractAt(c)' = "done"
    BY <2>2, <2>4 DEF ContractAt
  <2>6. ContractAnswer(c)' = [code |-> "success", failure |-> FALSE]
    BY <2>2, <2>4, AnswerRead
  <2>7. Contract!Move(c, "granted", "done") /\ Contract!Reply(c, "success", FALSE)
    BY <1>0, <2>5, <2>6, Moves, Replies
  <2> QED BY <2>3, <2>7 DEF Contract!Next, Contract!Finish, TermsBar
<1>9. CASE Hear(c)
  <2>1. at[c] = "responded" /\ at'[c] = "idle"
    BY <1>9, HearType
  <2>2. ContractAt(c) \in {"refused", "done"} /\ ContractAt(c)' = "selecting"
    BY <2>1 DEF ContractAt
  <2>3. Contract!Move(c, ContractAt(c), "selecting")
    BY <1>0, <2>2, Moves
  <2>4. Contract!SetTerms(c)
    <3>1. ContractTerms(c)' \in Contract!Terms
      BY DEF TermsTyped
    <3>2. TermsBar' = [TermsBar EXCEPT ![c] = ContractTerms(c)']
      BY <1>0, OneSource
    <3> QED BY <3>1, <3>2 DEF Contract!SetTerms, TermsBar
  <2>5. AnswerBar' = [AnswerBar EXCEPT ![c] = Contract!NoAnswer]
    <3>1. ContractAnswer(c)' = Contract!NoAnswer
      BY <2>1 DEF ContractAnswer, Contract!NoAnswer
    <3> QED BY <1>0, <3>1, OneSource
  <2>6. PlaceBar[c] = ContractAt(c)
    BY DEF PlaceBar
  <2> QED BY <2>2, <2>3, <2>4, <2>5, <2>6 DEF Contract!Next, Contract!Again, PlaceBar, AnswerBar
<1>10. CASE OpenSelector(c) \/ Update(c)
  BY <1>1, <1>10, OpenSelectorType, UpdateType
<1> QED BY <1>2, <1>3, <1>4, <1>5, <1>6, <1>7, <1>8, <1>9, <1>10 DEF Act

LEMMA StepKeeps ==
  IInv /\ TermsTyped' /\ [Next]_systemVars => [Contract!Next]_(Contract!contractVars)
<1> SUFFICES ASSUME IInv, TermsTyped', [Next]_systemVars
             PROVE  Contract!Next \/ UNCHANGED Contract!contractVars
  OBVIOUS
<1>1. ASSUME UNCHANGED <<at, options, data, response>>
      PROVE  UNCHANGED Contract!contractVars
  BY <1>1 DEF Contract!contractVars, ContractAt, ContractTerms, Decoded, ActionInStart, PolicyOf,
              ContractAnswer
<1>2. ASSUME NEW c \in Clients, Act(c) PROVE Contract!Next \/ UNCHANGED Contract!contractVars
  BY <1>2, ActKeeps
<1>3. ASSUME NEW token \in Tokens, Revoke(token) PROVE UNCHANGED Contract!contractVars
  BY <1>1, <1>3 DEF Revoke, sessionVars
<1>4. CASE UNCHANGED systemVars
  BY <1>1, <1>4 DEF systemVars
<1> QED BY <1>2, <1>3, <1>4, NextActs

\* The chain of programs implements the contract of a Start, for any number of sources, whatever their
\* settings, tokens, data and the portal's version, with permissions taken back in between.
THEOREM ChainKeepsContract == Spec => KeepsContract
<1>1. IInv => TermsTyped
  BY TermsType DEF IInv, TermsTyped
<1> QED BY <1>1, InitKeeps, StepKeeps, RestoreInvariant, PTL DEF Spec, KeepsContract, Contract!Spec
==============================================================================
