------------------------------ MODULE MatchRules ------------------------------
(***************************************************************************)
(* restore_match_rules, from the text a user types to the rules a portal   *)
(* works with.  OBS and the mock crate's model of it parse the text; the   *)
(* front end limits the array; the mock and COSMIC parse its entries.      *)
(*                                                                         *)
(* A line is a sequence of pieces: white space, a scope prefix, and        *)
(* patterns that contain neither.  A pattern on the wire is what is left   *)
(* of a line, again a sequence of pieces.                                  *)
(***************************************************************************)
EXTENDS RestoreActions, Positions, SequencesExt, FiniteSetsExt

CONSTANTS
  Patterns,     \* pattern texts
  Broken,       \* those that are too long, or no regular expression
  MaxRules,     \* the limit of rules: 64
  NotString     \* it has one, of another type

\* "ascii" is white space to everyone, "wide" to Rust only.
WhiteSpace == {"ascii", "wide"}

ScopeOfPrefix ==
  [prefix \in {"any_app:", "any:", "same_app:", "same:"} |->
     IF prefix \in {"any_app:", "any:"} THEN "any_app" ELSE "same_app"]

Pieces == WhiteSpace \cup DOMAIN ScopeOfPrefix \cup Patterns

\* What a line can come to.
LineRule == [kind : {"title_regex"}, pattern : Seq(Pieces), scope : {"same_app", "any_app"}]

ASSUME MatchRulesAssumption ==
  /\ Broken \subseteq Patterns
  /\ MaxRules \in Nat
  /\ Absent \notin LineRule /\ Absent \notin Seq(LineRule)
  /\ Absent \notin {"same_app", "any_app"} /\ NotString \notin {"same_app", "any_app"}
  /\ \A other \in {Absent, NotString} : other # "title_regex" /\ other \notin Seq(Pieces)

\* trim: no white space at either end.
Trim(line, spaces) ==
  LET ink == {i \in DOMAIN line : line[i] \notin spaces}
  IN  IF ink = {} THEN <<>> ELSE SubSeq(line, Min(ink), Max(ink))

TitleRegex(pattern, scope) == [kind |-> "title_regex", pattern |-> pattern, scope |-> scope]

\* The rule of one trimmed line, if it has one.
RuleOfLine(line, spaces) ==
  LET prefixed == line # <<>> /\ line[1] \in DOMAIN ScopeOfPrefix
      pattern  == IF prefixed THEN Trim(Tail(line), spaces) ELSE line
  IN  IF pattern = <<>> THEN Absent
      ELSE TitleRegex(pattern, IF prefixed THEN ScopeOfPrefix[line[1]] ELSE "same_app")

Present(rules) == Chosen(rules, {i \in DOMAIN rules : rules[i] # Absent})

\* The mock crate's grammar.
ParseRestoreMatchRulesText(text) ==
  Present([i \in DOMAIN text |-> RuleOfLine(Trim(text[i], WhiteSpace), WhiteSpace)])

\* OBS: g_strstrip knows ASCII only.  Mutant: a line is not stripped before its prefix is looked for.
PluginUnstripped(text) ==
  Present([i \in DOMAIN text |-> RuleOfLine(text[i], {"ascii"})])

AddRestoreMatchRules(text) ==
  Present([i \in DOMAIN text |-> RuleOfLine(Trim(text[i], {"ascii"}), {"ascii"})])

(***************************************************************************)
(* The array on the wire.  An entry has the three fields, any of which may *)
(* be Absent or NotString in a client's own.                               *)
(***************************************************************************)
Entry == [kind    : {Absent, NotString} \cup STRING,
          pattern : {Absent, NotString} \cup Seq(Pieces),
          scope   : {Absent, NotString} \cup STRING]

Scopes == {"same_app", "any_app"}

ScopeNamed(name) ==
  IF name \in {"same_app", "same"} THEN "same_app"
  ELSE IF name \in {"any_app", "any"} THEN "any_app" ELSE "unknown"

IsString(field) == field \notin {Absent, NotString}

\* The mock refuses the whole array for one entry it cannot read.
MockReads(entry) ==
  /\ IsString(entry.kind) /\ IsString(entry.pattern)
  /\ entry.scope # NotString
  /\ entry.scope # Absent => ScopeNamed(entry.scope) # "unknown"

MockAccepts(entries) == \A i \in DOMAIN entries : MockReads(entries[i])

\* Mutant: an entry without a scope reaches every application.
WidestScope(entry) == IF entry.scope = Absent THEN "any_app" ELSE ScopeNamed(entry.scope)

MockScope(entry) == IF entry.scope = Absent THEN "same_app" ELSE ScopeNamed(entry.scope)

MockRules(entries) ==
  [i \in DOMAIN entries |-> [entries[i] EXCEPT !.scope = MockScope(entries[i])]]

\* COSMIC skips the entries it cannot use; a scope of another type counts as none.
CosmicScope(entry) == IF IsString(entry.scope) THEN ScopeNamed(entry.scope) ELSE "same_app"

Compiles(pattern) == \A i \in DOMAIN pattern : pattern[i] \notin Broken

CosmicUses(entry) ==
  /\ entry.kind = "title_regex"
  /\ IsString(entry.pattern)
  /\ Trim(entry.pattern, WhiteSpace) # <<>>
  /\ CosmicScope(entry) # "unknown"
  /\ Compiles(entry.pattern)

Usable(entries) == Chosen(entries, {i \in DOMAIN entries : CosmicUses(entries[i])})

CosmicRules(entries) ==
  LET usable == Usable(entries)
  IN  [i \in 1..Min({Len(usable), MaxRules}) |->
         [usable[i] EXCEPT !.scope = CosmicScope(usable[i])]]

\* xdg-desktop-portal counts the entries and looks no further.
FrontEndAccepts(entries) == Len(entries) <= MaxRules
==============================================================================
