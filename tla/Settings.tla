------------------------------ MODULE Settings --------------------------------
(***************************************************************************)
(* What can be switched for one organization: a feature flag, cached by    *)
(* every process for a while, and the text of a prompt, which is rendered  *)
(* from the organization's override or from the template in the code.      *)
(***************************************************************************)
EXTENDS Integers, FiniteSets, Sequences, SequencesExt

CONSTANTS
  AppProcess,       \* processes, each with a cache
  Toggler,       \* overlapping calls of setOverride
  FlagDefault,   \* the flag's value in the catalog
  Ttl, MaxTime,  \* cacheTtlMs, and a bound on the ticks
  Piece,         \* what a text is made of: plain text and placeholders
  Variable,      \* variables the template declares, each a placeholder
  Template,      \* the template and the overrides: sequences of tokens
  MaxToggles

ASSUME SettingsAssumption ==
  /\ FlagDefault \in BOOLEAN /\ {Ttl, MaxTime, MaxToggles} \subseteq Nat
  /\ IsFiniteSet(Variable) /\ Variable \subseteq Piece \ {"text"}
  /\ "text" \in Piece /\ Template \subseteq Seq(Piece)

VARIABLES
  flagRow,      \* feature_flags has the row of the flag
  override,     \* the organization's override, or "unset"
  cache,        \* of each process: the value and when it expires
  loading,      \* of each process: the value its open load has read
  flagAnswer,   \* the last answer of a process
  writes,       \* overrides written so far
  own,          \* of each process: the last write it has finished itself
  toggler,      \* where each setOverride is
  time, toggles,
  prompt,       \* the organization's override of the prompt, or the template
  rendered      \* the last prompt rendered

flagVars ==
  <<flagRow, override, cache, loading, flagAnswer, writes, own, toggler, time, toggles>>
promptVars == <<prompt, rendered>>
settingsVars == <<flagVars, promptVars>>

Nothing == [held |-> FALSE]
Off == [at |-> "idle"]
NotRendered == [ok |-> FALSE]
Plain == {"text"}

SettingsTypeOK ==
  /\ flagRow \in BOOLEAN /\ override \in {"unset", "on", "off"}
  /\ override # "unset" => flagRow
  /\ \A p \in AppProcess : cache[p].held => cache[p].until \in 0..(MaxTime + Ttl)
  /\ \A t \in Toggler : toggler[t].at \in {"idle", "looked", "flagged", "written"}
  /\ time \in 0..MaxTime /\ toggles \in 0..MaxToggles
  /\ prompt \in Template

SettingsInit ==
  /\ flagRow \in BOOLEAN /\ override = "unset"
  /\ cache = [p \in AppProcess |-> Nothing] /\ loading = [p \in AppProcess |-> Nothing]
  /\ flagAnswer = Nothing
  /\ writes = 0 /\ own = [p \in AppProcess |-> 0]
  /\ toggler = [t \in Toggler |-> Off] /\ time = 0 /\ toggles = 0
  /\ prompt \in Template /\ rendered = NotRendered

-----------------------------------------------------------------------------
(* isEnabled: the cached value while it lasts, else the effective one,     *)
(* which is remembered when the query has answered.                        *)
Effective == IF override = "unset" THEN FlagDefault ELSE override = "on"

Fresh(p) == cache[p].held /\ cache[p].until > time

AnswerFlag(value, since) ==
  flagAnswer' = [held |-> TRUE, value |-> value, since |-> since, at |-> time]

AskFlag(p) ==
  /\ ~loading[p].held
  /\ IF Fresh(p)
     THEN AnswerFlag(cache[p].value, cache[p].kept) /\ UNCHANGED <<cache, loading>>
     ELSE /\ cache' = [cache EXCEPT ![p] = Nothing]
          /\ loading' = [loading EXCEPT ![p] =
                           [held |-> TRUE, value |-> Effective, version |-> writes,
                            overtaken |-> FALSE]]
          /\ UNCHANGED flagAnswer
  /\ UNCHANGED <<flagRow, override, writes, own, toggler, time, toggles, promptVars>>

Remember(p) ==
  /\ loading[p].held
  /\ cache' = [cache EXCEPT ![p] =
                 [held |-> TRUE, value |-> loading[p].value, kept |-> time,
                  until |-> time + Ttl, version |-> loading[p].version,
                  overtaken |-> loading[p].overtaken]]
  /\ AnswerFlag(loading[p].value, time)
  /\ loading' = [loading EXCEPT ![p] = Nothing]
  /\ UNCHANGED <<flagRow, override, writes, own, toggler, time, toggles, promptVars>>

Tick ==
  /\ time < MaxTime /\ time' = time + 1
  /\ UNCHANGED <<flagRow, override, cache, loading, flagAnswer, writes, own, toggler, toggles,
                 promptVars>>

(* setOverride: the flag's row is looked for, written when it is missing   *)
(* (a second writer meets its unique key and fails), then the override is  *)
(* upserted, then the process that did it forgets its value.               *)
Toggled(t, to) == toggler' = [toggler EXCEPT ![t] = to]

LookForFlag(t, p, value) ==
  /\ toggler[t].at = "idle" /\ toggles < MaxToggles /\ toggles' = toggles + 1
  /\ Toggled(t, [at |-> IF flagRow THEN "flagged" ELSE "looked", value |-> value, by |-> p])
  /\ UNCHANGED <<flagRow, override, cache, loading, flagAnswer, writes, own, time, promptVars>>

AddFlag(t) ==
  /\ toggler[t].at = "looked" /\ flagRow' = TRUE
  /\ Toggled(t, IF flagRow THEN Off ELSE [toggler[t] EXCEPT !.at = "flagged"])
  /\ UNCHANGED <<override, cache, loading, flagAnswer, writes, own, time, toggles, promptVars>>

WriteOverride(t) ==
  /\ toggler[t].at = "flagged" /\ override' = toggler[t].value
  /\ writes' = writes + 1
  /\ Toggled(t, [at |-> "written", by |-> toggler[t].by, version |-> writes'])
  /\ UNCHANGED <<flagRow, cache, loading, flagAnswer, own, time, toggles, promptVars>>

ForgotNothing(p) == cache[p]
Forgotten(p) == Nothing

Invalidate(t) ==
  LET p == toggler[t].by IN
  /\ toggler[t].at = "written"
  /\ cache' = [cache EXCEPT ![p] = Forgotten(p)]
  /\ loading' = [loading EXCEPT ![p] = IF @.held THEN [@ EXCEPT !.overtaken = TRUE] ELSE @]
  /\ own' = [own EXCEPT ![p] = IF @ > toggler[t].version THEN @ ELSE toggler[t].version]
  /\ Toggled(t, Off)
  /\ UNCHANGED <<flagRow, override, flagAnswer, writes, time, toggles, promptVars>>

FlagNext ==
  \/ Tick
  \/ \E p \in AppProcess : AskFlag(p) \/ Remember(p)
  \/ \E t \in Toggler : AddFlag(t) \/ WriteOverride(t) \/ Invalidate(t)
  \/ \E t \in Toggler, p \in AppProcess, v \in {"on", "off"} : LookForFlag(t, p, v)

-----------------------------------------------------------------------------
(* PromptRegistryService: the override, if there is one, else the template *)
(* of the code, with every declared variable replaced in turn; a variable  *)
(* without a value, and a placeholder that is left, are errors.            *)
SetPrompt(text) ==
  /\ prompt' = text /\ UNCHANGED <<flagVars, rendered>>

Substituted(text, by) ==
  LET upTo[n \in 0..Len(text)] == IF n = 0 THEN << >> ELSE upTo[n - 1] \o by[text[n]]
  IN  upTo[Len(text)]

Replaced(text, variable, value) ==
  Substituted(text, [x \in Piece |-> IF x = variable THEN value ELSE <<x>>])

AllReplaced(text, values, order) ==
  LET after[n \in 0..Len(order)] ==
        IF n = 0 THEN text ELSE Replaced(after[n - 1], order[n], values[order[n]])
  IN  after[Len(order)]

Leftover(text) == \E i \in 1..Len(text) : text[i] \notin Plain

(* The values may be any text, with placeholders in it too.                *)
Render(values, order) ==
  LET text == AllReplaced(prompt, values, order) IN
  /\ rendered' = IF Leftover(text) THEN NotRendered
                 ELSE [ok |-> TRUE, text |-> text, of |-> prompt, values |-> values]
  /\ UNCHANGED <<flagVars, prompt>>

MissingVariable == rendered' = NotRendered /\ UNCHANGED <<flagVars, prompt>>

Values == {<<"text">>} \union {<<"text", v>> : v \in Variable} \union {<< >>}

PromptNext ==
  \/ \E t \in Template : SetPrompt(t)
  \/ MissingVariable
  \/ \E values \in [Variable -> Values] : Render(values, SetToSeq(Variable))

SettingsNext == FlagNext \/ PromptNext
SettingsSpec == SettingsInit /\ [][SettingsNext]_settingsVars

-----------------------------------------------------------------------------
(* No process answers with a value it has kept for longer than the cache   *)
(* lasts; and one that has toggled the flag has forgotten what it knew     *)
(* before, all but what a load that was open then brings it                *)
(* (feature-flag.service isEnabled, setOverride).                          *)
FlagIsRecent ==
  /\ flagAnswer.held =>
       flagAnswer.at = flagAnswer.since \/ flagAnswer.at < flagAnswer.since + Ttl
  /\ \A p \in AppProcess :
       cache[p].held /\ ~cache[p].overtaken => cache[p].version >= own[p]

(* A prompt is delivered only without placeholders; when no value has one, *)
(* it is its source with each variable replaced at once (prompt-registry   *)
(* resolve, render).                                                       *)
ReplacedAtOnce(text, values) ==
  Substituted(text, [x \in Piece |-> IF x \in Variable THEN values[x] ELSE <<x>>])

PromptIsComplete ==
  rendered.ok =>
    /\ \A i \in 1..Len(rendered.text) : rendered.text[i] = "text"
    /\ (\A v \in Variable : ToSet(rendered.values[v]) \subseteq Plain)
         => rendered.text = ReplacedAtOnce(rendered.of, rendered.values)
=============================================================================
