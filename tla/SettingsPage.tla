---------------------------- MODULE SettingsPage ----------------------------
(***************************************************************************)
(* The admin's settings: rows in the database, the store's cache of them,   *)
(* the list the browser holds, and the form.  Saving sends one request for  *)
(* each changed setting, all at once; the server checks each against the    *)
(* others in its cache before it stores it.  Two numbers that depend on one *)
(* another (reserve < max), a list that is cleaned up when it is sent and a *)
(* secret that is never sent back stand for the twenty-three settings.      *)
(***************************************************************************)
EXTENDS Integers, Sequences

CONSTANTS None,
          Numbers,   \* what may be typed for the two numbers, by key
          TypedLists, \* what may be typed for the list; "" is a blank entry
          MaxEdits,  \* bound: edits of the admin
          MaxSaves   \* bound: presses of "Save changes"

VARIABLES
  rows,         \* settings: the table
  cache,        \* SettingsStore.cache
  listed,       \* the query cache: values, are they fresh, are they invalid?
  refetch,        \* its fetch: "none", "asked", or the answer on its way
  formDraft,    \* draft
  apiKeyDraft,
  patch,        \* requests of the save, by key
  orphans,      \* <<key, value, stage>>: requests of saves that failed meanwhile
  saving,       \* saveMutation: "no", "patching", "refetching"
  edits, saves  \* so far, for the bounds

settingVars == <<rows, cache, listed, refetch, formDraft, apiKeyDraft, patch, orphans,
                saving, edits, saves>>

max == "llm_context_max"
reserve == "llm_context_reserve"
models == "llm_models"
apiKey == "llm_api_key"
Keys == {max, reserve, models, apiKey}
Fields == Keys \ {apiKey}
Keyed == {"", "secret"}

\* trimmedModelValues: entries that are blank are not sent.
trimmedModelValues(list) == SelectSeq(list, LAMBDA entry : entry # "")

Typable(key) == IF key = models THEN TypedLists ELSE Numbers[key]
Stored(key) == IF key = apiKey THEN Keyed
               ELSE IF key = models THEN {trimmedModelValues(l) : l \in TypedLists} ELSE Numbers[key]

Stage == {"sent", "checked", "written", "done", "failed"}

IsForm(f) == DOMAIN f = Fields /\ \A k \in Fields : f[k] \in Typable(k)
IsRows(r) ==
    DOMAIN r = Keys /\ \A k \in Keys : r[k] \in Stored(k) \/ (k = apiKey /\ r[k] = "mask")

TypeOK ==
    /\ IsRows(rows) /\ IsRows(cache) /\ IsRows(listed.values)
    /\ listed.fresh \in BOOLEAN /\ listed.invalid \in BOOLEAN
    /\ refetch.at \in {"none", "asked", "answered"}
    /\ formDraft = None \/ IsForm(formDraft)
    /\ apiKeyDraft \in Keyed \cup {None}
    /\ DOMAIN patch \subseteq Keys
    /\ \A k \in DOMAIN patch : patch[k].value \in Stored(k) /\ patch[k].at \in Stage
    /\ \A o \in orphans : o[1] \in Keys /\ o[2] \in Stored(o[1]) /\ o[3] \in Stage
    /\ saving \in {"no", "patching", "refetching"}
    /\ edits \in 0 .. MaxEdits /\ saves \in 0 .. MaxSaves

-----------------------------------------------------------------------------
\* store.rs, to_item_with: of a secret only whether there is one
list_all == [cache EXCEPT ![apiKey] = IF @ = "" THEN "" ELSE "mask"]

\* settingsListToFormValues
Loaded == [k \in Fields |-> listed.values[k]]

\* The placeholder that says a key is set: asked of the mask, which it is not.
llmApiKeyConfigured == listed.values[apiKey] \notin {"", "mask"}

currentValues == IF formDraft # None THEN formDraft ELSE Loaded

isDirty == formDraft # None \/ apiKeyDraft # None

\* AdminSettingsFormSections: each field shows its value; the list has a row
\* for each entry, and the last one cannot be removed.
FormSections ==
    [values |-> currentValues,
     apiKey |-> IF apiKeyDraft # None THEN apiKeyDraft
                ELSE IF llmApiKeyConfigured THEN "mask" ELSE "",
     canRemove |-> Len(currentValues[models]) > 1,
     canSave |-> isDirty /\ saving = "no"]

\* Mutant: blank entries are sent too.
SentAsTyped(key, value) == value

\* dirtySettingPatches
Sent(key, value) == IF key = models THEN trimmedModelValues(value) ELSE value

dirtySettingPatches ==
    LET dirty == {k \in Fields : Sent(k, currentValues[k]) # Sent(k, Loaded[k])}
        keys  == dirty \cup (IF apiKeyDraft = None THEN {} ELSE {apiKey})
    IN [k \in keys |-> [at |-> "sent",
                        value |-> IF k = apiKey THEN apiKeyDraft ELSE Sent(k, currentValues[k])]]

\* validate_cross: against the value the cache has of the other.
validate_cross(key, value) ==
    /\ key = reserve => value < cache[max]
    /\ key = max => cache[reserve] < value

-----------------------------------------------------------------------------
NoFetch == [at |-> "none", values |-> None]

Init ==
    /\ rows = [k \in Keys |-> CASE k = max -> 3 [] k = reserve -> 1
                                [] k = models -> <<"a">> [] OTHER -> "secret"]
    /\ cache = rows
    /\ listed = [values |-> list_all, fresh |-> TRUE, invalid |-> FALSE]
    /\ refetch = NoFetch
    /\ formDraft = None /\ apiKeyDraft = None
    /\ patch = <<>> /\ orphans = {} /\ saving = "no" /\ edits = 0 /\ saves = 0

\* updateNumber, updateString, updateBoolean, updateLlmModel, addLlmModel and
\* removeLlmModel: one field differs; the fields stay open during a save.
Edit ==
    /\ edits < MaxEdits
    /\ edits' = edits + 1
    /\ \/ /\ \E k \in Fields : \E value \in Typable(k) :
                /\ k = models => /\ Len(value) - Len(currentValues[k]) \in {-1, 0, 1}
                                 /\ Len(value) < Len(currentValues[k]) => FormSections.canRemove
                /\ formDraft' = [currentValues EXCEPT ![k] = value]
          /\ UNCHANGED apiKeyDraft
       \/ apiKeyDraft' \in Keyed /\ UNCHANGED formDraft
    /\ UNCHANGED <<rows, cache, listed, refetch, patch, orphans, saving, saves>>

handleSubmit ==
    /\ FormSections.canSave
    /\ saves < MaxSaves
    /\ saves' = saves + 1
    /\ patch' = dirtySettingPatches
    /\ saving' = "patching"
    /\ UNCHANGED <<rows, cache, listed, refetch, formDraft, apiKeyDraft, orphans, edits>>

-----------------------------------------------------------------------------
\* SettingsStore.update: checked, written, then put into the cache.  A request
\* goes through the same stages whether or not a save still waits for it.

Moves(key, value, from, to) ==
    \/ /\ key \in DOMAIN patch /\ patch[key] = [at |-> from, value |-> value]
       /\ patch' = [patch EXCEPT ![key].at = to]
       /\ UNCHANGED orphans
    \/ /\ <<key, value, from>> \in orphans
       /\ orphans' = (orphans \ {<<key, value, from>>}) \cup {<<key, value, to>>}
       /\ UNCHANGED patch

UpdateChecks(k, value) ==
    /\ Moves(k, value, "sent", IF validate_cross(k, value) THEN "checked" ELSE "failed")
    /\ UNCHANGED <<rows, cache, listed, refetch, formDraft, apiKeyDraft, saving, edits, saves>>

UpdateWrites(k, value) ==
    /\ Moves(k, value, "checked", "written")
    /\ rows' = [rows EXCEPT ![k] = value]
    /\ UNCHANGED <<cache, listed, refetch, formDraft, apiKeyDraft, saving, edits, saves>>

UpdateCaches(k, value) ==
    /\ Moves(k, value, "written", "done")
    /\ cache' = [cache EXCEPT ![k] = value]
    /\ UNCHANGED <<rows, listed, refetch, formDraft, apiKeyDraft, saving, edits, saves>>

\* The database refuses the write, or to read the row back for the cache, or
\* the answer is lost.
UpdateFails(k, value) ==
    /\ saving = "patching"
    /\ \E stage \in {"checked", "written", "done"} : Moves(k, value, stage, "failed")
    /\ UNCHANGED <<rows, cache, listed, refetch, formDraft, apiKeyDraft, saving, edits, saves>>

-----------------------------------------------------------------------------
\* saveMutation: Promise.all, then fetchQuery, which is content with data that
\* are fresh and joins a fetch that is under way.

PatchesDone ==
    /\ saving = "patching" /\ \A k \in DOMAIN patch : patch[k].at = "done"
    /\ saving' = "refetching"
    /\ refetch' = IF (listed.fresh /\ ~listed.invalid) \/ refetch.at # "none" THEN refetch
                ELSE [at |-> "asked", values |-> None]
    /\ UNCHANGED <<rows, cache, listed, formDraft, apiKeyDraft, patch, orphans, edits, saves>>

Refetched == saving = "refetching" /\ refetch.at = "none"

\* Mutant: the list that was fetched is trusted.
Keeps ==
    /\ listed' = [listed EXCEPT !.fresh = TRUE, !.invalid = FALSE]
    /\ UNCHANGED refetch

\* invalidateQueries: an active query is asked again.
Invalidates ==
    /\ listed' = [listed EXCEPT !.fresh = TRUE, !.invalid = TRUE]
    /\ refetch' = [at |-> "asked", values |-> None]

\* onSuccess: both drafts are dropped, and what was typed since with them.
OnSuccess ==
    /\ Refetched
    /\ saving' = "no" /\ patch' = <<>>
    /\ formDraft' = None /\ apiKeyDraft' = None
    /\ Invalidates
    /\ UNCHANGED <<rows, cache, orphans, edits, saves>>

\* The first refusal ends the save; its other requests go on unheard.
OnError ==
    /\ saving = "patching"
    /\ \E k \in DOMAIN patch : patch[k].at = "failed"
    /\ saving' = "no" /\ patch' = <<>>
    /\ orphans' = orphans \cup
          {<<k, patch[k].value, patch[k].at>> :
             k \in {p \in DOMAIN patch : patch[p].at \notin {"done", "failed"}}}
    /\ UNCHANGED <<rows, cache, listed, refetch, formDraft, apiKeyDraft, edits, saves>>

\* The query (an external library): data age, and are asked for again when the
\* window gets the focus and they are stale or invalid.
Ages ==
    /\ listed.fresh
    /\ listed' = [listed EXCEPT !.fresh = FALSE]
    /\ UNCHANGED <<rows, cache, refetch, formDraft, apiKeyDraft, patch, orphans,
                   saving, edits, saves>>

Focus ==
    /\ refetch.at = "none" /\ (~listed.fresh \/ listed.invalid)
    /\ refetch' = [at |-> "asked", values |-> None]
    /\ UNCHANGED <<rows, cache, listed, formDraft, apiKeyDraft, patch, orphans,
                   saving, edits, saves>>

FetchAnswers ==
    /\ refetch.at = "asked"
    /\ refetch' = [at |-> "answered", values |-> list_all]
    /\ UNCHANGED <<rows, cache, listed, formDraft, apiKeyDraft, patch, orphans,
                   saving, edits, saves>>

FetchArrives ==
    /\ refetch.at = "answered"
    /\ listed' = [values |-> refetch.values, fresh |-> TRUE, invalid |-> FALSE]
    /\ refetch' = NoFetch
    /\ UNCHANGED <<rows, cache, formDraft, apiKeyDraft, patch, orphans,
                   saving, edits, saves>>

\* A fetch that fails leaves what was listed; a save that waits for it fails.
FetchFails ==
    /\ refetch.at # "none"
    /\ refetch' = NoFetch
    /\ IF saving = "refetching" THEN saving' = "no" /\ patch' = <<>>
                                ELSE UNCHANGED <<saving, patch>>
    /\ UNCHANGED <<rows, cache, listed, formDraft, apiKeyDraft, orphans, edits, saves>>

Next ==
    \/ Edit \/ handleSubmit \/ PatchesDone \/ OnSuccess \/ OnError
    \/ \E k \in Keys : \E value \in Stored(k) :
          \/ UpdateChecks(k, value) \/ UpdateWrites(k, value)
          \/ UpdateCaches(k, value) \/ UpdateFails(k, value)
    \/ Ages \/ Focus \/ FetchAnswers \/ FetchArrives \/ FetchFails

Spec == Init /\ [][Next]_settingVars

-----------------------------------------------------------------------------
\* A form without edits shows what the server uses, or knows that it does not:
\* after a save that said "saved", and whatever of an earlier one failed half
\* way, no old value is left that the next refetch is not due to replace
\* (settings.tsx:50; fetchQuery may answer with the list from before the save).
\* A request that a failed save left behind may still overwrite it.
FormShowsStored ==
    (saving = "no" /\ ~isDirty /\ ~listed.invalid /\ orphans = {}) =>
        \A k \in Fields : listed.values[k] = cache[k]

\* Saving one of the two numbers that depend on one another never breaks their
\* order; only the two sent together can, each checked against the other's old
\* value, a request that a failed save left behind, and a check against a cache
\* that missed what was stored (registry.rs:196, store.rs:168, settings.tsx:47).
Valid(r) == r[reserve] < r[max]

PairHolds ==
    (/\ Valid(rows) /\ cache[max] = rows[max] /\ cache[reserve] = rows[reserve]
     /\ orphans = {} /\ ~({max, reserve} \subseteq DOMAIN patch))
        => Valid(rows')
=============================================================================
