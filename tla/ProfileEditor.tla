---------------------------- MODULE ProfileEditor ----------------------------
(***************************************************************************)
(* useEmployeeProfile of src/hooks/useEmployeeProfile.js: a profile loaded *)
(* from the server or a cache, changes kept until they are saved, and a    *)
(* look at the server's version before a save.  A callback works with the  *)
(* state of the render it was made in; versionRef is a ref and always the  *)
(* present one.  Others save to the same server, which sends updated_at    *)
(* only to some roles.  What is displayed, field validation and the other  *)
(* permissions are left out.                                               *)
(***************************************************************************)
EXTENDS Naturals, FiniteSets

CONSTANTS ProfileFields,  \* of a profile
          Values,         \* of a field
          MaxVersion,     \* bound on the writes to the server
          MaxSaves,       \* bound on the calls of saveProfile() under way
          MaxLoads        \* bound on the requests of loadProfile() under way

ASSUME EditorAssumption == Values # {} /\ {MaxVersion, MaxSaves, MaxLoads} \subseteq Nat

VARIABLES
    versioned,      \* the user's role is sent updated_at
    server,         \* the profile there: values and updated_at
    cache,          \* the entry of cacheRef, or NoProfile
    original,       \* originalProfile
    versionRef,     \* versionRef.current, NoVersion when undefined
    pendingChanges, \* values for some of the fields
    conflict,       \* conflictState, or NoProfile
    loads,          \* answers to loadProfile() that have not arrived
    saves           \* the calls of saveProfile() under way

editorVars == <<versioned, server, cache, original, versionRef, pendingChanges, conflict, loads,
                saves>>

NoProfile == [none |-> TRUE]
NoVersion == MaxVersion + 1
Profiles == [value : [ProfileFields -> Values], version : 0..MaxVersion]
Changes == UNION {[fs -> Values] : fs \in SUBSET ProfileFields}
Saves == [step : {"asking", "answered", "sent", "applied"}, body : Changes, base : Profiles,
          found : Profiles \cup {NoProfile}, checked : 0..NoVersion, reloaded : BOOLEAN]

EditorTypeOK == /\ versioned \in BOOLEAN
                /\ {server, original} \subseteq Profiles
                /\ cache \in Profiles \cup {NoProfile}
                /\ versionRef \in 0..NoVersion
                /\ pendingChanges \in Changes
                /\ conflict \in Profiles \cup {NoProfile}
                /\ loads \subseteq Profiles
                /\ saves \subseteq Saves

\* What an answer shows of the version of a profile: filter_employee_response()
\* leaves updated_at to administrators and HR.
Visible(p) == IF versioned THEN p.version ELSE NoVersion

\* After the first load.
EditorInit == LET first == [value   |-> [f \in ProfileFields |-> CHOOSE v \in Values : TRUE],
                            version |-> 0]
              IN  /\ versioned \in BOOLEAN
                  /\ server = first /\ cache = first /\ original = first
                  /\ versionRef = Visible(first)
                  /\ pendingChanges = [f \in {} |-> 0]
                  /\ conflict = NoProfile
                  /\ loads = {} /\ saves = {}

Without(changes, f) == [g \in DOMAIN changes \ {f} |-> changes[g]]
With(values, changes) ==
    [g \in DOMAIN values \cup DOMAIN changes |->
        IF g \in DOMAIN changes THEN changes[g] ELSE values[g]]
NoChanges == [f \in {} |-> 0]

-----------------------------------------------------------------------------
\* Somebody else saves a field.
OtherSaves(f, v) ==
    /\ server.version < MaxVersion
    /\ server' = [value |-> [server.value EXCEPT ![f] = v], version |-> server.version + 1]
    /\ UNCHANGED <<cache, original, versionRef, pendingChanges, conflict, loads, saves>>

\* CACHE_TTL is over, or clearCache().
CacheExpires == /\ cache # NoProfile
                /\ cache' = NoProfile
                /\ UNCHANGED <<server, original, versionRef, pendingChanges, conflict, loads,
                               saves>>

\* originalProfile and versionRef go together.  Pending changes stay.
Adopted(p) == original' = p /\ versionRef' = Visible(p)

\* loadProfile(), refresh()
LoadCached == /\ cache # NoProfile
              /\ Adopted(cache)
              /\ UNCHANGED <<server, cache, pendingChanges, conflict, loads, saves>>
Fetch == /\ cache = NoProfile
         /\ Cardinality(loads) < MaxLoads
         /\ loads' = loads \cup {server}
         /\ UNCHANGED <<server, cache, original, versionRef, pendingChanges, conflict, saves>>
Loaded(p) == /\ loads' = loads \ {p}
             /\ cache' = p
             /\ Adopted(p)
             /\ UNCHANGED <<server, pendingChanges, conflict, saves>>
LoadFails(p) == /\ loads' = loads \ {p}
                /\ UNCHANGED <<server, cache, original, versionRef, pendingChanges, conflict,
                               saves>>

\* updateField(): a value that is the original one is no change.
UpdateField(f, v) ==
    /\ pendingChanges' = IF original.value[f] = v THEN Without(pendingChanges, f)
                         ELSE With(pendingChanges, [g \in {f} |-> v])
    /\ UNCHANGED <<server, cache, original, versionRef, conflict, loads, saves>>

\* revertField(); revertAllChanges() and exitEditMode() repeat it.
RevertField(f) ==
    /\ f \in DOMAIN pendingChanges
    /\ pendingChanges' = Without(pendingChanges, f)
    /\ UNCHANGED <<server, cache, original, versionRef, conflict, loads, saves>>

-----------------------------------------------------------------------------
(* saveProfile() *)

NewSave(step) == [step |-> step, body |-> pendingChanges, base |-> original,
                  found |-> NoProfile, checked |-> NoVersion, reloaded |-> FALSE]

\* It asks for the server's version first, unless it is forced to go on.
Save(force) ==
    /\ pendingChanges # NoChanges
    /\ Cardinality(saves) < MaxSaves
    /\ saves' = saves \cup {NewSave(IF force THEN "sent" ELSE "asking")}
    /\ UNCHANGED <<server, cache, original, versionRef, pendingChanges, conflict, loads>>

Moved(s, t) == saves' = (saves \ {s}) \cup {t}

\* The server answers the check.
AnswerCheck(s) ==
    /\ s.step = "asking"
    /\ Moved(s, [s EXCEPT !.step = "answered", !.found = server])
    /\ UNCHANGED <<server, cache, original, versionRef, pendingChanges, conflict, loads>>

\* "Conflict check failed": taken for no conflict.
CheckFails(s) ==
    /\ s.step \in {"asking", "answered"}
    /\ Moved(s, [s EXCEPT !.step = "sent"])
    /\ UNCHANGED <<server, cache, original, versionRef, pendingChanges, conflict, loads>>

FaultyConflicts(s) == Visible(s.found) < versionRef   \* the wrong way round

\* checkForConflicts(): a version that is not shown is undefined on both sides.
Conflicts(s) == Visible(s.found) # versionRef

Checked(s) ==
    /\ s.step = "answered"
    /\ IF Conflicts(s)
       THEN /\ conflict' = s.found
            /\ saves' = saves \ {s}
       ELSE /\ Moved(s, [s EXCEPT !.step = "sent", !.checked = s.found.version,
                               !.reloaded = original.version # s.base.version])
            /\ UNCHANGED conflict
    /\ UNCHANGED <<server, cache, original, versionRef, pendingChanges, loads>>

\* PUT: the server writes the fields it is sent, whatever its version.
Apply(s) ==
    /\ s.step = "sent"
    /\ server.version < MaxVersion
    /\ server' = [value |-> With(server.value, s.body), version |-> server.version + 1]
    /\ Moved(s, [s EXCEPT !.step = "applied", !.found = server'])
    /\ UNCHANGED <<cache, original, versionRef, pendingChanges, conflict, loads>>

\* The answer: all pending changes are dropped, those made meanwhile as well.
Saved(s) ==
    /\ s.step = "applied"
    /\ cache' = s.found
    /\ Adopted(s.found)
    /\ pendingChanges' = NoChanges
    /\ conflict' = NoProfile
    /\ saves' = saves \ {s}
    /\ UNCHANGED <<server, loads>>

\* Refused by the server, or the answer is lost.
SaveFails(s) ==
    /\ s.step \in {"sent", "applied"}
    /\ saves' = saves \ {s}
    /\ UNCHANGED <<server, cache, original, versionRef, pendingChanges, conflict, loads>>

\* resolveConflict().  A merge shows the server's value of a field that both
\* changed, and leaves the local one among the pending changes.
KeepLocal == /\ conflict # NoProfile
             /\ conflict' = NoProfile
             /\ Cardinality(saves) < MaxSaves
             /\ saves' = IF pendingChanges = NoChanges THEN saves ELSE saves \cup {NewSave("sent")}
             /\ UNCHANGED <<server, cache, original, versionRef, pendingChanges, loads>>
KeepServer == /\ conflict # NoProfile
              /\ conflict' = NoProfile
              /\ Adopted(conflict)
              /\ pendingChanges' = NoChanges
              /\ UNCHANGED <<server, cache, loads, saves>>
Merge == /\ conflict # NoProfile
         /\ conflict' = NoProfile
         /\ Adopted(conflict)
         /\ UNCHANGED <<server, cache, pendingChanges, loads, saves>>

EditorNext == /\ \/ \E f \in ProfileFields, v \in Values : OtherSaves(f, v) \/ UpdateField(f, v)
                 \/ \E f \in ProfileFields : RevertField(f)
                 \/ \E p \in loads : Loaded(p) \/ LoadFails(p)
                 \/ \E force \in BOOLEAN : Save(force)
                 \/ \E s \in saves : \/ AnswerCheck(s) \/ CheckFails(s) \/ Checked(s)
                                     \/ Apply(s) \/ Saved(s) \/ SaveFails(s)
                 \/ CacheExpires \/ LoadCached \/ Fetch \/ KeepLocal \/ KeepServer \/ Merge
              /\ UNCHANGED versioned   \* a role is for the session

EditorSpec == EditorInit /\ [][EditorNext]_editorVars

-----------------------------------------------------------------------------
(* Properties. *)

\* What a checked save must not do: overwrite a change made elsewhere that it has
\* not seen, when no write came between the check and the save and the profile
\* was not loaded anew while the check was on its way.
FindsConflicts ==
    \A s \in saves : s.step = "sent" /\ server.version = s.checked /\ ~s.reloaded =>
        \A f \in DOMAIN s.body : server.value[f] = s.base.value[f]

\* A user who is sent updated_at is told of every such change.
ChecksAreSound == versioned => FindsConflicts
=============================================================================
