----------------------------- MODULE FormDraft -----------------------------
(***************************************************************************)
(* useFormPersistence of src/hooks/useFormPersistence.js: a form's data in *)
(* React state, copied to a ref after each render, and saved to the        *)
(* browser's storage a second after the last change, or when the form is   *)
(* left.  Handlers of one event run before the next render.                *)
(***************************************************************************)
EXTENDS Naturals

CONSTANTS FormFields,  \* of the form
          MaxEdits     \* bound on the changes made

ASSUME DraftAssumption == MaxEdits \in Nat

VARIABLES
    mounted,   \* the form is on the page
    form,      \* the state the user sees
    ref,       \* dataRef.current
    timer,     \* what the pending save will store, or NoDraft
    handle,    \* saveTimeoutRef.current is set; clearTimeout() leaves it set
    stored,    \* the item in storage, or NoDraft
    edits,     \* changes so far
    typed,     \* history: the last value given to each field
    excused    \* history: why what was typed may be lost

draftVars == <<mounted, form, ref, timer, handle, stored, edits, typed, excused>>

NoDraft == [none |-> TRUE]
Contents == [FormFields -> 0..MaxEdits]
Initial == [f \in FormFields |-> 0]

DraftTypeOK == /\ mounted \in BOOLEAN /\ handle \in BOOLEAN
               /\ {form, ref, typed} \subseteq Contents
               /\ {timer, stored} \subseteq Contents \cup {NoDraft}
               /\ edits \in 0..MaxEdits
               /\ excused \subseteq {"same event", "left unrendered", "storage full"}

DraftInit == /\ mounted = FALSE /\ handle = FALSE
             /\ form = Initial /\ ref = Initial /\ typed = Initial
             /\ timer = NoDraft /\ stored = NoDraft
             /\ edits = 0
             /\ excused = {}

\* The initial state restores what is stored.
Mount == /\ ~mounted
         /\ mounted' = TRUE
         /\ LET restored == IF stored = NoDraft THEN Initial ELSE stored
            IN  form' = restored /\ ref' = restored /\ typed' = restored
         /\ handle' = FALSE
         /\ excused' = {}
         /\ UNCHANGED <<timer, stored, edits>>

\* "Keep data ref updated": the effect after a render.
Render == /\ mounted
          /\ ref # form
          /\ ref' = form
          /\ UNCHANGED <<mounted, form, timer, handle, stored, edits, typed, excused>>

FaultyChanged(f, v) == [Initial EXCEPT ![f] = v]   \* the other fields forgotten

\* updateData() builds on the ref, which the same event may have left behind.
Changed(f, v) == [ref EXCEPT ![f] = v]

\* updateData(), setFieldValue(): the save of an earlier change is replaced.
Update(f) ==
    /\ mounted
    /\ edits < MaxEdits
    /\ edits' = edits + 1
    /\ form' = Changed(f, edits')
    /\ timer' = form'
    /\ handle' = TRUE
    /\ typed' = [typed EXCEPT ![f] = edits']
    /\ excused' = IF ref = form THEN excused ELSE excused \cup {"same event"}
    /\ UNCHANGED <<mounted, ref, stored>>

\* save(): a full storage is reported and nothing else.
Stores(content) ==
    \/ stored' = content /\ excused' = excused \ {"storage full"}
    \/ stored' = stored /\ excused' = excused \cup {"storage full"}

Fire == /\ mounted
        /\ timer # NoDraft
        /\ timer' = NoDraft
        /\ Stores(timer)
        /\ UNCHANGED <<mounted, form, ref, handle, edits, typed>>

SaveNow == /\ mounted
           /\ Stores(ref)
           /\ UNCHANGED <<mounted, form, ref, timer, handle, edits, typed>>

\* clear(), which callers are meant to use on submit.  (Leaving the form brings
\* the data back.)
ClearDraft == /\ mounted
              /\ timer' = NoDraft
              /\ stored' = NoDraft
              /\ UNCHANGED <<mounted, form, ref, handle, edits, typed, excused>>

\* reset(): without clearStorage a pending save still stores what was reset.
ResetForm(clearStorage) ==
    /\ mounted
    /\ form' = Initial /\ typed' = Initial
    /\ excused' = excused \ {"same event"}
    /\ IF clearStorage
       THEN timer' = NoDraft /\ stored' = NoDraft
       ELSE UNCHANGED <<timer, stored>>
    /\ UNCHANGED <<mounted, ref, handle, edits>>

Restore == /\ mounted
           /\ stored # NoDraft
           /\ form' = stored /\ typed' = stored
           /\ excused' = excused \ {"same event"}
           /\ UNCHANGED <<mounted, ref, timer, handle, stored, edits>>

\* "Save on unmount if there's pending data": whenever there ever was some.
Unmount ==
    /\ mounted
    /\ mounted' = FALSE
    /\ IF handle
       THEN \/ /\ stored' = ref
               /\ excused' = (excused \ {"storage full"})
                             \cup (IF ref = form THEN {} ELSE {"left unrendered"})
            \/ /\ stored' = stored
               /\ excused' = excused \cup {"storage full"}
       ELSE UNCHANGED <<stored, excused>>
    /\ timer' = NoDraft
    /\ UNCHANGED <<form, ref, handle, edits, typed>>

DraftNext == \/ Mount \/ Render \/ Fire \/ SaveNow \/ ClearDraft \/ Restore \/ Unmount
             \/ \E f \in FormFields : Update(f)
             \/ \E clearStorage \in BOOLEAN : ResetForm(clearStorage)

DraftSpec == DraftInit /\ [][DraftNext]_draftVars

-----------------------------------------------------------------------------
(* Properties. *)

\* A form that was changed and left has what the user typed last in storage,
\* unless two changes were made in one event (the second is built on data that
\* lacks the first), the form was left in the event of its last change, or the
\* storage was full.
DraftHoldsWhatWasTyped ==
    ~mounted /\ handle /\ excused = {} => stored = typed
=============================================================================
