------------------------------ MODULE Services ------------------------------
(***************************************************************************)
(* The services and the parts of the front end that share nothing, side by *)
(* side: webhooks, document storage and its cleanup threads, the chained   *)
(* audit log, and the forms and pages of src/components/ and src/hooks/.   *)
(* A behaviour is one of one component, chosen at the start; the others    *)
(* stay as they begin.                                                     *)
(***************************************************************************)
EXTENDS FileStorage, Webhooks, FormDraft, FormSteps, FileUploader, ProfileEditor,
        Directory, SearchBox, DirectoryCache, AuditChain

VARIABLE component   \* the one that moves

serviceVars == <<component, webhookVars, draftVars, editorVars, directoryVars, boxVars,
                 listHookVars, formVars, uploadVars, storageVars, auditVars>>

ServicesInit == /\ component \in {"hook", "draft", "editor", "directory", "search", "list",
                                 "form", "upload", "storage", "audit"}
                /\ WebhookInit /\ DraftInit /\ EditorInit /\ DirectoryInit /\ BoxInit /\ ListInit
                /\ FormInit /\ UploadInit /\ StorageInit /\ AuditInit
                \* where a component begins that does not move is of no interest
                /\ component # "upload" => accepted = {}
                /\ component # "editor" => versioned

ServicesNext == /\ \/ component = "hook"      /\ WebhookNext
                   \/ component = "draft"     /\ DraftNext
                   \/ component = "editor"    /\ EditorNext
                   \/ component = "directory" /\ DirectoryNext
                   \/ component = "search"    /\ BoxNext
                   \/ component = "list"      /\ ListNext
                   \/ component = "form"      /\ FormNext
                   \/ component = "upload"    /\ UploadNext
                   \/ component = "storage"   /\ StorageNext
                   \/ component = "audit"     /\ AuditNext
                /\ component # "hook"      => UNCHANGED webhookVars
                /\ component # "draft"     => UNCHANGED draftVars
                /\ component # "editor"    => UNCHANGED editorVars
                /\ component # "directory" => UNCHANGED directoryVars
                /\ component # "search"    => UNCHANGED boxVars
                /\ component # "list"      => UNCHANGED listHookVars
                /\ component # "form"      => UNCHANGED formVars
                /\ component # "upload"    => UNCHANGED uploadVars
                /\ component # "storage"   => UNCHANGED storageVars
                /\ component # "audit"     => UNCHANGED auditVars
                /\ UNCHANGED component

ServicesSpec == ServicesInit /\ [][ServicesNext]_serviceVars

-----------------------------------------------------------------------------
(* Properties: those of the components, and these two. *)

\* Every variable keeps its type.
TypesOK == /\ WebhookTypeOK /\ DraftTypeOK /\ EditorTypeOK /\ DirectoryTypeOK /\ BoxTypeOK
           /\ ListTypeOK /\ FormTypeOK /\ UploadTypeOK /\ StorageTypeOK /\ AuditTypeOK

\* Once the answers are in, each page that asks the server again whenever what it
\* shows is changed (EmployeeDirectory, EmployeeSearch, useEmployeeDirectory) shows
\* what is asked for, with the exceptions its own property names.
ShowsWhatIsAsked == PageShowsWhatIsAsked /\ BoxShowsWhatIsAsked /\ ListShowsWhatIsAsked
=============================================================================
