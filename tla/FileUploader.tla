---------------------------- MODULE FileUploader ----------------------------
(***************************************************************************)
(* S3FileUploader of src/components/S3FileUploader/S3FileUploader.jsx.     *)
(* Files are added to a list and uploaded on their own a moment later.  A  *)
(* callback works on the list of the render it was made in (its closure),  *)
(* while setFiles() changes the present one.                               *)
(***************************************************************************)
EXTENDS Naturals, FiniteSets

CONSTANTS Uploads,   \* files that may be chosen
          MaxFiles   \* maxFiles

ASSUME UploaderAssumption == IsFiniteSet(Uploads) /\ MaxFiles \in Nat

VARIABLES
    accepted,  \* what validateFile() lets pass; the parent may change the config
    status,    \* status[f]: of the entry in the list, or "absent"
    delayed,   \* delayed[f]: the list known to the pending uploadFile(f), or NoTimer
    transfer,  \* transfer[f]: what uploadFile(f) waits for
    told       \* told[f]: the last callback about f

uploadVars == <<accepted, status, delayed, transfer, told>>

NoTimer == {"none"}
Statuses == {"absent", "new", "pending", "uploading", "completed", "failed"}

UploadTypeOK == /\ accepted \subseteq Uploads
                /\ status \in [Uploads -> Statuses]
                /\ delayed \in [Uploads -> (SUBSET Uploads) \cup {NoTimer}]
                /\ transfer \in [Uploads -> {"none", "url", "put"}]
                /\ told \in [Uploads -> {"nothing", "complete", "error"}]

UploadInit == /\ accepted \in SUBSET Uploads
              /\ status = [f \in Uploads |-> "new"]
              /\ delayed = [f \in Uploads |-> NoTimer]
              /\ transfer = [f \in Uploads |-> "none"]
              /\ told = [f \in Uploads |-> "nothing"]

ListedFiles == {f \in Uploads : status[f] \notin {"new", "absent"}}

Reconfigure(allowed) == /\ accepted' = allowed
                        /\ UNCHANGED <<status, delayed, transfer, told>>

\* addFiles(): "Auto-start upload for valid files" is left to the uploadFile()
\* of the render before.
AddFiles(chosen) ==
    /\ chosen # {}
    /\ \A f \in chosen : status[f] = "new"
    /\ Cardinality(ListedFiles \cup chosen) <= MaxFiles
    /\ status' = [f \in Uploads |-> IF f \notin chosen THEN status[f]
                                  ELSE IF f \in accepted THEN "pending" ELSE "failed"]
    /\ delayed' = [f \in Uploads |-> IF f \in chosen \cap accepted THEN ListedFiles ELSE delayed[f]]
    /\ UNCHANGED <<accepted, transfer, told>>

\* Of an entry that is still there.
Marked(f, s) == IF f \in ListedFiles THEN [status EXCEPT ![f] = s] ELSE status

\* uploadFile(), up to the request for the URL.
Begin(f) ==
    /\ delayed[f] # NoTimer
    /\ delayed' = [delayed EXCEPT ![f] = NoTimer]
    /\ status' = Marked(f, "uploading")
    /\ transfer' = IF f \in delayed[f] THEN [transfer EXCEPT ![f] = "url"] ELSE transfer
    /\ UNCHANGED <<accepted, told>>

\* getPresignedUrl() answers.
GetUrl(f) == /\ transfer[f] = "url"
             /\ transfer' = [transfer EXCEPT ![f] = "put"]
             /\ UNCHANGED <<accepted, status, delayed, told>>

\* uploadToS3() is done; nobody looks whether the file was removed meanwhile.
FinishUpload(f) == /\ transfer[f] = "put"
                   /\ transfer' = [transfer EXCEPT ![f] = "none"]
                   /\ status' = Marked(f, "completed")
                   /\ told' = [told EXCEPT ![f] = "complete"]
                   /\ UNCHANGED <<accepted, delayed>>

\* Either of them fails.
FailUpload(f) == /\ transfer[f] # "none"
                 /\ transfer' = [transfer EXCEPT ![f] = "none"]
                 /\ status' = Marked(f, "failed")
                 /\ told' = [told EXCEPT ![f] = "error"]
                 /\ UNCHANGED <<accepted, delayed>>

\* handleRemove()
RemoveFile(f) == /\ f \in ListedFiles
                 /\ status' = [status EXCEPT ![f] = "absent"]
                 /\ UNCHANGED <<accepted, delayed, transfer, told>>

\* handleRetry(): a file that still does not pass keeps its entry.
Retry(f) == /\ status[f] = "failed"
            /\ f \in accepted
            /\ status' = [status EXCEPT ![f] = "pending"]
            /\ delayed' = [delayed EXCEPT ![f] = ListedFiles]
            /\ UNCHANGED <<accepted, transfer, told>>

UploadNext == \/ \E fs \in SUBSET Uploads : Reconfigure(fs) \/ AddFiles(fs)
              \/ \E f \in Uploads : \/ Begin(f) \/ GetUrl(f) \/ FinishUpload(f) \/ FailUpload(f)
                                  \/ RemoveFile(f) \/ Retry(f)

UploadSpec == UploadInit /\ [][UploadNext]_uploadVars

-----------------------------------------------------------------------------
(* Properties. *)

\* A file shown as uploading is being uploaded.
UploadingIsUnderWay == \A f \in Uploads : status[f] = "uploading" => transfer[f] # "none"
=============================================================================
