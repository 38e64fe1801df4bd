---------------------------- MODULE FileStorage ----------------------------
(***************************************************************************)
(* FileStorageManager of src/services/document_generation/                 *)
(* file_storage_manager.py: records in memory behind a lock, contents on   *)
(* disk, in S3 or in memory outside it.  Requests are served one at a time *)
(* by one thread; the cleanup worker is another, and after a stop that     *)
(* gave up there may be several.  A step ends where the lock is released   *)
(* or a content is read, written or removed.                               *)
(***************************************************************************)
EXTENDS Naturals, FiniteSets

CONSTANTS Files,    \* file ids; each is a fresh uuid
          Workers   \* cleanup threads that may be started

NoFile == "no file"

ASSUME StorageAssumption == Workers # {} /\ NoFile \notin Files

VARIABLES
    record,    \* record[f]: in _files and until when, or "none"
    content,   \* the files whose content is stored
    used,      \* ids handed out
    request,   \* what the request thread is doing
    running,   \* _running
    current,   \* _cleanup_thread, or NoWorker
    worker,    \* worker[w]: where its loop is
    todo,      \* todo[w]: the ids its cleanup_expired() collected
    removing,  \* removing[w]: the file whose content it removes, or NoFile
    kept,      \* history: files made permanent that nobody deleted
    doomed,    \* history: made permanent when something had chosen them as expired
    orphans,   \* history: contents whose removal failed, or whose record was lost
    unstated   \* history: files stored without a ttl_hours that nobody deleted

storageVars == <<record, content, used, request, running, current, worker, todo, removing,
                 kept, doomed, orphans, unstated>>

NoWorker == "no worker"
Idle == [op |-> "idle"]
Requests == {Idle} \cup
            [op : {"register", "look", "delete", "remove", "read"}, file : Files, copy : BOOLEAN,
             life : {"live", "permanent"}]
Doing(op, f, copy, life) == [op |-> op, file |-> f, copy |-> copy, life |-> life]

StorageTypeOK == /\ record \in [Files -> {"none", "live", "expired", "permanent"}]
                 /\ content \subseteq used /\ used \subseteq Files
                 /\ request \in Requests
                 /\ running \in BOOLEAN
                 /\ current \in Workers \cup {NoWorker}
                 /\ worker \in [Workers -> {"new", "asleep", "cleaning", "ended"}]
                 /\ todo \in [Workers -> SUBSET Files]
                 /\ removing \in [Workers -> Files \cup {NoFile}]
                 /\ kept \subseteq Files /\ doomed \subseteq Files /\ orphans \subseteq Files
                 /\ unstated \subseteq Files

StorageInit == /\ record = [f \in Files |-> "none"]
               /\ content = {} /\ used = {}
               /\ request = Idle
               /\ running = FALSE
               /\ current = NoWorker
               /\ worker = [w \in Workers |-> "new"]
               /\ todo = [w \in Workers |-> {}]
               /\ removing = [w \in Workers |-> NoFile]
               /\ kept = {} /\ doomed = {} /\ orphans = {} /\ unstated = {}

-----------------------------------------------------------------------------
(* Requests *)

workers == <<running, current, worker, todo, removing>>
Busy(op) == request.op = op
Expired(f) == record[f] = "expired"

\* expires_at passes.
Expire(f) == /\ record[f] = "live"
             /\ record' = [record EXCEPT ![f] = "expired"]
             /\ UNCHANGED <<content, used, request, workers, kept, doomed, orphans, unstated>>

\* store(): the content first.
Write(f, life) ==
    /\ f \notin used
    /\ used' = used \cup {f}
    /\ content' = content \cup {f}
    /\ request' = Doing("register", f, FALSE, life)

\* A ttl_hours of None gets the default of 24 hours, and 0 is for ever.
Ttls == {"none", "zero", "hours"}
Life(ttl) == IF ttl = "zero" THEN "permanent" ELSE "live"
Store(f, ttl) == /\ Busy("idle")
                 /\ Write(f, Life(ttl))
                 /\ unstated' = IF ttl = "none" THEN unstated \cup {f} ELSE unstated
                 /\ UNCHANGED <<record, workers, kept, doomed, orphans>>

\* ... then the record.
Register == /\ Busy("register")
            /\ record' = [record EXCEPT ![request.file] = request.life]
            /\ request' = Idle
            /\ kept' = IF request.life = "permanent" THEN kept \cup {request.file} ELSE kept
            /\ UNCHANGED <<content, used, workers, doomed, orphans, unstated>>

\* retrieve(), and copy(), begin with get_file_info().
Look(f, copy) == /\ Busy("idle")
                 /\ record[f] # "none"
                 /\ request' = Doing("look", f, copy, "live")
                 /\ UNCHANGED <<record, content, used, workers, kept, doomed, orphans, unstated>>

\* is_expired of the record it got, in _files or not by now.
Judge == /\ Busy("look")
         /\ \/ Expired(request.file) /\ request' = [request EXCEPT !.op = "delete"]
            \/ ~Expired(request.file) /\ request' = [request EXCEPT !.op = "read"]
            \/ record[request.file] = "none" /\ request' = [request EXCEPT !.op = "delete"]
         /\ UNCHANGED <<record, content, used, workers, kept, doomed, orphans, unstated>>

\* The content, if it is still there, is answered; copy() stores it as a new
\* file with the default life, whatever the life of the first.
Read == /\ Busy("read")
        /\ \/ /\ ~request.copy \/ request.file \notin content
              /\ request' = Idle
              /\ UNCHANGED <<content, used>>
           \/ /\ request.copy /\ request.file \in content
              /\ \E g \in Files : Write(g, "live")
        /\ UNCHANGED <<record, workers, kept, doomed, orphans, unstated>>

FaultyPopped(f) == record   \* the record stays
Popped(f) == [record EXCEPT ![f] = "none"]

\* delete(): the record under the lock; asked for by the user, or of an expired
\* file that POST /storage/cleanup goes through ...
Delete(f) == /\ Busy("idle")
             /\ record[f] # "none"
             /\ record' = Popped(f)
             /\ request' = Doing("remove", f, FALSE, "live")
             /\ kept' = kept \ {f} /\ unstated' = unstated \ {f}
             /\ UNCHANGED <<content, used, workers, doomed, orphans>>

\* ... or by a retrieve() that found it expired.
Discard == /\ Busy("delete")
           /\ record' = Popped(request.file)
           /\ request' = IF record[request.file] = "none" THEN Idle
                         ELSE [request EXCEPT !.op = "remove"]
           /\ UNCHANGED <<content, used, workers, kept, doomed, orphans, unstated>>

\* Then the content; an error is logged and the content stays.
Removed(f) == \/ content' = content \ {f} /\ orphans' = orphans
              \/ content' = content /\ orphans' = orphans \cup {f}
Remove == /\ Busy("remove")
          /\ Removed(request.file)
          /\ request' = Idle
          /\ UNCHANGED <<record, used, workers, kept, doomed, unstated>>

Chosen(f) == \E w \in Workers : f \in todo[w]

\* move_to_permanent()
MoveToPermanent(f) ==
    /\ Busy("idle")
    /\ record[f] # "none"
    /\ record' = [record EXCEPT ![f] = "permanent"]
    /\ kept' = kept \cup {f}
    /\ doomed' = IF Chosen(f) THEN doomed \cup {f} ELSE doomed
    /\ UNCHANGED <<content, used, request, workers, orphans, unstated>>

-----------------------------------------------------------------------------
(* The cleanup worker *)

files == <<record, content, used, request, kept, doomed, orphans, unstated>>

\* start_cleanup_worker(): one thread, as far as _cleanup_thread tells.
StartWorker(w) == /\ current = NoWorker
                  /\ worker[w] = "new"
                  /\ running' = TRUE
                  /\ current' = w
                  /\ worker' = [worker EXCEPT ![w] = "asleep"]
                  /\ UNCHANGED <<files, todo, removing>>

\* stop_cleanup_worker(): join() gives up after five seconds of a sleep of an hour.
StopWorker == /\ running' = FALSE
              /\ current' = NoWorker
              /\ UNCHANGED <<files, worker, todo, removing>>

FaultyExpiredFiles ==   \* no expiry taken for a past one
    {f \in Files : record[f] \in {"expired", "permanent"}}
ExpiredFiles == {f \in Files : Expired(f)}

\* The loop looks at _running, which a later start may have set again, and
\* cleanup_expired() collects under the lock.
Collect(w) == /\ worker[w] = "asleep"
              /\ running
              /\ worker' = [worker EXCEPT ![w] = "cleaning"]
              /\ todo' = [todo EXCEPT ![w] = ExpiredFiles]
              /\ UNCHANGED <<files, running, current, removing>>

EndWorker(w) == /\ worker[w] = "asleep"
                /\ ~running
                /\ worker' = [worker EXCEPT ![w] = "ended"]
                /\ UNCHANGED <<files, running, current, todo, removing>>

\* Its delete() of a file, whatever has become of the record.
Clean(w, f) == /\ removing[w] = NoFile
               /\ f \in todo[w]
               /\ todo' = [todo EXCEPT ![w] = @ \ {f}]
               /\ record' = Popped(f)
               /\ removing' = [removing EXCEPT ![w] = IF record[f] = "none" THEN NoFile ELSE f]
               /\ UNCHANGED <<content, used, request, running, current, worker>>
               /\ UNCHANGED <<kept, doomed, orphans, unstated>>

CleanContent(w) == /\ removing[w] # NoFile
                   /\ Removed(removing[w])
                   /\ removing' = [removing EXCEPT ![w] = NoFile]
                   /\ UNCHANGED <<record, used, request, running, current, worker, todo>>
                   /\ UNCHANGED <<kept, doomed, unstated>>

Sleep(w) == /\ worker[w] = "cleaning"
            /\ todo[w] = {} /\ removing[w] = NoFile
            /\ worker' = [worker EXCEPT ![w] = "asleep"]
            /\ UNCHANGED <<files, running, current, todo, removing>>

\* The process ends: the records were in memory, the contents are not.
Crash == /\ record' = [f \in Files |-> "none"]
         /\ orphans' = content
         /\ request' = Idle
         /\ running' = FALSE
         /\ current' = NoWorker
         /\ worker' = [w \in Workers |-> "new"]
         /\ todo' = [w \in Workers |-> {}]
         /\ removing' = [w \in Workers |-> NoFile]
         /\ kept' = {} /\ doomed' = {} /\ unstated' = {}
         /\ UNCHANGED <<content, used>>

StorageNext == \/ \E f \in Files : \/ Expire(f) \/ Delete(f) \/ MoveToPermanent(f)
                                   \/ \E ttl \in Ttls : Store(f, ttl)
                                   \/ \E copy \in BOOLEAN : Look(f, copy)
                                   \/ \E w \in Workers : Clean(w, f)
               \/ Register \/ Judge \/ Read \/ Discard \/ Remove \/ StopWorker \/ Crash
               \/ \E w \in Workers : \/ StartWorker(w) \/ Collect(w) \/ EndWorker(w)
                                     \/ CleanContent(w) \/ Sleep(w)

StorageSpec == StorageInit /\ [][StorageNext]_storageVars

-----------------------------------------------------------------------------
(* Properties. *)

\* A permanent file stays until it is deleted or the process ends, unless a
\* cleanup had already chosen it as expired: nothing looks again before the
\* file goes.
PermanentStays == \A f \in kept : record[f] = "permanent" \/ f \in doomed

\* store() says of ttl_hours "None for permanent" (file_storage_manager.py:151):
\* a file stored without one stays until it is deleted or the process ends.
\* It does not: it gets the default, and expires.
StoredForGood == unstated \subseteq content

\* Records and contents go together, except for what is on its way and what a
\* failure or a crash left behind.
OnTheWay(f) == \/ request.op \in {"register", "remove"} /\ request.file = f
               \/ \E w \in Workers : removing[w] = f
RecordsHaveContents ==
    \A f \in Files : /\ record[f] # "none" => f \in content
                     /\ f \in content => record[f] # "none" \/ OnTheWay(f) \/ f \in orphans
=============================================================================
