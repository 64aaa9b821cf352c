-------------------------- MODULE DocumentDispatch --------------------------
(***************************************************************************)
(* Documents sent to the OCR worker: CeleryDocumentProcessor of the API    *)
(* (document_processing.py) and the tasks of services/worker.              *)
(*                                                                         *)
(* A request puts one task on the broker, waits for its result for a while *)
(* and refuses the document if there is none.  The task goes on: the       *)
(* request revokes it without terminating it, and a revocation that a      *)
(* worker does not hear, or a task whose send was never acknowledged, has  *)
(* no effect.  While a task runs, the plaintext is in a temporary file and *)
(* the pages of a scan are rendered into a directory of their own.         *)
(* The broker, the result backend and the container are external.          *)
(***************************************************************************)
EXTENDS Naturals

CONSTANTS Doc,     \* documents, each uploaded once
          FileTTL  \* OCDD_ARTIFACT_TTL_SECONDS, for the periodic purge

ASSUME DispatchAssumption == FileTTL \in Nat \ {0}

VARIABLES request,  \* request[d]: new, waiting, accepted or refused
          handle,   \* handle[d]: the request holds the task's result handle
          content,  \* content[d]: what there is to be read in d
          task,     \* task[d]: the task of d and how far it is
          revoked,  \* revoked[d]: the worker has heard the revocation
          result,   \* result[d]: what the result backend holds for the task
          source,   \* source[d]: age of the plaintext file, or NoFile
          pages     \* pages[d]: page images of d are in /tmp/ocdd-ocr-*

dispatchVars ==
    <<request, handle, content, task, revoked, result, source, pages>>

NoFile == FileTTL + 1

\* A text layer long enough; images of pages, with or without a scant text
\* layer; only white space; an unknown format.
Content == {"text", "image", "blank", "other"}

\* What extract_document returns: the pages hold text, or none, and needs_ocr.
Extract == {"pages", "blank", "needs_ocr"}

TaskState == {"none", "queued", "opened", "extracted", "done", "failed",
              "unwritten", "killed", "dropped"}

DispatchTypeOK ==
    /\ request \in [Doc -> {"new", "waiting", "accepted", "refused"}]
    /\ handle \in [Doc -> BOOLEAN]
    /\ content \in [Doc -> Content]
    /\ task \in [Doc -> TaskState]
    /\ revoked \in [Doc -> BOOLEAN]
    /\ result \in [Doc -> {"none", "error"} \cup Extract]
    /\ source \in [Doc -> 0..NoFile]
    /\ pages \in [Doc -> BOOLEAN]

DispatchInit ==
    /\ request = [d \in Doc |-> "new"]
    /\ handle = [d \in Doc |-> FALSE]
    /\ content = [d \in Doc |-> "text"]
    /\ task = [d \in Doc |-> "none"]
    /\ revoked = [d \in Doc |-> FALSE]
    /\ result = [d \in Doc |-> "none"]
    /\ source = [d \in Doc |-> NoFile]
    /\ pages = [d \in Doc |-> FALSE]

(* Plausible mistakes, substituted for the definition of the same          *)
(* parameters to see that a property notices.                              *)
TrustsOcrFlag(r) == r # "needs_ocr"
RemovedOnSuccess(d, ending) == IF ending = "done" THEN NoFile ELSE source[d]
YoungerThan(age, ttl) == age < ttl

-----------------------------------------------------------------------------
(* CeleryDocumentProcessor.extract_pages.                                  *)

\* send_task: acknowledged, lost, or enqueued without an acknowledgement.
Dispatch(d) ==
    /\ request[d] = "new"
    /\ \E c \in Content : content' = [content EXCEPT ![d] = c]
    /\ \E sent \in {"acknowledged", "lost", "unacknowledged"} :
          /\ handle' = [handle EXCEPT ![d] = sent = "acknowledged"]
          /\ task' = [task EXCEPT ![d] = IF sent = "lost" THEN @ ELSE "queued"]
          /\ request' = [request EXCEPT ![d] =
                           IF sent = "acknowledged" THEN "waiting" ELSE "refused"]
    /\ UNCHANGED <<revoked, result, source, pages>>

\* Neither needs_ocr nor white space only.
Usable(r) == r \notin {"needs_ocr", "blank"}

Accept(d) ==
    /\ request[d] = "waiting"
    /\ result[d] \in Extract /\ Usable(result[d])
    /\ request' = [request EXCEPT ![d] = "accepted"]
    /\ UNCHANGED <<handle, content, task, revoked, result, source, pages>>

\* result_handle.revoke(terminate=False), errors ignored.
Revoke(d) ==
    \/ revoked' = [revoked EXCEPT ![d] = handle[d]]
    \/ UNCHANGED revoked

Refuse(d) == request' = [request EXCEPT ![d] = "refused"] /\ Revoke(d)

\* No usable text, or the task raised.
RefuseResult(d) ==
    /\ request[d] = "waiting"
    /\ result[d] = "error" \/ (result[d] \in Extract /\ ~Usable(result[d]))
    /\ Refuse(d)
    /\ UNCHANGED <<handle, content, task, result, source, pages>>

\* get() times out after 45 s, or the connection to the backend fails before:
\* at any moment, as OCR may take longer than that.
GiveUp(d) ==
    /\ request[d] = "waiting"
    /\ Refuse(d)
    /\ UNCHANGED <<handle, content, task, result, source, pages>>

-----------------------------------------------------------------------------
(* parse_encrypted_artifact.                                               *)

InTask(d) == task[d] \in {"opened", "extracted"}

\* A worker drops a task that it knows to be revoked when it would start it.
Drop(d) ==
    /\ task[d] = "queued" /\ revoked[d]
    /\ task' = [task EXCEPT ![d] = "dropped"]
    /\ UNCHANGED <<request, handle, content, revoked, result, source, pages>>

\* Decrypts, checks the digest and writes the temporary file.
Open(d) ==
    /\ task[d] = "queued" /\ ~revoked[d]
    /\ task' = [task EXCEPT ![d] = "opened"]
    /\ source' = [source EXCEPT ![d] = 0]
    /\ UNCHANGED <<request, handle, content, revoked, result, pages>>

\* handle.write raises, on a full tmpfs say: path is not bound yet, so the
\* finally clause does not know the file.
WriteFails(d) ==
    /\ task[d] = "queued" /\ ~revoked[d]
    /\ task' = [task EXCEPT ![d] = "unwritten"]
    /\ source' = [source EXCEPT ![d] = 0]
    /\ result' = [result EXCEPT ![d] = "error"]
    /\ UNCHANGED <<request, handle, content, revoked, pages>>

\* The outcomes of extract_document: OCR may be missing, fail or time out.
Extracts(c) ==
    CASE c = "text" -> {"pages"}
      [] c = "image" -> {"pages", "needs_ocr"}
      [] c = "blank" -> {"blank"}
      [] c = "other" -> {"needs_ocr"}

\* ocr_pdf: pdftoppm writes the pages of a PDF.  The directory is not under the
\* root that the periodic purge scans.
Render(d) ==
    /\ task[d] = "opened" /\ source[d] # NoFile
    /\ content[d] = "image" /\ ~pages[d]
    /\ pages' = [pages EXCEPT ![d] = TRUE]
    /\ UNCHANGED <<request, handle, content, task, revoked, result, source>>

\* TemporaryDirectory goes away when the with statement is left.
RemoveDirectory(d) == pages' = [pages EXCEPT ![d] = FALSE]

\* The text layer, or Tesseract on the pages, within their own timeouts.
ExtractText(d) ==
    /\ task[d] = "opened"
    /\ source[d] # NoFile
    /\ task' = [task EXCEPT ![d] = "extracted"]
    /\ RemoveDirectory(d)
    /\ UNCHANGED <<request, handle, content, revoked, result, source>>

\* finally: path.unlink(missing_ok=True).
Unlinked(d, ending) == IF ending \in TaskState THEN NoFile ELSE source[d]

\* The file is hashed once more, the result sealed and the file removed.
Return(d) ==
    /\ task[d] = "extracted"
    /\ source[d] # NoFile
    /\ task' = [task EXCEPT ![d] = "done"]
    /\ \E r \in Extracts(content[d]) : result' = [result EXCEPT ![d] = r]
    /\ source' = [source EXCEPT ![d] = Unlinked(d, "done")]
    /\ UNCHANGED <<request, handle, content, revoked, pages>>

\* A parser raises, or the purge took the file from under the task.
Raise(d) ==
    /\ InTask(d)
    /\ task' = [task EXCEPT ![d] = "failed"]
    /\ result' = [result EXCEPT ![d] = "error"]
    /\ source' = [source EXCEPT ![d] = Unlinked(d, "failed")]
    /\ RemoveDirectory(d)
    /\ UNCHANGED <<request, handle, content, revoked>>

-----------------------------------------------------------------------------
(* The container.                                                          *)

\* A worker process dies in the middle of a task, on a lack of memory say.
Kill(d) ==
    /\ InTask(d)
    /\ task' = [task EXCEPT ![d] = "killed"]
    /\ \/ result' = [result EXCEPT ![d] = "error"]
       \/ UNCHANGED result
    /\ UNCHANGED <<request, handle, content, revoked, source, pages>>

\* The restart empties the tmpfs and forgets the revocations.
RestartWorker ==
    /\ \E d \in Doc : InTask(d) \/ source[d] # NoFile \/ pages[d] \/ revoked[d]
    /\ task' = [d \in Doc |-> IF InTask(d) THEN "killed" ELSE task[d]]
    /\ revoked' = [d \in Doc |-> FALSE]
    /\ source' = [d \in Doc |-> NoFile]
    /\ pages' = [d \in Doc |-> FALSE]
    /\ UNCHANGED <<request, handle, content, result>>

\* cleanup_expired_files.
OldEnough(age, ttl) == age >= ttl

Removable == {d \in Doc : source[d] # NoFile /\ OldEnough(source[d], FileTTL)}

\* purge_transient_artifacts, every ten minutes, also under a running task.
PurgeFiles ==
    /\ Removable # {}
    /\ source' = [d \in Doc |-> IF d \in Removable THEN NoFile ELSE source[d]]
    /\ UNCHANGED <<request, handle, content, task, revoked, result, pages>>

\* The age of a file counts up to FileTTL.
DispatchTick ==
    /\ \E d \in Doc : source[d] < FileTTL
    /\ source' = [d \in Doc |->
                    IF source[d] < FileTTL THEN source[d] + 1 ELSE source[d]]
    /\ UNCHANGED <<request, handle, content, task, revoked, result, pages>>

DispatchNext ==
    \/ \E d \in Doc :
          \/ Dispatch(d) \/ Accept(d) \/ RefuseResult(d) \/ GiveUp(d)
          \/ Drop(d) \/ Open(d) \/ WriteFails(d) \/ Render(d)
          \/ ExtractText(d) \/ Return(d) \/ Raise(d) \/ Kill(d)
    \/ RestartWorker
    \/ PurgeFiles
    \/ DispatchTick

DispatchSpec == DispatchInit /\ [][DispatchNext]_dispatchVars

\* Time passes and beat schedules the purge; nothing else need ever happen.
DispatchFairness == WF_dispatchVars(DispatchTick) /\ WF_dispatchVars(PurgeFiles)

-----------------------------------------------------------------------------
(* What must hold.                                                         *)

\* The plaintext is on disk only while its task runs, or because the process
\* died or could not finish writing it; page images only while the pages are
\* read, or because the process died.
SourceHasReason ==
    \A d \in Doc :
        /\ source[d] # NoFile => InTask(d) \/ task[d] \in {"killed", "unwritten"}
        /\ pages[d] => task[d] \in {"opened", "killed"}

\* An empty extraction is never treated as success (worker README).
AcceptedHasText ==
    \A d \in Doc : request[d] = "accepted" => content[d] \in {"text", "image"}

\* A file that is left behind goes away while the container keeps running.  The
\* page images of a killed process stay until the container restarts.
SourceGoesAway == \A d \in Doc : (source[d] # NoFile) ~> (source[d] = NoFile)

(* The strengthening that makes the first two inductive.                   *)

\* Nothing is known of a document before its task was sent.
NothingBeforeSending ==
    \A d \in Doc : request[d] = "new" =>
        task[d] = "none" /\ result[d] = "none" /\ source[d] = NoFile /\ ~pages[d]

\* Only what can be read comes back as pages with text.
PagesAreRead ==
    \A d \in Doc : result[d] = "pages" => content[d] \in {"text", "image"}

DispatchInv ==
    /\ DispatchTypeOK /\ NothingBeforeSending /\ PagesAreRead
    /\ SourceHasReason /\ AcceptedHasText

=============================================================================
