------------------------------ MODULE Workspace ------------------------------
(***************************************************************************)
(* The session workspace of one Thread (api/workspace.py): the directory   *)
(* of uploads, the output directory, and the tools that write and read it  *)
(* from worker threads.  Two names are enough, a Markdown document and the *)
(* PDF made of it; the user may upload either.  A file's content is the    *)
(* version of an upload, a text of the model that the user has approved or *)
(* not, or Torn: cut short, emptied by an open that no write has followed  *)
(* yet, or mixed by two writers.                                           *)
(***************************************************************************)
EXTENDS ToolCalls

CONSTANTS
  Md, Pdf,    \* report.md and report.pdf
  Torn,
  MaxSent     \* bound: versions the user uploads

Files == {Md, Pdf}
Sent(n) == <<"user", n>>
Unapproved == <<"agent", 0>>
Approved == <<"agent", 1>>
ByAgent(content) == content \notin {None, Torn} /\ content[1] = "agent"

VARIABLES
  uploads,   \* the upload directory
  output,    \* the output directory
  sent,      \* versions uploaded so far
  base,      \* history: the uploads the Task started with
  touched,   \* history: files a tool has opened since, or had open then
  excused    \* history: files whose state was told as a failure, or which a
             \* crash or two writers at once have spoilt

fileVars == <<uploads, output, sent, base, touched, excused>>

WorkspaceInit ==
  /\ uploads = [f \in Files |-> None]
  /\ output = [f \in Files |-> None]
  /\ sent = 0
  /\ base = [f \in Files |-> None]
  /\ touched = {} /\ excused = {}

Holding(f) == {c \in Calls : At(c, {"write"}) /\ call[c].file = f}
HeldOpen == {f \in Files : Holding(f) # {}}

-----------------------------------------------------------------------------
(* Uploads and their import, both on the event loop.                        *)

\* save_upload.  Of a request with several files those before a refused one
\* are saved; a full disk leaves a file cut short, and the user with a 500.
SavesUpload(f) ==
  /\ sent < MaxSent
  /\ sent' = sent + 1
  /\ \/ uploads' = [uploads EXCEPT ![f] = Sent(sent')] /\ UNCHANGED excused
     \/ uploads' = [uploads EXCEPT ![f] = Torn] /\ excused' = excused \cup {f}
  /\ UNCHANGED <<output, base, touched>>

CutShort == {f \in Files : uploads[f] = Torn}

\* import_uploads: every upload is copied over the file of its name.  The
\* first form leaves alone what is there already.
ImportedIfNew(f) == IF output[f] = None THEN uploads[f] ELSE output[f]
Imported(f) == IF uploads[f] = None THEN output[f] ELSE uploads[f]

Import ==
  /\ output' = [f \in Files |-> Imported(f)]
  /\ base' = uploads
  /\ touched' = HeldOpen
  /\ excused' = excused \cup HeldOpen \cup CutShort
  /\ UNCHANGED <<uploads, sent>>

\* A copy fails, after some others: the directory is read in any order.
ImportFails ==
  /\ \E done \in SUBSET Files : \E f \in Files \ done :
       /\ uploads[f] # None
       /\ output' = [g \in Files |-> CASE g = f -> Torn
                                       [] g \in done -> Imported(g)
                                       [] OTHER -> output[g]]
       /\ excused' = excused \cup HeldOpen \cup CutShort \cup {f}
  /\ UNCHANGED <<uploads, sent, base, touched>>

-----------------------------------------------------------------------------
(* generate_markdown, convert_md_to_pdf, read_file_content,                  *)
(* list_session_files.                                                      *)

\* What a failing file operation is told as: the OSError of a PDF is taken for
\* a failure of the renderer.  The first form tells nothing.
SilentFailure == [markdown |-> "ok", pdf |-> "ok", read |-> "retry"]
FileFailure == [markdown |-> "retry", pdf |-> "final", read |-> "retry"]

FileFails(c) == GoesOn(c, FileFailure[call[c].kind], "refused")

\* The Markdown is read and rendered; it may be cut within a character.
Renders(c) ==
  /\ At(c, {"render"})
  /\ \/ /\ output[Md] = None \/ output[Md] = Torn
        /\ GoesOn(c, "final", "good")
     \/ /\ output[Md] # None
        /\ call' = [call EXCEPT ![c].at = "open",
                     ![c].text = IF output[Md] = Torn THEN Torn ELSE @]
  /\ UNCHANGED <<fileVars, session>>

\* Opening for writing empties the file, also under another writer's hands.
Opens(c) ==
  LET f == call[c].file
  IN  /\ At(c, {"open"})
      /\ \/ /\ GoesOn(c, "write", "good")
            /\ output' = [output EXCEPT ![f] = Torn]
            /\ touched' = touched \cup {f}
            /\ excused' = IF f \in HeldOpen THEN excused \cup {f}
                                            ELSE excused \ {f}
         \/ FileFails(c) /\ UNCHANGED <<output, touched, excused>>
      /\ UNCHANGED <<uploads, sent, base, session>>

\* The text is written, and may mix with what another has written since this
\* one opened the file; or the disk is full.
Writes(c) ==
  LET f == call[c].file
      alone == output[f] = Torn /\ f \notin excused
      whole == IF alone THEN {call[c].text} ELSE {call[c].text, Torn}
  IN  /\ At(c, {"write"})
      /\ \/ /\ GoesOn(c, "ok", "good")
            /\ output' \in {[output EXCEPT ![f] = x] : x \in whole}
            /\ excused' = IF alone /\ call[c].text # Torn THEN excused
                                                    ELSE excused \cup {f}
         \/ /\ FileFails(c)
            /\ output' = [output EXCEPT ![f] = Torn]
            /\ excused' = IF FileFailure[call[c].kind] = "ok" THEN excused
                                                      ELSE excused \cup {f}
      /\ touched' = touched \cup {f}
      /\ UNCHANGED <<uploads, sent, base, session>>

\* A file of the user, or a torn one, may not be what its name says.
Loads(c) ==
  LET content == output[call[c].file]
  IN  /\ At(c, {"load"})
      /\ \/ content = None /\ GoesOn(c, "final", "good")
         \/ content # None /\ GoesOn(c, "ok", "good")
         \/ content # None /\ ~ByAgent(content) /\ GoesOn(c, "raised", "broken")
         \/ content # None /\ GoesOn(c, FileFailure["read"], "refused")
      /\ UNCHANGED <<fileVars, session>>

\* The fallback of a PDF conversion, convert_md_to_pdf_via_word, leaves a file
\* beside the Markdown while it works.
LeavesHtml(d) == At(d, {"open", "write"}) /\ call[d].kind = "pdf"

\* list_session_files asks for the size of what it has found, which may be gone.
Scans(c) ==
  /\ At(c, {"scan"})
  /\ \/ GoesOn(c, "ok", "good")
     \/ (\E d \in Calls : LeavesHtml(d)) /\ GoesOn(c, "raised", "broken")
  /\ UNCHANGED <<fileVars, session>>

-----------------------------------------------------------------------------
(* Properties.                                                              *)

\* A file is torn only while a tool is about to write it, or when the failure
\* was told to the model or to the uploader, or when two tools at one file or a
\* crash have spoilt it: else nobody has half a report that counts as made.
TornIsTold ==
  \A f \in Files : output[f] = Torn => f \in excused \cup HeldOpen
=============================================================================
