--------------------------------- MODULE Uploads ---------------------------------
(***************************************************************************)
(* Uploading a file from the composer (scully window.rs pick_and_upload,       *)
(* paste_media, upload_and_insert; app.rs upload), and the uploads window with *)
(* its editors (uploadersdialog.rs).                                          *)
(***************************************************************************)
EXTENDS Naturals, FiniteSets

CONSTANTS
  Drafts,      \* conversations of the one chat window
  Uploaders,   \* personal uploaders that may exist
  MaxJobs,     \* bound: uploads ever started
  MaxCalls,    \* bound: calls of the uploads window ever made
  MaxLists,    \* bound: uploads windows ever built
  MaxElsewhere \* bound: changes on other devices, and failures

ASSUME UploadsAssumption ==
  /\ Drafts # {} /\ IsFiniteSet(Drafts) /\ Uploaders \cap {"default"} = {}
  /\ {MaxJobs, MaxCalls, MaxLists, MaxElsewhere} \subseteq Nat

VARIABLES
  job,        \* the uploads: idle, sent, over
  attach,     \* the attach button: ready or busy
  composer,   \* the conversation the composer is for
  links,      \* the links in each conversation's text
  personal,   \* the server's uploaders,
  chosen,     \*   and where uploads go
  call,       \* calls to the server
  dialog,     \* the uploads windows: what they list and which radio is on
  editor,     \* of each uploads window: whose editors are open
  muddled,    \* history: what ChoiceAgrees excepts has happened
  outside

composing == <<job, attach, composer, links>>
uploaders == <<personal, chosen, call, dialog, editor, muddled>>
uploadVars == <<composing, uploaders, outside>>

Jobs == 1..MaxJobs
Calls == 1..MaxCalls
Lists == 1..MaxLists
Outside == outside < MaxElsewhere /\ outside' = outside + 1

NextOf(f, S) == {i \in S : f[i].state = "idle" /\ \A j \in S : j < i => f[j].state # "idle"}

--------------------------------------------------------------------------------
(* The composer *)

\* What is left to send of a file of that size, or nothing: the file chooser
\* looks at the size before the image is made smaller, the others after.
Accepted(origin, size) ==
  \/ size = "small"
  \/ size = "shrinks" /\ origin # "chooser"

\* The button is busy from here; app.upload answers at once if there is no session.
Attach(origin, size) ==
  /\ Accepted(origin, size)
  /\ \E j \in NextOf(job, Jobs) : job' = [job EXCEPT ![j].state = "sent"]
  /\ attach' = "busy"
  /\ UNCHANGED <<composer, links, uploaders, outside>>

UploadFails(j) ==
  /\ job[j].state = "sent"
  /\ job' = [job EXCEPT ![j].state = "over"]
  /\ attach' = "ready"
  /\ Outside
  /\ UNCHANGED <<composer, links, uploaders>>

\* The link goes where the cursor is by now.
UploadDone(j) ==
  /\ job[j].state = "sent"
  /\ job' = [job EXCEPT ![j].state = "over"]
  /\ attach' = "ready"
  /\ links' = [links EXCEPT ![composer] = @ \cup {j}]
  /\ UNCHANGED <<composer, uploaders, outside>>

\* activate: each conversation keeps its own text.
Switch(k) ==
  /\ composer # k /\ composer' = k
  /\ UNCHANGED <<job, attach, links, uploaders, outside>>

--------------------------------------------------------------------------------
(* The uploads window *)

Unmade == [state |-> "idle", kind |-> "fetch", about |-> "default", from |-> 0]
Answered == [Unmade EXCEPT !.state = "over"]
Pending == {c \in Calls : call[c].state \in {"sent", "done", "refused"}}

\* A call is made; it muddles things if another one is under way.
Called(kind, about, from) ==
  /\ \E c \in NextOf(call, Calls) :
       call' = [call EXCEPT ![c] = [state |-> "sent", kind |-> kind, about |-> about, from |-> from]]
  /\ muddled' = (muddled \/ Pending # {})

\* open: fetch what the server has
OpenUploads ==
  /\ Called("fetch", "default", 0)
  /\ UNCHANGED <<composing, personal, chosen, dialog, editor, outside>>

Radios(l) == dialog[l].listed \cup {"default"}

\* mutant: the radio that goes off reports as well
ChooseBoth(l, u) ==
  /\ dialog[l].state = "open" /\ u \in Radios(l) \ {dialog[l].radio}
  /\ \E c \in NextOf(call, Calls) :
       c < MaxCalls /\ call' = [call EXCEPT
         ![c] = [state |-> "sent", kind |-> "select", about |-> dialog[l].radio, from |-> l],
         ![c + 1] = [state |-> "sent", kind |-> "select", about |-> u, from |-> l]]
  /\ dialog' = [dialog EXCEPT ![l].radio = u]
  /\ muddled' = (muddled \/ Pending # {})
  /\ UNCHANGED <<composing, personal, chosen, editor, outside>>

\* A radio goes on, and only that one reports.
Choose(l, u) ==
  /\ dialog[l].state = "open" /\ u \in Radios(l) \ {dialog[l].radio}
  /\ Called("select", u, l)
  /\ dialog' = [dialog EXCEPT ![l].radio = u]
  /\ UNCHANGED <<composing, personal, chosen, editor, outside>>

\* Delete, confirmed
Delete(l, u) ==
  /\ dialog[l].state = "open" /\ u \in dialog[l].listed
  /\ Called("delete", u, l)
  /\ UNCHANGED <<composing, personal, chosen, dialog, editor, outside>>

\* "Edit", or "Add…" for one that does not exist yet; several may be open. A second
\* one for the same uploader can do no more than the first.
OpenEditor(l, u) ==
  /\ dialog[l].state = "open" /\ u \notin editor[l]
  /\ editor' = [editor EXCEPT ![l] = @ \cup {u}]
  /\ UNCHANGED <<composing, personal, chosen, call, dialog, muddled, outside>>

\* An edit needs a name; nothing keeps Save from being pressed twice.
SaveEditor(l, u) ==
  /\ u \in editor[l]
  /\ Called(IF u \in dialog[l].listed THEN "update" ELSE "create", u, l)
  /\ UNCHANGED <<composing, personal, chosen, dialog, editor, outside>>

CloseEditor(l, u) ==
  /\ u \in editor[l]
  /\ editor' = [editor EXCEPT ![l] = @ \ {u}]
  /\ UNCHANGED <<composing, personal, chosen, call, dialog, muddled, outside>>

\* Escape; the editors are destroyed with their parent.
CloseUploads(l) ==
  /\ dialog[l].state = "open"
  /\ dialog' = [dialog EXCEPT ![l].state = "closed"]
  /\ editor' = [editor EXCEPT ![l] = {}]
  /\ UNCHANGED <<composing, personal, chosen, call, muddled, outside>>

--------------------------------------------------------------------------------
(* The server, and its answers *)

ServeUploader(c) ==
  LET u == call[c].about IN
  /\ call[c].state = "sent"
  /\ call' = [call EXCEPT ![c].state =
       IF call[c].kind \in {"select", "update", "delete"} /\ u \notin personal \cup {"default"}
       THEN "refused" ELSE "done",
       ![c].from = IF call[c].kind = "fetch" THEN [listed |-> personal, radio |-> chosen] ELSE @]
  /\ CASE call[c].kind = "select" /\ u \in personal \cup {"default"} ->
            chosen' = u /\ UNCHANGED personal
       [] call[c].kind = "delete" /\ u \in personal ->
            personal' = personal \ {u} /\ chosen' = (IF chosen = u THEN "default" ELSE chosen)
       [] call[c].kind = "create" -> personal' = personal \cup {u} /\ UNCHANGED chosen
       [] OTHER -> UNCHANGED <<personal, chosen>>
  /\ UNCHANGED <<composing, dialog, editor, muddled, outside>>

LoseUploaderCall(c) ==
  /\ call[c].state = "sent" /\ Outside
  /\ call' = [call EXCEPT ![c].state = "refused"]
  /\ UNCHANGED <<composing, personal, chosen, dialog, editor, muddled>>

ChosenElsewhere(u) ==
  /\ u \in (personal \cup {"default"}) \ {chosen}
  /\ chosen' = u /\ muddled' = TRUE
  /\ Outside
  /\ UNCHANGED <<composing, personal, call, dialog, editor>>

\* build: a window for what the server had, if a chat window is left
Built(c) ==
  /\ call[c].state = "done" /\ call[c].kind = "fetch"
  /\ \E l \in NextOf(dialog, Lists) :
       dialog' = [dialog EXCEPT ![l] = [state |-> "open", listed |-> call[c].from.listed,
                                        radio |-> call[c].from.radio]]
  /\ call' = [call EXCEPT ![c] = Answered]
  /\ muddled' = (muddled \/ \E l \in Lists : dialog[l].state = "open")
  /\ UNCHANGED <<composing, personal, chosen, editor, outside>>

\* The choice is saved: the status says so.
Selected(c) ==
  /\ call[c].state = "done" /\ call[c].kind = "select"
  /\ call' = [call EXCEPT ![c] = Answered]
  /\ UNCHANGED <<composing, personal, chosen, dialog, editor, muddled, outside>>

\* A delete or save went through: the window is closed, were it closed or not,
\* and the state is fetched again.
Changed(c) ==
  /\ call[c].state = "done" /\ call[c].kind \in {"delete", "update", "create"}
  /\ dialog' = [dialog EXCEPT ![call[c].from].state = "closed"]
  /\ editor' = [editor EXCEPT ![call[c].from] = {}]
  /\ \E d \in NextOf(call, Calls) :
       call' = [call EXCEPT ![c] = Answered, ![d] = [Unmade EXCEPT !.state = "sent"]]
  /\ muddled' = (muddled \/ Pending # {c})
  /\ UNCHANGED <<composing, personal, chosen, outside>>

\* A refusal is shown; of a fetch it is only logged, of a delete not even that. The
\* radio stays.
Refused(c) ==
  /\ call[c].state = "refused"
  /\ call' = [call EXCEPT ![c] = Answered]
  /\ muddled' = TRUE
  /\ UNCHANGED <<composing, personal, chosen, dialog, editor, outside>>

\* An end and a new start; the text of the composer is not kept.
UploadsRestart ==
  /\ attach' = "ready" /\ UNCHANGED composer /\ links' = [k \in Drafts |-> {}]
  /\ job' = [j \in Jobs |-> IF job[j].state = "sent" THEN [state |-> "over"] ELSE job[j]]
  /\ dialog' = [l \in Lists |-> IF dialog[l].state = "open" THEN [dialog[l] EXCEPT !.state = "closed"]
                                ELSE dialog[l]]
  /\ editor' = [l \in Lists |-> {}]
  /\ call' = [c \in Calls |-> IF c \in Pending THEN Answered ELSE call[c]]
  /\ UNCHANGED <<personal, chosen, muddled>>

--------------------------------------------------------------------------------
UploadsInit ==
  /\ job = [j \in Jobs |-> [state |-> "idle"]] /\ attach = "ready"
  /\ composer \in Drafts /\ links = [k \in Drafts |-> {}]
  /\ personal \in SUBSET Uploaders /\ chosen \in personal \cup {"default"}
  /\ call = [c \in Calls |-> Unmade]
  /\ dialog = [l \in Lists |-> [state |-> "idle", listed |-> {}, radio |-> "default"]]
  /\ editor = [l \in Lists |-> {}]
  /\ muddled = FALSE /\ outside = 0

ComposerNext ==
  \/ \E origin \in {"chooser", "drop", "paste"}, size \in {"small", "shrinks", "large"} :
       Attach(origin, size)
  \/ \E j \in Jobs : UploadFails(j) \/ UploadDone(j)
  \/ \E k \in Drafts : Switch(k)

UploadersNext ==
  \/ OpenUploads
  \/ \E l \in Lists : \/ CloseUploads(l)
                      \/ \E u \in Uploaders \cup {"default"} : Choose(l, u)
                      \/ \E u \in Uploaders : \/ Delete(l, u) \/ OpenEditor(l, u)
                                            \/ SaveEditor(l, u) \/ CloseEditor(l, u)
  \/ \E c \in Calls : \/ ServeUploader(c) \/ LoseUploaderCall(c) \/ Built(c)
                      \/ Selected(c) \/ Changed(c) \/ Refused(c)
  \/ \E u \in Uploaders \cup {"default"} : ChosenElsewhere(u)

UploadsNext == ComposerNext \/ UploadersNext

--------------------------------------------------------------------------------
(* Properties *)

UploadsTypeOK ==
  /\ job \in [Jobs -> [state : {"idle", "sent", "over"}]]
  /\ attach \in {"ready", "busy"} /\ composer \in Drafts /\ links \in [Drafts -> SUBSET Jobs]
  /\ personal \subseteq Uploaders /\ chosen \in personal \cup {"default"}
  /\ \A c \in Calls : call[c].state \in {"idle", "sent", "done", "refused", "over"}
  /\ \A l \in Lists : dialog[l].state \in {"idle", "open", "closed"} /\ dialog[l].listed \subseteq Uploaders
  /\ editor \in [Lists -> SUBSET Uploaders]
  /\ muddled \in BOOLEAN /\ outside \in 0..MaxElsewhere

\* A busy attach button has an upload behind it that will make it ready again:
\* no outcome strands the disabled button (window.rs:4941-4943).
BusyHasUpload ==
  /\ UploadsTypeOK
  /\ attach = "busy" => \E j \in Jobs : job[j].state = "sent"

\* As long as no call was refused, none overlapped another, nobody else changed
\* anything and no two uploads windows were open (a choice in one leaves the
\* other as it was): once all calls are answered, the radio that is on is where
\* the server will send an upload, after deletions and edits too.
ChoiceAgrees ==
  ~muddled /\ Pending = {} =>
    \A l \in Lists : dialog[l].state = "open" => dialog[l].radio = chosen
================================================================================
