---------------------------------- MODULE Media ----------------------------------
(***************************************************************************)
(* What scully fetches and sends besides chat: images and previews, media to   *)
(* play, uploads and the uploads window.  They share the runtime that carries  *)
(* their calls and the restarts that interrupt all of them, and nothing else:  *)
(* a behaviour follows one of them at a time.                                 *)
(***************************************************************************)
EXTENDS Images, Downloads, Uploads

VARIABLE focus  \* bound: the part that acts

mediaVars == <<imageVars, downloadVars, uploadVars, focus>>

\* A crash, or an end and a new start
Restart ==
  /\ ImagesRestart /\ DownloadsRestart /\ UploadsRestart
  /\ CASE focus = "images" -> Turn /\ UNCHANGED <<faults, outside>>
       [] focus = "downloads" -> Fault /\ UNCHANGED <<turns, outside>>
       [] OTHER -> Outside /\ UNCHANGED <<turns, faults>>

Init ==
  /\ ImagesInit /\ DownloadsInit /\ UploadsInit
  /\ focus \in {"images", "downloads", "composer", "uploaders"}
  /\ focus # "images" => inline /\ cards
  /\ focus # "uploaders" => personal = {}
  /\ focus # "composer" => composer = CHOOSE k \in Drafts : TRUE

Next ==
  /\ UNCHANGED focus
  /\ \/ Restart
     \/ focus = "images" /\ ImagesNext /\ UNCHANGED <<downloadVars, uploadVars>>
     \/ focus = "downloads" /\ DownloadsNext /\ UNCHANGED <<imageVars, uploadVars>>
     \/ focus = "composer" /\ ComposerNext /\ UNCHANGED <<imageVars, downloadVars>>
     \/ focus = "uploaders" /\ UploadersNext /\ UNCHANGED <<imageVars, downloadVars>>

\* Every fetch has a timeout of 60 seconds (media.rs fetch).
Spec ==
  /\ Init /\ [][Next]_mediaVars
  /\ \A u \in Links : WF_mediaVars(FetchEnds(u) /\ UNCHANGED <<downloadVars, uploadVars, focus>>)

\* Whatever shows that it is waiting has something under way that will tell it:
\* the button of a poster that says "fetching", and the busy attach button.
\* Otherwise it would be dead until it is drawn anew.
WaitsHaveTasks == FetchingHasTask /\ BusyHasUpload
================================================================================
