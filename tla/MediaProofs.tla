---------------------------- MODULE MediaProofs ----------------------------
(***************************************************************************)
(* What holds of what is fetched and sent in every state, however many links,   *)
(* windows, downloads, uploads and calls there are.                           *)
(***************************************************************************)
EXTENDS Media, WellFoundedInduction, TLAPS

--------------------------------------------------------------------------------
(* The parts *)

\* What a step of the whole does to each part
LEMMA PartsStep ==
  ASSUME Next
  PROVE  /\ DownloadsNext \/ DownloadsRestart \/ UNCHANGED downloadVars
         /\ ImagesNext \/ ImagesRestart \/ UNCHANGED imageVars
         /\ UploadsNext \/ UploadsRestart \/ UNCHANGED uploadVars
         /\ faults' = faults \/ Fault
         /\ turns' = turns \/ Turn
         /\ outside' = outside \/ Outside
<1>1. CASE Restart
  <2>1. ImagesRestart /\ DownloadsRestart /\ UploadsRestart
    BY <1>1 DEF Restart
  <2>2. faults' = faults \/ Fault
    BY <1>1, Zenon DEF Restart
  <2>3. turns' = turns \/ Turn
    BY <1>1, Zenon DEF Restart
  <2>4. outside' = outside \/ Outside
    BY <1>1, Zenon DEF Restart
  <2>5. QED BY <2>1, <2>2, <2>3, <2>4
<1>2. ASSUME ImagesNext PROVE turns' = turns \/ Turn
  BY <1>2 DEF ImagesNext, Toggle, Redraw, Open, Retry, FetchEnds, Complete, Fail, PageRead
<1>3. ASSUME DownloadsNext PROVE faults' = faults \/ Fault
  BY <1>3 DEF DownloadsNext, PruneElsewhere, Play, PosterRedrawn, OpenPart, WriteChunk, Rename,
              Breaks, TooLarge, Succeeded, Failed
<1>4. ASSUME UploadsNext PROVE outside' = outside \/ Outside
  <2>1. CASE ComposerNext
    BY <2>1 DEF ComposerNext, Attach, UploadFails, UploadDone, Switch
  <2>2. CASE UploadersNext
    BY <2>2 DEF UploadersNext, OpenUploads, SaveEditor, CloseEditor, CloseUploads, Choose, Delete,
                OpenEditor, ServeUploader, LoseUploaderCall, Built, Selected, Changed, Refused, ChosenElsewhere
  <2>3. QED BY <1>4, <2>1, <2>2 DEF UploadsNext
<1>5. CASE ImagesNext /\ UNCHANGED <<downloadVars, uploadVars>>
  BY <1>2, <1>5 DEF downloadVars, uploadVars
<1>6. CASE DownloadsNext /\ UNCHANGED <<imageVars, uploadVars>>
  BY <1>3, <1>6 DEF imageVars, uploadVars
<1>7. CASE UploadsNext /\ UNCHANGED <<imageVars, downloadVars>>
  BY <1>4, <1>7 DEF imageVars, downloadVars
<1>8. QED BY <1>1, <1>5, <1>6, <1>7 DEF Next, UploadsNext

\* What users, faults and restarts do to images is counted.
LEMMA TurnsAreCounted ==
  ASSUME turns \in 0..MaxTurns, [Next]_mediaVars PROVE turns' \in 0..MaxTurns
<1>1. MaxTurns \in Nat
  BY ImagesAssumption
<1>2. turns' = turns \/ (turns < MaxTurns /\ turns' = turns + 1)
  BY PartsStep DEF mediaVars, imageVars, Turn
<1>3. QED BY <1>1, <1>2

--------------------------------------------------------------------------------
(* Downloads *)

\* The file that a download writes has all it wrote, unless it is shared; one that
\* has not begun has no file yet, so a partial file is nobody's target.
DownloadInv ==
  /\ DownloadsTypeOK /\ CachedIsWhole
  /\ \A t \in Tasks :
       /\ task[t].state = "idle" => task[t] = Idle
       /\ task[t].state = "asked" => task[t].next = 1
       /\ task[t].state \in {"idle", "asked"} =>
            /\ t # target /\ t # part
            /\ \A u \in Tasks : task[u].state = "writing" => task[u].file # t
       /\ task[t].state = "writing" =>
            /\ task[t].file \in Tasks
            /\ task[t].file \notin shared => 1..task[t].next - 1 \subseteq content[task[t].file]
  /\ part = 0 \/ part # target

\* Every step of a download keeps the files as they should be.
LEMMA DownloadStep ==
  ASSUME DownloadInv, DownloadsNext \/ DownloadsRestart, faults' \in 0..MaxFaults PROVE DownloadInv'
<1> DEFINE Task == [state : {"idle", "asked", "writing", "done", "failed", "over"},
                    poster : Posters \cup {"none"}, file : 0..MaxTasks, next : 1..(Chunks + 1)]
           States == {"poster", "fetching", "retry", "playing"}
<1>1. /\ player \in [Posters -> States] /\ task \in [Tasks -> Task]
      /\ target \in 0..MaxTasks /\ part \in 0..MaxTasks
      /\ content \in [Tasks -> SUBSET All] /\ shared \subseteq Tasks
  BY DEF DownloadInv, DownloadsTypeOK
<1>2. /\ MaxTasks \in Nat \ {0} /\ Chunks \in Nat \ {0} /\ MaxFaults \in Nat
      /\ Tasks = 1..MaxTasks /\ All = 1..Chunks
  BY DownloadsAssumption DEF Tasks, All
<1>3. Idle \in Task /\ Over \in Task /\ Idle.state = "idle" /\ Over.state = "over" /\ Over.next = 1
  BY <1>2 DEF Idle, Over
\* what holds of a download, given the disk
<1> DEFINE Fresh(t, tk, tg, pt) ==
             tk[t].state \in {"idle", "asked"} =>
               /\ t # tg /\ t # pt
               /\ \A u \in Tasks : tk[u].state = "writing" => tk[u].file # t
           Begins(t, tk) ==
             (tk[t].state = "idle" => tk[t] = Idle) /\ (tk[t].state = "asked" => tk[t].next = 1)
           Writes(t, tk, ct, sh) ==
             tk[t].state = "writing" =>
               /\ tk[t].file \in Tasks
               /\ tk[t].file \notin sh => 1..tk[t].next - 1 \subseteq ct[tk[t].file]
           Whole(tg, ct, sh) == tg \notin {0} \cup sh => ct[tg] = All
           Apart(tg, pt) == pt = 0 \/ pt # tg
<1>4. /\ \A t \in Tasks : Fresh(t, task, target, part) /\ Begins(t, task) /\ Writes(t, task, content, shared)
      /\ Whole(target, content, shared) /\ Apart(target, part)
  BY DEF DownloadInv, CachedIsWhole
<1>5. ASSUME player' \in [Posters -> States], task' \in [Tasks -> Task],
             target' \in 0..MaxTasks, part' \in 0..MaxTasks,
             content' \in [Tasks -> SUBSET All], shared' \subseteq Tasks,
             \A t \in Tasks : /\ Fresh(t, task', target', part') /\ Begins(t, task')
                              /\ Writes(t, task', content', shared'),
             Whole(target', content', shared'), Apart(target', part')
      PROVE  DownloadInv'
  <2>1. DownloadsTypeOK'
    BY <1>5 DEF DownloadsTypeOK, Tasks, All
  <2>2. CachedIsWhole'
    BY <1>5 DEF CachedIsWhole, All
  <2>3. QED BY <1>5, <2>1, <2>2 DEF DownloadInv, Tasks
<1> DEFINE Quiet(t) ==
             \/ task'[t].state \in {"done", "failed", "over"}
             \/ /\ task'[t].state = task[t].state /\ task'[t].next = task[t].next /\ task'[t].file = task[t].file
                /\ task[t].state = "idle" => task'[t] = task[t]
<1> HIDE DEF Task, States, Fresh, Begins, Writes, Whole, Apart
\* downloads that end, and files that vanish
<1>6. ASSUME player' \in [Posters -> States], task' \in [Tasks -> Task], \A t \in Tasks : Quiet(t),
             target' \in {target, 0}, part' \in {part, 0}, content' = content, shared' = shared
      PROVE  DownloadInv'
  <2>1. target' \in 0..MaxTasks /\ part' \in 0..MaxTasks
    BY <1>1, <1>2, <1>6
  <2>2. ASSUME NEW t \in Tasks
        PROVE Fresh(t, task', target', part') /\ Begins(t, task') /\ Writes(t, task', content', shared')
    <3>1. Fresh(t, task, target, part) /\ Begins(t, task) /\ Writes(t, task, content, shared)
      BY <1>4
    <3>2. t # 0
      BY <1>2
    <3>3. \A u \in Tasks : task'[u].state = "writing" => task[u].state = "writing" /\ task'[u].file = task[u].file
      BY <1>6
    <3>4. Fresh(t, task', target', part')
      BY <1>6, <3>1, <3>2, <3>3 DEF Fresh
    <3>5. Begins(t, task')
      BY <1>6, <3>1 DEF Begins
    <3>6. Writes(t, task', content', shared')
      BY <1>6, <3>1 DEF Writes
    <3>7. QED BY <3>4, <3>5, <3>6
  <2>3. Whole(target', content', shared') /\ Apart(target', part')
    BY <1>4, <1>6 DEF Whole, Apart
  <2>4. content' \in [Tasks -> SUBSET All] /\ shared' \subseteq Tasks
    BY <1>1, <1>6
  <2>5. QED BY <1>5, <1>6, <2>1, <2>2, <2>3, <2>4
<1>7. ASSUME NEW t \in Tasks, NEW s \in {"done", "failed", "over"}, task' = [task EXCEPT ![t].state = s]
      PROVE  task' \in [Tasks -> Task] /\ \A u \in Tasks : Quiet(u)
  BY <1>1, <1>7 DEF Task
<1>8. ASSUME NEW t \in Tasks, task' = [task EXCEPT ![t] = Over]
      PROVE  task' \in [Tasks -> Task] /\ \A u \in Tasks : Quiet(u)
  BY <1>1, <1>3, <1>8
<1>9. ASSUME task' = task PROVE task' \in [Tasks -> Task] /\ \A u \in Tasks : Quiet(u)
  BY <1>1, <1>9
<1>10. ASSUME PruneElsewhere PROVE DownloadInv'
  <2>1. /\ target' \in {target, 0} /\ part' \in {part, 0} /\ player' = player /\ task' = task
        /\ content' = content /\ shared' = shared
    BY <1>10 DEF PruneElsewhere
  <2>2. player' \in [Posters -> States]
    BY <1>1, <2>1
  <2>3. QED BY Zenon, <1>6, <1>9, <2>1, <2>2
<1>11. ASSUME NEW p \in Posters, Play(p) PROVE DownloadInv'
  <2>1. target' = target /\ part' = part /\ content' = content /\ shared' = shared
    BY <1>11 DEF Play, disk
  <2>2. CASE player' = [player EXCEPT ![p] = "playing"] /\ task' = task
    <3>1. player' \in [Posters -> States]
      BY <1>1, <2>2 DEF States
    <3>2. QED BY Zenon, <1>6, <1>9, <2>1, <2>2, <3>1
  <2>3. CASE \E t \in Tasks : /\ task[t].state = "idle"
                              /\ task' = [task EXCEPT ![t].state = "asked", ![t].poster = p]
                              /\ player' = [player EXCEPT ![p] = "fetching"]
    <3>1. PICK t \in Tasks : /\ task[t].state = "idle"
                             /\ task' = [task EXCEPT ![t].state = "asked", ![t].poster = p]
                             /\ player' = [player EXCEPT ![p] = "fetching"]
      BY <2>3
    <3>2. player' \in [Posters -> States] /\ task' \in [Tasks -> Task]
      BY ZenonT(40), <1>1, <3>1 DEF States, Task
    <3>3. /\ task'[t].state = "asked" /\ task'[t].next = 1
          /\ \A u \in Tasks : u # t => task'[u] = task[u]
      BY <1>1, <1>3, <1>4, <3>1 DEF Begins, Task, Idle
    <3>4. ASSUME NEW u \in Tasks
          PROVE Fresh(u, task', target', part') /\ Begins(u, task') /\ Writes(u, task', content', shared')
      <4>1. Fresh(u, task, target, part) /\ Begins(u, task) /\ Writes(u, task, content, shared)
        BY <1>4
      <4>2. Fresh(u, task', target', part')
        BY <2>1, <3>1, <3>3, <4>1 DEF Fresh
      <4>3. Begins(u, task')
        BY <3>3, <4>1 DEF Begins
      <4>4. Writes(u, task', content', shared')
        BY <2>1, <3>3, <4>1 DEF Writes
      <4>5. QED BY <4>2, <4>3, <4>4
    <3>5. QED BY Zenon, <1>1, <1>4, <1>5, <2>1, <3>2, <3>4
  <2>4. QED BY <1>11, <2>2, <2>3 DEF Play
<1>12. ASSUME NEW p \in Posters, PosterRedrawn(p) PROVE DownloadInv'
  <2>1. /\ player' = [player EXCEPT ![p] = "poster"] /\ target' = target /\ part' = part
        /\ content' = content /\ shared' = shared
        /\ task' = [t \in Tasks |-> IF task[t].poster = p THEN [task[t] EXCEPT !.poster = "none"] ELSE task[t]]
    BY <1>12 DEF PosterRedrawn, disk
  <2>2. player' \in [Posters -> States]
    BY <1>1, <2>1 DEF States
  <2>3. task' \in [Tasks -> Task]
    BY <1>1, <2>1 DEF Task
  <2>4. ASSUME NEW t \in Tasks PROVE Quiet(t)
    <3>1. task[t] \in Task
      BY <1>1
    <3>2. /\ task'[t].state = task[t].state /\ task'[t].next = task[t].next
          /\ task'[t].file = task[t].file
      BY <2>1, <3>1 DEF Task
    <3>3. ASSUME task[t].state = "idle" PROVE task'[t] = task[t]
      <4>1. task[t] = Idle
        BY <1>4, <3>3 DEF Begins
      <4>2. [Idle EXCEPT !.poster = "none"] = Idle
        BY DEF Idle
      <4>3. QED BY <2>1, <4>1, <4>2
    <3>4. QED BY <3>2, <3>3
  <2>5. QED BY Zenon, <1>6, <2>1, <2>2, <2>3, <2>4
<1>13. ASSUME NEW t \in Tasks, Breaks(t) \/ TooLarge(t) PROVE DownloadInv'
  <2>1. /\ player' = player /\ target' = target /\ part' \in {part, 0}
        /\ content' = content /\ shared' = shared /\ task' = [task EXCEPT ![t].state = "failed"]
    BY <1>13 DEF Breaks, TooLarge, disk, Ended
  <2>2. player' \in [Posters -> States] /\ target' \in {target, 0}
    BY <1>1, <2>1
  <2>3. QED BY Zenon, <1>6, <1>7, <2>1, <2>2
<1>14. ASSUME NEW t \in Tasks, Succeeded(t) \/ Failed(t) PROVE DownloadInv'
  <2>1. /\ target' = target /\ part' \in {part, 0} /\ content' = content /\ shared' = shared
        /\ task' = [task EXCEPT ![t] = Over]
        /\ \E s \in {"playing", "retry"} :
             player' = [p \in Posters |-> IF p = task[t].poster THEN s ELSE player[p]]
    BY <1>14 DEF Succeeded, Failed, disk
  <2>2. player' \in [Posters -> States] /\ target' \in {target, 0}
    BY <1>1, <2>1 DEF States
  <2>3. QED BY Zenon, <1>6, <1>8, <2>1, <2>2
<1>15. ASSUME DownloadsRestart PROVE DownloadInv'
  <2>1. /\ player' = [p \in Posters |-> "poster"] /\ target' = target /\ part' = part
        /\ content' = content /\ shared' = shared
        /\ task' = [t \in Tasks |-> IF task[t].state = "idle" THEN task[t] ELSE Over]
    BY <1>15 DEF DownloadsRestart, disk
  <2>2. player' \in [Posters -> States]
    BY <2>1 DEF States
  <2>3. task' \in [Tasks -> Task] /\ \A t \in Tasks : Quiet(t)
    BY <1>1, <1>3, <2>1
  <2>4. QED BY Zenon, <1>6, <2>1, <2>2, <2>3
<1>16. ASSUME NEW t \in Tasks, OpenPart(t) PROVE DownloadInv'
  <2> DEFINE file == IF part = 0 THEN t ELSE part
  <2>1. /\ task[t].state = "asked" /\ part' = file /\ content' = [content EXCEPT ![file] = {}]
        /\ task' = [task EXCEPT ![t].state = "writing", ![t].file = file]
        /\ shared' \in {shared, shared \cup {part}}
        /\ part # 0 /\ (\E u \in Tasks : task[u].state = "writing" /\ task[u].file = part) => part \in shared'
        /\ part = 0 => shared' = shared
        /\ player' = player /\ target' = target
    BY <1>16 DEF OpenPart
  <2>2. file \in Tasks /\ file # 0 /\ (part = 0 => file = t) /\ (part # 0 => file = part)
    BY <1>1, <1>2
  <2> HIDE DEF file
  <2>3. /\ task' \in [Tasks -> Task] /\ task'[t].state = "writing" /\ task'[t].file = file
        /\ task'[t].next = 1 /\ \A u \in Tasks : u # t => task'[u] = task[u]
    <3>1. task[t] \in Task /\ task[t].next = 1
      BY <1>1, <1>4, <2>1 DEF Begins
    <3>2. file \in 0..MaxTasks
      BY <1>2, <2>2
    <3>3. QED BY <1>1, <2>1, <3>1, <3>2 DEF Task
  <2>4. /\ content' \in [Tasks -> SUBSET All] /\ content'[file] = {}
        /\ \A u \in Tasks : u # file => content'[u] = content[u]
    BY <1>1, <2>1, <2>2
  <2>5. shared' \subseteq Tasks /\ shared \subseteq shared' /\ part' \in 0..MaxTasks /\ target' \in 0..MaxTasks
    BY <1>1, <1>2, <2>1, <2>2
  <2>6. file # target
    <3>1. Fresh(t, task, target, part) /\ Apart(target, part)
      BY <1>4
    <3>2. QED BY <2>1, <2>2, <3>1 DEF Fresh, Apart
  <2>7. \A u \in Tasks : task[u].state \in {"idle", "asked"} /\ u # t => u # file
    <3>1. \A u \in Tasks : Fresh(u, task, target, part)
      BY <1>4
    <3>2. QED BY <2>2, <3>1 DEF Fresh
  <2>8. \A u \in Tasks : task[u].state = "writing" /\ task[u].file = file => file \in shared'
    <3>1. Fresh(t, task, target, part)
      BY <1>4
    <3>2. QED BY <2>1, <2>2, <3>1 DEF Fresh
  <2>9. ASSUME NEW u \in Tasks
        PROVE Fresh(u, task', target', part') /\ Begins(u, task') /\ Writes(u, task', content', shared')
    <3>1. Fresh(u, task, target, part) /\ Begins(u, task) /\ Writes(u, task, content, shared)
      BY <1>4
    <3>2. Fresh(u, task', target', part')
      <4>1. SUFFICES ASSUME task'[u].state \in {"idle", "asked"}
                     PROVE /\ u # target' /\ u # part'
                           /\ \A v \in Tasks : task'[v].state = "writing" => task'[v].file # u
        BY DEF Fresh
      <4>2. u # t /\ task'[u] = task[u] /\ u # file
        BY <2>3, <2>7, <4>1
      <4>3. u # target /\ \A v \in Tasks : task[v].state = "writing" => task[v].file # u
        BY <3>1, <4>1, <4>2 DEF Fresh
      <4>4. QED BY <2>1, <2>3, <4>2, <4>3
    <3>3. Begins(u, task')
      BY <2>3, <3>1 DEF Begins
    <3>4. Writes(u, task', content', shared')
      <4>1. CASE u = t
        <5>1. 1..task'[t].next - 1 = {}
          BY <2>3
        <5>2. QED BY <2>2, <2>3, <4>1, <5>1 DEF Writes
      <4>2. CASE u # t
        <5>1. task'[u] = task[u]
          BY <2>3, <4>2
        <5>2. SUFFICES ASSUME task[u].state = "writing"
                       PROVE /\ task[u].file \in Tasks
                             /\ task[u].file \notin shared' => 1..task[u].next - 1 \subseteq content'[task[u].file]
          BY <5>1 DEF Writes
        <5>3. task[u].file \in Tasks
              /\ (task[u].file \notin shared => 1..task[u].next - 1 \subseteq content[task[u].file])
          BY <3>1, <5>2 DEF Writes
        <5>4. task[u].file \notin shared' => task[u].file # file /\ task[u].file \notin shared
          BY <2>5, <2>8, <5>2
        <5>5. QED BY <2>4, <5>3, <5>4
      <4>3. QED BY <4>1, <4>2
    <3>5. QED BY <3>2, <3>3, <3>4
  <2>10. Whole(target', content', shared')
    <3>1. Whole(target, content, shared)
      BY <1>4
    <3>2. target # 0 => target \in Tasks
      BY <1>1, <1>2
    <3>3. QED BY <2>1, <2>4, <2>5, <2>6, <3>1, <3>2 DEF Whole
  <2>11. Apart(target', part')
    BY <2>1, <2>6 DEF Apart
  <2>12. player' \in [Posters -> States]
    BY <1>1, <2>1
  <2>13. QED BY Zenon, <1>5, <2>3, <2>4, <2>5, <2>9, <2>10, <2>11, <2>12
<1>17. ASSUME NEW t \in Tasks, WriteChunk(t) PROVE DownloadInv'
  <2> DEFINE file == task[t].file
             n == task[t].next
  <2>1. /\ task[t].state = "writing" /\ n \in All /\ content' = [content EXCEPT ![file] = @ \cup {n}]
        /\ task' = [task EXCEPT ![t].next = @ + 1]
        /\ player' = player /\ target' = target /\ part' = part /\ shared' = shared
    BY <1>17 DEF WriteChunk
  <2>2. file \in Tasks /\ (file \notin shared => 1..n - 1 \subseteq content[file])
    BY <1>4, <2>1 DEF Writes
  <2>3. /\ task' \in [Tasks -> Task] /\ task'[t].state = "writing" /\ task'[t].file = file
        /\ task'[t].next = n + 1 /\ \A u \in Tasks : u # t => task'[u] = task[u]
    <3>1. task[t] \in Task /\ n + 1 \in 1..(Chunks + 1)
      BY <1>1, <1>2, <2>1
    <3>2. QED BY <1>1, <2>1, <3>1 DEF Task
  <2> HIDE DEF file, n
  <2>4. /\ content' \in [Tasks -> SUBSET All] /\ content'[file] = content[file] \cup {n}
        /\ \A u \in Tasks : content[u] \subseteq content'[u]
        /\ \A u \in Tasks : u # file => content'[u] = content[u]
    BY <1>1, <2>1, <2>2
  <2>5. ASSUME NEW u \in Tasks
        PROVE Fresh(u, task', target', part') /\ Begins(u, task') /\ Writes(u, task', content', shared')
    <3>1. Fresh(u, task, target, part) /\ Begins(u, task) /\ Writes(u, task, content, shared)
      BY <1>4
    <3>2. Fresh(u, task', target', part')
      BY <2>1, <2>3, <3>1 DEF Fresh, file
    <3>3. Begins(u, task')
      BY <2>3, <3>1 DEF Begins
    <3>4. Writes(u, task', content', shared')
      <4>1. CASE u = t
        <5>1. 1..n + 1 - 1 = 1..n - 1 \cup {n}
          BY <1>2, <2>1
        <5>2. QED BY <2>1, <2>2, <2>3, <2>4, <4>1, <5>1 DEF Writes
      <4>2. CASE u # t
        BY <2>1, <2>3, <2>4, <3>1, <4>2 DEF Writes
      <4>3. QED BY <4>1, <4>2
    <3>5. QED BY <3>2, <3>3, <3>4
  <2>6. Whole(target', content', shared')
    <3>1. Whole(target, content, shared)
      BY <1>4
    <3>2. target # 0 => target \in Tasks
      BY <1>1, <1>2
    <3>3. \A u \in Tasks : content'[u] \subseteq All
      BY <2>4
    <3>4. QED BY <2>1, <2>4, <3>1, <3>2, <3>3 DEF Whole
  <2>7. Apart(target', part') /\ player' \in [Posters -> States] /\ target' \in 0..MaxTasks
        /\ part' \in 0..MaxTasks /\ shared' \subseteq Tasks
    BY <1>1, <1>4, <2>1
  <2>8. QED BY Zenon, <1>5, <2>3, <2>4, <2>5, <2>6, <2>7
<1>18. ASSUME NEW t \in Tasks, Rename(t) PROVE DownloadInv'
  <2>1. /\ task[t].state = "writing" /\ task[t].next \notin All
        /\ player' = player /\ content' = content
        /\ \/ task' = [task EXCEPT ![t].state = "failed"] /\ target' = target /\ part' = part /\ shared' = shared
           \/ /\ part # 0 /\ task' = [task EXCEPT ![t].state = "done"] /\ target' = part /\ part' = 0
              /\ shared' = IF part # task[t].file THEN shared \cup {part} ELSE shared
    BY <1>18 DEF Rename, Ended
  <2>2. player' \in [Posters -> States]
    BY <1>1, <2>1
  <2>3. CASE task' = [task EXCEPT ![t].state = "failed"] /\ target' = target /\ part' = part /\ shared' = shared
    BY Zenon, <1>6, <1>7, <2>1, <2>2, <2>3
  <2>4. CASE /\ part # 0 /\ task' = [task EXCEPT ![t].state = "done"] /\ target' = part /\ part' = 0
             /\ shared' = IF part # task[t].file THEN shared \cup {part} ELSE shared
    <3>1. task' \in [Tasks -> Task] /\ \A u \in Tasks : Quiet(u)
      BY Zenon, <1>7, <2>4
    <3>2. part \in Tasks /\ target' \in 0..MaxTasks /\ part' \in 0..MaxTasks
          /\ shared' \subseteq Tasks /\ shared \subseteq shared' /\ content' \in [Tasks -> SUBSET All]
      BY <1>1, <1>2, <2>1, <2>4
    <3>3. \A u \in Tasks : task'[u].state \in {"idle", "asked", "writing"} =>
            u # t /\ task'[u].state = task[u].state /\ task'[u].file = task[u].file
            /\ task'[u].next = task[u].next /\ (task[u].state = "idle" => task'[u] = task[u])
      BY <1>1, <2>4 DEF Task
    <3>4. ASSUME NEW u \in Tasks
          PROVE Fresh(u, task', target', part') /\ Begins(u, task') /\ Writes(u, task', content', shared')
      <4>1. Fresh(u, task, target, part) /\ Begins(u, task) /\ Writes(u, task, content, shared)
        BY <1>4
      <4>2. Fresh(u, task', target', part')
        <5>1. u # 0
          BY <1>2
        <5>2. QED BY <2>4, <3>3, <4>1, <5>1 DEF Fresh
      <4>3. Begins(u, task')
        BY <3>3, <4>1 DEF Begins
      <4>4. Writes(u, task', content', shared')
        BY <2>1, <3>2, <3>3, <4>1 DEF Writes
      <4>5. QED BY <4>2, <4>3, <4>4
    <3>5. Whole(target', content', shared')
      <4>1. SUFFICES ASSUME part \notin shared' PROVE content[part] = All
        BY <2>1, <2>4 DEF Whole
      <4>2. part = task[t].file /\ part \notin shared
        BY <2>4, <4>1
      <4>3. 1..task[t].next - 1 \subseteq content[part]
        BY <1>4, <2>1, <4>2 DEF Writes
      <4>4. task[t].next \in 1..(Chunks + 1)
        BY <1>1 DEF Task
      <4>5. task[t].next = Chunks + 1
        BY <1>2, <2>1, <4>4
      <4>6. All \subseteq content[part]
        BY <1>2, <4>3, <4>5
      <4>7. QED BY <1>1, <3>2, <4>6
    <3>6. Apart(target', part')
      BY <2>4 DEF Apart
    <3>7. QED BY Zenon, <1>5, <2>2, <3>1, <3>2, <3>4, <3>5, <3>6
  <2>5. QED BY <2>1, <2>3, <2>4
<1>19. QED BY <1>10, <1>11, <1>12, <1>13, <1>14, <1>15, <1>16, <1>17, <1>18 DEF DownloadsNext

--------------------------------------------------------------------------------
\* No button says that it is fetching but for a download that reports to it.
LEMMA ButtonStep ==
  ASSUME FetchingHasTask, DownloadsNext \/ DownloadsRestart, DownloadsTypeOK' PROVE FetchingHasTask'
<1> DEFINE Active == {"asked", "writing", "done", "failed"}
           Waits(p) == player[p] = "fetching" => \E t \in Tasks : task[t].poster = p /\ task[t].state \in Active
<1>1. DownloadsTypeOK
  BY DEF FetchingHasTask
<1>2. /\ player \in [Posters -> {"poster", "fetching", "retry", "playing"}]
      /\ task \in [Tasks -> [state : {"idle", "asked", "writing", "done", "failed", "over"},
                             poster : Posters \cup {"none"}, file : 0..MaxTasks, next : 1..(Chunks + 1)]]
  BY <1>1 DEF DownloadsTypeOK
<1>3. \A t \in Tasks : task[t].state \notin {"idle", "over"} <=> task[t].state \in Active
  BY <1>2
<1>4. \A p \in Posters : Waits(p)
  BY <1>3 DEF FetchingHasTask
<1>5. \A t \in Tasks : task'[t].state \in Active => task'[t].state \notin {"idle", "over"}
  OBVIOUS
<1>6. SUFFICES ASSUME NEW p \in Posters, player'[p] = "fetching"
               PROVE  \E t \in Tasks : task'[t].poster = p /\ task'[t].state \in Active
  BY <1>5 DEF FetchingHasTask
\* a download goes on, or is told
<1>7. ASSUME NEW t \in Tasks,
             \A u \in Tasks : u # t => task'[u] = task[u],
             player'[p] = player[p],
             player[p] = "fetching" /\ task[t].poster = p => task'[t].poster = p /\ task'[t].state \in Active
      PROVE  \E u \in Tasks : task'[u].poster = p /\ task'[u].state \in Active
  <2>1. PICK u \in Tasks : task[u].poster = p /\ task[u].state \in Active
    BY <1>4, <1>6, <1>7
  <2>2. CASE u = t
    BY <1>6, <1>7, <2>1, <2>2
  <2>3. CASE u # t
    BY <1>7, <2>1, <2>3
  <2>4. QED BY <2>2, <2>3
<1>8. CASE PruneElsewhere
  BY <1>4, <1>6, <1>8 DEF PruneElsewhere
<1>9. ASSUME NEW q \in Posters, Play(q)
      PROVE  \E t \in Tasks : task'[t].poster = p /\ task'[t].state \in Active
  <2>1. CASE player' = [player EXCEPT ![q] = "playing"] /\ task' = task
    <3>1. p # q /\ player'[p] = player[p]
      BY <1>2, <1>6, <2>1
    <3>2. QED BY <1>4, <1>6, <2>1, <3>1
  <2>2. ASSUME NEW t \in Tasks, task[t].state = "idle",
               task' = [task EXCEPT ![t].state = "asked", ![t].poster = q],
               player' = [player EXCEPT ![q] = "fetching"]
        PROVE  \E u \in Tasks : task'[u].poster = p /\ task'[u].state \in Active
    <3>1. CASE p = q
      <4>1. task'[t].poster = p /\ task'[t].state \in Active
        BY <1>2, <2>2, <3>1
      <4>2. QED BY <4>1
    <3>2. CASE p # q
      <4>1. PICK u \in Tasks : task[u].poster = p /\ task[u].state \in Active
        BY <1>2, <1>4, <1>6, <2>2, <3>2
      <4>2. u # t /\ task'[u] = task[u]
        BY <1>2, <2>2, <4>1
      <4>3. QED BY <4>1, <4>2
    <3>3. QED BY <3>1, <3>2
  <2>3. QED BY <1>9, <2>1, <2>2 DEF Play
<1>10. ASSUME NEW q \in Posters, PosterRedrawn(q)
       PROVE  \E t \in Tasks : task'[t].poster = p /\ task'[t].state \in Active
  <2>1. /\ player' = [player EXCEPT ![q] = "poster"]
        /\ task' = [t \in Tasks |-> IF task[t].poster = q THEN [task[t] EXCEPT !.poster = "none"] ELSE task[t]]
    BY <1>10 DEF PosterRedrawn
  <2>2. p # q /\ player[p] = "fetching"
    BY <1>2, <1>6, <2>1
  <2>3. PICK t \in Tasks : task[t].poster = p /\ task[t].state \in Active
    BY <1>4, <2>2
  <2>4. task'[t] = task[t]
    BY <2>1, <2>2, <2>3
  <2>5. QED BY <2>3, <2>4
<1>11. ASSUME NEW t \in Tasks, OpenPart(t) \/ WriteChunk(t) \/ Breaks(t) \/ TooLarge(t) \/ Rename(t)
       PROVE  \E u \in Tasks : task'[u].poster = p /\ task'[u].state \in Active
  <2>1. /\ player' = player
        /\ \/ \E f : task' = [task EXCEPT ![t].state = "writing", ![t].file = f]
           \/ task[t].state = "writing" /\ task' = [task EXCEPT ![t].next = @ + 1]
           \/ \E s \in {"failed", "done"} : task' = [task EXCEPT ![t].state = s]
    BY <1>11 DEF OpenPart, WriteChunk, Breaks, TooLarge, Rename, Ended
  <2>2. \A u \in Tasks : u # t => task'[u] = task[u]
    BY <1>2, <2>1
  <2>3. task'[t].poster = task[t].poster /\ task'[t].state \in Active
    BY <1>2, <2>1
  <2>4. QED BY <1>7, <2>1, <2>2, <2>3
<1>12. ASSUME NEW t \in Tasks, Succeeded(t) \/ Failed(t)
       PROVE  \E u \in Tasks : task'[u].poster = p /\ task'[u].state \in Active
  <2>1. /\ task' = [task EXCEPT ![t] = Over]
        /\ \E s \in {"playing", "retry"} :
             player' = [r \in Posters |-> IF r = task[t].poster THEN s ELSE player[r]]
    BY <1>12 DEF Succeeded, Failed
  <2>2. p # task[t].poster /\ player'[p] = player[p]
    BY <1>6, <2>1
  <2>3. \A u \in Tasks : u # t => task'[u] = task[u]
    BY <1>2, <2>1
  <2>4. QED BY <1>7, <2>2, <2>3
<1>13. CASE DownloadsRestart
  BY <1>6, <1>13 DEF DownloadsRestart
<1>14. QED BY <1>8, <1>9, <1>10, <1>11, <1>12, <1>13 DEF DownloadsNext

\* Files, tasks and posters stay as DownloadInv says.
LEMMA FilesAreKept == Spec => []DownloadInv
<1>1. Init => DownloadInv
  <2>1. ASSUME DownloadsInit PROVE DownloadInv
    <3>1. /\ player = [p \in Posters |-> "poster"] /\ task = [t \in Tasks |-> Idle]
          /\ target = 0 /\ part = 0 /\ content = [t \in Tasks |-> {}] /\ shared = {} /\ faults = 0
      BY <2>1 DEF DownloadsInit
    <3>2. MaxTasks \in Nat \ {0} /\ Chunks \in Nat \ {0} /\ MaxFaults \in Nat /\ Tasks = 1..MaxTasks
      BY DownloadsAssumption DEF Tasks
    <3>3. DownloadsTypeOK
      <4>1. Idle \in [state : {"idle", "asked", "writing", "done", "failed", "over"},
                      poster : Posters \cup {"none"}, file : 0..MaxTasks, next : 1..(Chunks + 1)]
        BY <3>2 DEF Idle
      <4>2. QED BY <3>1, <3>2, <4>1 DEF DownloadsTypeOK
    <3>4. CachedIsWhole
      BY <3>1 DEF CachedIsWhole
    <3>5. \A t \in Tasks : task[t] = Idle /\ task[t].state = "idle" /\ t # 0
      BY <3>1, <3>2 DEF Idle
    <3>6. QED BY <3>1, <3>3, <3>4, <3>5 DEF DownloadInv
  <2>2. QED BY <2>1 DEF Init
<1>2. DownloadInv /\ [Next]_mediaVars => DownloadInv'
  <2>1. SUFFICES ASSUME DownloadInv, [Next]_mediaVars PROVE DownloadInv'
    OBVIOUS
  <2>2. DownloadsNext \/ DownloadsRestart \/ UNCHANGED downloadVars
    BY <2>1, PartsStep DEF mediaVars
  <2>3. faults' \in 0..MaxFaults
    <3>1. faults \in 0..MaxFaults /\ MaxFaults \in Nat
      BY <2>1, DownloadsAssumption DEF DownloadInv, DownloadsTypeOK
    <3>2. faults' = faults \/ (faults < MaxFaults /\ faults' = faults + 1)
      BY <2>1, PartsStep DEF mediaVars, downloadVars, Fault
    <3>3. QED BY <3>1, <3>2
  <2>4. CASE UNCHANGED downloadVars
    BY <2>1, <2>4 DEF downloadVars, disk, DownloadInv, DownloadsTypeOK, CachedIsWhole
  <2>5. QED BY <2>1, <2>2, <2>3, <2>4, DownloadStep
<1>3. QED BY <1>1, <1>2, PTL DEF Spec

\* What the cache holds to be played is the whole file (app.rs fetch_media,
\* prune_media_cache), whatever broke off, was pruned or restarted in between,
\* unless another download emptied or renamed it while it was being written.
THEOREM CacheHoldsWholeFiles == Spec => []CachedIsWhole
<1>1. DownloadInv => CachedIsWhole
  BY DEF DownloadInv
<1>2. QED BY <1>1, FilesAreKept, PTL

--------------------------------------------------------------------------------
(* Uploads *)

Kinds == {"fetch", "select", "delete", "update", "create"}
Edits == {"delete", "update", "create"}
Homes == Uploaders \cup {"default"}
Answers == [listed : SUBSET Uploaders, radio : Homes]
CallRecords == [state : {"idle", "sent", "done", "refused", "over"}, kind : Kinds, about : Homes,
                from : {0} \cup Lists \cup Answers]
DialogRecords == [state : {"idle", "open", "closed"}, listed : SUBSET Uploaders, radio : Homes]

\* A fetch is answered with a list and a choice, a change is for a window, and what
\* is made has a name.
Answerable(r) ==
  /\ r.kind = "create" => r.about \in Uploaders
  /\ r.kind = "fetch" /\ r.state = "done" => r.from \in Answers
  /\ r.kind \in Edits /\ r.state \in {"sent", "done"} => r.from \in Lists

UploadTypes ==
  /\ UploadsTypeOK
  /\ call \in [Calls -> CallRecords] /\ dialog \in [Lists -> DialogRecords]
  /\ \A c \in Calls : Answerable(call[c])
  /\ \A l \in Lists : editor[l] # {} => dialog[l].state = "open"

\* A call that is made takes the next free place.
LEMMA CalledIs ==
  ASSUME UploadTypes, NEW kind \in Kinds, NEW about \in Homes, NEW from \in {0} \cup Lists,
         kind \in Edits => from \in Lists, kind = "create" => about \in Uploaders, Called(kind, about, from)
  PROVE  \E c \in Calls :
           /\ call[c].state = "idle" /\ call'[c].state = "sent" /\ call'[c].kind = kind
           /\ call'[c].about = about /\ call'[c].from = from
           /\ \A d \in Calls : d # c => call'[d] = call[d]
           /\ call' \in [Calls -> CallRecords]
           /\ \A d \in Calls : Answerable(call'[d])
<1>1. PICK c \in NextOf(call, Calls) :
        call' = [call EXCEPT ![c] = [state |-> "sent", kind |-> kind, about |-> about, from |-> from]]
  BY DEF Called
<1>2. c \in Calls /\ call[c].state = "idle" /\ call \in [Calls -> CallRecords]
  BY DEF NextOf, UploadTypes
<1>3. [state |-> "sent", kind |-> kind, about |-> about, from |-> from] \in CallRecords
  BY DEF CallRecords
<1>4. call'[c] = [state |-> "sent", kind |-> kind, about |-> about, from |-> from]
  BY <1>1, <1>2
<1>5. \A d \in Calls : d # c => call'[d] = call[d]
  BY <1>1, <1>2
<1>6. Answerable(call'[c])
  BY <1>4 DEF Answerable
<1>7. call' \in [Calls -> CallRecords]
  BY <1>1, <1>2, <1>3
<1>8. \A d \in Calls : Answerable(call'[d])
  BY <1>5, <1>6 DEF UploadTypes
<1>9. QED BY <1>2, <1>4, <1>5, <1>7, <1>8

\* A call that is over, lost, or answered for another reason than a fetch
LEMMA CallMoves ==
  ASSUME UploadTypes, NEW c \in Calls,
         \/ call' = [call EXCEPT ![c] = Answered]
         \/ call' = [call EXCEPT ![c].state = "refused"]
  PROVE  /\ call' \in [Calls -> CallRecords] /\ \A d \in Calls : Answerable(call'[d])
         /\ \A d \in Calls : d # c => call'[d] = call[d]
         /\ call'[c].state \in {"over", "refused"}
<1>1. Answered \in CallRecords /\ Answered.state = "over" /\ Answered.kind = "fetch"
  BY DEF Answered, Unmade, CallRecords, Kinds, Homes
<1>2. call \in [Calls -> CallRecords]
  BY DEF UploadTypes
<1>3. \A d \in Calls : d # c => call'[d] = call[d]
  BY <1>2
<1>4. /\ call' \in [Calls -> CallRecords] /\ call'[c].state \in {"over", "refused"}
      /\ call'[c].kind = "create" => call[c].kind = "create" /\ call'[c].about = call[c].about
  BY <1>1, <1>2 DEF CallRecords
<1>5. Answerable(call'[c])
  BY <1>4 DEF Answerable, UploadTypes
<1>6. QED BY <1>3, <1>4, <1>5 DEF UploadTypes

\* What the server does with a call
LEMMA ServeIs ==
  ASSUME UploadTypes, NEW c \in Calls, ServeUploader(c)
  PROVE  /\ call' \in [Calls -> CallRecords] /\ \A d \in Calls : Answerable(call'[d])
         /\ \A d \in Calls : d # c => call'[d] = call[d]
         /\ call[c].state = "sent" /\ call'[c].kind = call[c].kind /\ call'[c].about = call[c].about
         /\ call'[c].state = IF call[c].kind \in {"select", "update", "delete"}
                                /\ call[c].about \notin personal \cup {"default"} THEN "refused" ELSE "done"
         /\ call'[c].from = IF call[c].kind = "fetch" THEN [listed |-> personal, radio |-> chosen] ELSE call[c].from
         /\ personal' \subseteq Uploaders /\ chosen' \in personal' \cup {"default"}
<1>1. call \in [Calls -> CallRecords]
  BY DEF UploadTypes
<1> DEFINE s == IF call[c].kind \in {"select", "update", "delete"}
                   /\ call[c].about \notin personal \cup {"default"} THEN "refused" ELSE "done"
           f == IF call[c].kind = "fetch" THEN [listed |-> personal, radio |-> chosen] ELSE call[c].from
<1>2. call' = [call EXCEPT ![c].state = s, ![c].from = f]
  BY <1>1 DEF ServeUploader
<1>3. s \in {"refused", "done"}
  OBVIOUS
<1>4. personal \subseteq Uploaders /\ chosen \in personal \cup {"default"}
  BY DEF UploadTypes, UploadsTypeOK
<1>5. [listed |-> personal, radio |-> chosen] \in Answers
  BY <1>4 DEF Answers, Homes
<1>6. f \in {0} \cup Lists \cup Answers
  BY <1>1, <1>5 DEF CallRecords
<1> HIDE DEF s, f
<1>7. \A d \in Calls : d # c => call'[d] = call[d]
  BY <1>1, <1>2
<1>8. call'[c].state = s /\ call'[c].from = f /\ call'[c].kind = call[c].kind /\ call'[c].about = call[c].about
  BY <1>1, <1>2 DEF CallRecords
<1>9. call' \in [Calls -> CallRecords]
  <2>1. call'[c] \in CallRecords
    BY <1>1, <1>2, <1>3, <1>6 DEF CallRecords
  <2>2. QED BY <1>1, <1>2, <1>7, <2>1
<1>10. Answerable(call'[c])
  <2>1. Answerable(call[c]) /\ call[c].state = "sent"
    BY DEF UploadTypes, ServeUploader
  <2>2. CASE call[c].kind = "fetch"
    BY <1>5, <1>8, <2>2 DEF Answerable, f, Edits
  <2>3. CASE call[c].kind # "fetch"
    BY <1>8, <2>1, <2>3 DEF Answerable, f, Edits
  <2>4. QED BY <2>2, <2>3
<1>11. personal' \subseteq Uploaders /\ chosen' \in personal' \cup {"default"}
  <2>1. call[c].about \in Homes /\ call[c].kind \in Kinds
    BY <1>1 DEF CallRecords
  <2>2. call[c].kind = "create" => call[c].about \in Uploaders
    BY DEF UploadTypes, Answerable
  <2>3. \/ chosen' \in personal \cup {"default"} /\ personal' = personal
        \/ personal' = personal \ {call[c].about} /\ chosen' = (IF chosen = call[c].about THEN "default" ELSE chosen)
        \/ call[c].kind = "create" /\ personal' = personal \cup {call[c].about} /\ chosen' = chosen
    <3>1. CASE call[c].kind = "select"
      BY <1>4, <3>1 DEF ServeUploader
    <3>2. CASE call[c].kind = "delete"
      BY <1>4, <3>2 DEF ServeUploader
    <3>3. CASE call[c].kind = "create"
      BY <1>4, <3>3 DEF ServeUploader
    <3>4. CASE call[c].kind \notin {"select", "delete", "create"}
      BY <1>4, <3>4 DEF ServeUploader
    <3>5. QED BY <3>1, <3>2, <3>3, <3>4
  <2>4. QED BY <1>4, <2>1, <2>2, <2>3
<1>12. QED BY <1>7, <1>8, <1>9, <1>10, <1>11 DEF s, f, UploadTypes, ServeUploader

--------------------------------------------------------------------------------
\* Every step keeps the types of what is sent, asked and shown.
LEMMA UploadsStep ==
  ASSUME UploadTypes, UploadsNext \/ UploadsRestart, outside' \in 0..MaxElsewhere PROVE UploadTypes'
<1>1. /\ job \in [Jobs -> [state : {"idle", "sent", "over"}]]
      /\ attach \in {"ready", "busy"} /\ composer \in Drafts /\ links \in [Drafts -> SUBSET Jobs]
      /\ personal \subseteq Uploaders /\ chosen \in personal \cup {"default"}
      /\ editor \in [Lists -> SUBSET Uploaders] /\ muddled \in BOOLEAN
      /\ call \in [Calls -> CallRecords] /\ dialog \in [Lists -> DialogRecords]
      /\ \A c \in Calls : Answerable(call[c])
      /\ \A l \in Lists : editor[l] # {} => dialog[l].state = "open"
  BY DEF UploadTypes, UploadsTypeOK
<1>2. ASSUME job' \in [Jobs -> [state : {"idle", "sent", "over"}]],
             attach' \in {"ready", "busy"}, composer' \in Drafts, links' \in [Drafts -> SUBSET Jobs],
             personal' \subseteq Uploaders, chosen' \in personal' \cup {"default"},
             editor' \in [Lists -> SUBSET Uploaders], muddled' \in BOOLEAN,
             call' \in [Calls -> CallRecords], dialog' \in [Lists -> DialogRecords],
             \A c \in Calls : Answerable(call'[c]),
             \A l \in Lists : editor'[l] # {} => dialog'[l].state = "open"
      PROVE  UploadTypes'
  <2>1. \A c \in Calls : call'[c].state \in {"idle", "sent", "done", "refused", "over"}
    BY <1>2 DEF CallRecords
  <2>2. \A l \in Lists : dialog'[l].state \in {"idle", "open", "closed"} /\ dialog'[l].listed \subseteq Uploaders
    BY <1>2 DEF DialogRecords
  <2>3. UploadsTypeOK'
    BY <1>2, <2>1, <2>2 DEF UploadsTypeOK, Jobs, Calls, Lists
  <2>4. QED BY <1>2, <2>3 DEF UploadTypes, Calls, Lists
\* what a step leaves alone is as it was
<1>3. ASSUME UNCHANGED composing, UNCHANGED <<personal, chosen>>,
             editor' \in [Lists -> SUBSET Uploaders], muddled' \in BOOLEAN,
             call' \in [Calls -> CallRecords], dialog' \in [Lists -> DialogRecords],
             \A c \in Calls : Answerable(call'[c]),
             \A l \in Lists : editor'[l] # {} => dialog'[l].state = "open"
      PROVE  UploadTypes'
  <2>1. /\ job' = job /\ attach' = attach /\ composer' = composer /\ links' = links
        /\ personal' = personal /\ chosen' = chosen
    BY <1>3 DEF composing
  <2>2. /\ job' \in [Jobs -> [state : {"idle", "sent", "over"}]]
        /\ attach' \in {"ready", "busy"} /\ composer' \in Drafts /\ links' \in [Drafts -> SUBSET Jobs]
        /\ personal' \subseteq Uploaders /\ chosen' \in personal' \cup {"default"}
    BY <1>1, <2>1
  <2>3. QED BY <1>2, <1>3, <2>2
<1>4. ASSUME UNCHANGED composing, UNCHANGED <<personal, chosen, dialog, editor>>, muddled' \in BOOLEAN,
             call' \in [Calls -> CallRecords], \A c \in Calls : Answerable(call'[c])
      PROVE  UploadTypes'
  <2>1. dialog' = dialog /\ editor' = editor
    BY <1>4
  <2>2. /\ editor' \in [Lists -> SUBSET Uploaders] /\ dialog' \in [Lists -> DialogRecords]
        /\ \A l \in Lists : editor'[l] # {} => dialog'[l].state = "open"
    BY <1>1, <2>1
  <2>3. QED BY <1>3, <1>4, <2>2
<1> DEFINE Muddle(t) == muddled' = (muddled \/ t)
<1>5. ASSUME ComposerNext PROVE UploadTypes'
  <2>1. UNCHANGED uploaders
    BY <1>5 DEF ComposerNext, Attach, UploadFails, UploadDone, Switch
  <2>2. /\ personal' = personal /\ chosen' = chosen /\ call' = call /\ dialog' = dialog
        /\ editor' = editor /\ muddled' = muddled
    BY <2>1 DEF uploaders
  <2> DEFINE Composed == /\ job' \in [Jobs -> [state : {"idle", "sent", "over"}]]
                         /\ attach' \in {"ready", "busy"} /\ composer' \in Drafts
                         /\ links' \in [Drafts -> SUBSET Jobs]
  <2>3. Composed
    <3>1. ASSUME NEW origin \in {"chooser", "drop", "paste"}, NEW size \in {"small", "shrinks", "large"},
                 Attach(origin, size)
          PROVE  Composed
      <4>1. PICK j \in NextOf(job, Jobs) : job' = [job EXCEPT ![j].state = "sent"]
        BY <3>1 DEF Attach
      <4>2. j \in Jobs
        BY <4>1 DEF NextOf
      <4>3. attach' = "busy" /\ composer' = composer /\ links' = links
        BY <3>1 DEF Attach
      <4>4. QED BY <1>1, <4>1, <4>2, <4>3
    <3>2. ASSUME NEW j \in Jobs, UploadFails(j) PROVE Composed
      BY <1>1, <3>2 DEF UploadFails
    <3>3. ASSUME NEW j \in Jobs, UploadDone(j) PROVE Composed
      BY <1>1, <3>3 DEF UploadDone
    <3>4. ASSUME NEW k \in Drafts, Switch(k) PROVE Composed
      BY <1>1, <3>4 DEF Switch
    <3>5. QED BY <1>5, <3>1, <3>2, <3>3, <3>4 DEF ComposerNext
  <2>4. /\ personal' \subseteq Uploaders /\ chosen' \in personal' \cup {"default"}
        /\ editor' \in [Lists -> SUBSET Uploaders] /\ muddled' \in BOOLEAN
        /\ call' \in [Calls -> CallRecords] /\ dialog' \in [Lists -> DialogRecords]
        /\ \A c \in Calls : Answerable(call'[c])
        /\ \A l \in Lists : editor'[l] # {} => dialog'[l].state = "open"
    BY <1>1, <2>2
  <2>5. QED BY <1>2, <2>3, <2>4
<1>6. ASSUME OpenUploads PROVE UploadTypes'
  <2>1. "fetch" \in Kinds /\ "default" \in Homes /\ 0 \in {0} \cup Lists /\ "fetch" \notin Edits /\ "fetch" # "create"
    BY DEF Kinds, Homes, Edits
  <2>2. Called("fetch", "default", 0)
    BY <1>6 DEF OpenUploads
  <2>3. call' \in [Calls -> CallRecords] /\ \A c \in Calls : Answerable(call'[c])
    BY <2>1, <2>2, CalledIs
  <2>4. UNCHANGED composing /\ UNCHANGED <<personal, chosen, dialog, editor>> /\ muddled' \in BOOLEAN
    BY <1>6 DEF OpenUploads, Called
  <2>5. QED BY <1>4, <2>3, <2>4
<1>7. ASSUME NEW l \in Lists, NEW u \in Homes, Choose(l, u) PROVE UploadTypes'
  <2>1. "select" \in Kinds /\ "select" \notin Edits /\ "select" # "create" /\ l \in {0} \cup Lists
    BY DEF Kinds, Edits
  <2>2. Called("select", u, l)
    BY <1>7 DEF Choose
  <2>3. call' \in [Calls -> CallRecords] /\ \A c \in Calls : Answerable(call'[c])
    BY <2>1, <2>2, CalledIs
  <2>4. UNCHANGED composing /\ UNCHANGED <<personal, chosen, editor>> /\ muddled' \in BOOLEAN
    BY <1>7 DEF Choose, Called
  <2>5. /\ dialog' = [dialog EXCEPT ![l].radio = u]
    BY <1>7 DEF Choose
  <2>6. dialog' \in [Lists -> DialogRecords] /\ \A m \in Lists : dialog'[m].state = dialog[m].state
    BY <1>1, <2>5 DEF DialogRecords
  <2>7. editor' = editor
    BY <2>4
  <2>8. editor' \in [Lists -> SUBSET Uploaders] /\ \A m \in Lists : editor'[m] # {} => dialog'[m].state = "open"
    BY <1>1, <2>6, <2>7
  <2>9. QED BY <1>3, <2>3, <2>4, <2>6, <2>8
<1>8. ASSUME NEW l \in Lists, NEW u \in Uploaders, Delete(l, u) PROVE UploadTypes'
  <2>1. "delete" \in Kinds /\ "delete" # "create" /\ u \in Homes /\ l \in {0} \cup Lists
    BY DEF Kinds, Homes
  <2>2. Called("delete", u, l)
    BY <1>8 DEF Delete
  <2>3. call' \in [Calls -> CallRecords] /\ \A c \in Calls : Answerable(call'[c])
    BY <2>1, <2>2, CalledIs
  <2>4. UNCHANGED composing /\ UNCHANGED <<personal, chosen, dialog, editor>> /\ muddled' \in BOOLEAN
    BY <1>8 DEF Delete, Called
  <2>5. QED BY <1>4, <2>3, <2>4
<1>9. ASSUME NEW l \in Lists, NEW u \in Uploaders, OpenEditor(l, u) PROVE UploadTypes'
  <2>1. /\ UNCHANGED composing /\ UNCHANGED <<personal, chosen>>
        /\ call' = call /\ dialog' = dialog /\ muddled' = muddled /\ editor' = [editor EXCEPT ![l] = @ \cup {u}]
        /\ dialog[l].state = "open"
    BY <1>9 DEF OpenEditor
  <2>2. /\ editor' \in [Lists -> SUBSET Uploaders] /\ muddled' \in BOOLEAN
        /\ call' \in [Calls -> CallRecords] /\ dialog' \in [Lists -> DialogRecords]
        /\ \A c \in Calls : Answerable(call'[c])
    BY <1>1, <2>1
  <2>3. \A m \in Lists : editor'[m] # {} => dialog'[m].state = "open"
    BY <1>1, <2>1
  <2>4. QED BY <1>3, <2>1, <2>2, <2>3
<1>10. ASSUME NEW l \in Lists, NEW u \in Uploaders, SaveEditor(l, u) PROVE UploadTypes'
  <2>2. PICK kind \in {"update", "create"} : Called(kind, u, l)
    BY <1>10 DEF SaveEditor
  <2>3. kind \in Kinds /\ u \in Homes /\ l \in {0} \cup Lists
    BY DEF Kinds, Homes
  <2>4. call' \in [Calls -> CallRecords] /\ \A c \in Calls : Answerable(call'[c])
    BY <2>2, <2>3, CalledIs
  <2>5. UNCHANGED composing /\ UNCHANGED <<personal, chosen, dialog, editor>> /\ muddled' \in BOOLEAN
    BY <1>10 DEF SaveEditor, Called
  <2>6. QED BY <1>4, <2>4, <2>5
<1>11. ASSUME NEW l \in Lists, CloseUploads(l) \/ \E u \in Uploaders : CloseEditor(l, u)
       PROVE  UploadTypes'
  <2>1. /\ UNCHANGED composing /\ UNCHANGED <<personal, chosen>>
        /\ call' = call /\ muddled' = muddled
        /\ \/ /\ dialog' = dialog
              /\ \E u \in Uploaders : editor' = [editor EXCEPT ![l] = @ \ {u}] /\ u \in editor[l]
           \/ /\ dialog' = [dialog EXCEPT ![l].state = "closed"]
              /\ editor' = [editor EXCEPT ![l] = {}]
    BY <1>11 DEF CloseEditor, CloseUploads
  <2>2. dialog' \in [Lists -> DialogRecords] /\ \A m \in Lists : m # l => dialog'[m] = dialog[m]
    <3>1. CASE dialog' = dialog
      BY <1>1, <3>1
    <3>2. CASE dialog' = [dialog EXCEPT ![l].state = "closed"]
      BY <1>1, <3>2 DEF DialogRecords
    <3>3. QED BY <2>1, <3>1, <3>2
  <2>3. /\ editor' \in [Lists -> SUBSET Uploaders] /\ muddled' \in BOOLEAN
        /\ call' \in [Calls -> CallRecords] /\ \A c \in Calls : Answerable(call'[c])
    BY <1>1, <2>1
  <2>4. \A m \in Lists : editor'[m] # {} => dialog'[m].state = "open"
    BY <1>1, <2>1, <2>2
  <2>5. QED BY <1>3, <2>1, <2>2, <2>3, <2>4
<1>12. ASSUME NEW c \in Calls, ServeUploader(c) PROVE UploadTypes'
  <2>1. /\ call' \in [Calls -> CallRecords] /\ \A d \in Calls : Answerable(call'[d])
        /\ personal' \subseteq Uploaders /\ chosen' \in personal' \cup {"default"}
    BY Zenon, <1>12, ServeIs
  <2>2. /\ job' = job /\ attach' = attach /\ composer' = composer /\ links' = links
        /\ dialog' = dialog /\ editor' = editor /\ muddled' = muddled
    BY <1>12 DEF ServeUploader, composing
  <2>3. /\ job' \in [Jobs -> [state : {"idle", "sent", "over"}]]
        /\ attach' \in {"ready", "busy"} /\ composer' \in Drafts /\ links' \in [Drafts -> SUBSET Jobs]
        /\ editor' \in [Lists -> SUBSET Uploaders] /\ muddled' \in BOOLEAN
        /\ dialog' \in [Lists -> DialogRecords]
        /\ \A l \in Lists : editor'[l] # {} => dialog'[l].state = "open"
    BY <1>1, <2>2
  <2>4. QED BY <1>2, <2>1, <2>3
<1>13. ASSUME NEW c \in Calls, LoseUploaderCall(c) \/ Selected(c) \/ Refused(c) PROVE UploadTypes'
  <2>1. /\ call' = [call EXCEPT ![c].state = "refused"] \/ call' = [call EXCEPT ![c] = Answered]
        /\ UNCHANGED composing /\ UNCHANGED <<personal, chosen, dialog, editor>>
        /\ muddled' = muddled \/ muddled' = TRUE
    BY <1>13 DEF LoseUploaderCall, Selected, Refused
  <2>2. call' \in [Calls -> CallRecords] /\ \A d \in Calls : Answerable(call'[d])
    BY <2>1, CallMoves
  <2>3. muddled' \in BOOLEAN
    BY <1>1, <2>1
  <2>4. QED BY <1>4, <2>1, <2>2, <2>3
<1>14. ASSUME NEW u \in Homes, ChosenElsewhere(u) PROVE UploadTypes'
  <2>1. /\ job' = job /\ attach' = attach /\ composer' = composer /\ links' = links
        /\ dialog' = dialog /\ editor' = editor /\ call' = call /\ muddled' = TRUE
        /\ personal' = personal /\ chosen' = u /\ u \in personal \cup {"default"}
    BY <1>14 DEF ChosenElsewhere, composing
  <2>2. /\ job' \in [Jobs -> [state : {"idle", "sent", "over"}]]
        /\ attach' \in {"ready", "busy"} /\ composer' \in Drafts /\ links' \in [Drafts -> SUBSET Jobs]
        /\ personal' \subseteq Uploaders /\ chosen' \in personal' \cup {"default"}
        /\ editor' \in [Lists -> SUBSET Uploaders] /\ muddled' \in BOOLEAN
        /\ call' \in [Calls -> CallRecords] /\ dialog' \in [Lists -> DialogRecords]
        /\ \A c \in Calls : Answerable(call'[c])
        /\ \A l \in Lists : editor'[l] # {} => dialog'[l].state = "open"
    BY <1>1, <2>1
  <2>3. QED BY <1>2, <2>2
<1>15. ASSUME NEW c \in Calls, Built(c) PROVE UploadTypes'
  <2>1. PICK l \in NextOf(dialog, Lists) :
          dialog' = [dialog EXCEPT ![l] = [state |-> "open", listed |-> call[c].from.listed,
                                           radio |-> call[c].from.radio]]
    BY <1>15 DEF Built
  <2>2. l \in Lists /\ dialog[l].state = "idle"
    BY <2>1 DEF NextOf
  <2>3. call[c].from \in Answers
    BY <1>1, <1>15 DEF Built, Answerable
  <2>4. [state |-> "open", listed |-> call[c].from.listed, radio |-> call[c].from.radio] \in DialogRecords
    BY <2>3 DEF Answers, DialogRecords
  <2>5. /\ dialog' \in [Lists -> DialogRecords] /\ dialog'[l].state = "open"
        /\ \A m \in Lists : m # l => dialog'[m] = dialog[m]
    BY <1>1, <2>1, <2>2, <2>4
  <2>6. call' \in [Calls -> CallRecords] /\ \A d \in Calls : Answerable(call'[d])
    BY <1>15, CallMoves DEF Built
  <2>7. UNCHANGED composing /\ UNCHANGED <<personal, chosen>> /\ muddled' \in BOOLEAN /\ editor' = editor
    BY <1>15 DEF Built
  <2>8. /\ editor' \in [Lists -> SUBSET Uploaders]
        /\ \A m \in Lists : editor'[m] # {} => dialog'[m].state = "open"
    BY <1>1, <2>2, <2>5, <2>7
  <2>9. QED BY <1>3, <2>5, <2>6, <2>7, <2>8
<1>16. ASSUME NEW c \in Calls, Changed(c) PROVE UploadTypes'
  <2>1. /\ call[c].from \in Lists
        /\ dialog' = [dialog EXCEPT ![call[c].from].state = "closed"]
        /\ editor' = [editor EXCEPT ![call[c].from] = {}]
        /\ UNCHANGED composing /\ UNCHANGED <<personal, chosen>> /\ muddled' \in BOOLEAN
    BY <1>1, <1>16 DEF Changed, Answerable, Edits
  <2>2. /\ dialog' \in [Lists -> DialogRecords] /\ \A m \in Lists : m # call[c].from => dialog'[m] = dialog[m]
    BY <1>1, <2>1 DEF DialogRecords
  <2>3. /\ editor' \in [Lists -> SUBSET Uploaders]
        /\ \A m \in Lists : editor'[m] # {} => dialog'[m].state = "open"
    BY <1>1, <2>1, <2>2
  <2>4. PICK d \in NextOf(call, Calls) :
          call' = [call EXCEPT ![c] = Answered, ![d] = [Unmade EXCEPT !.state = "sent"]]
    BY <1>16 DEF Changed
  <2>5. d \in Calls
    BY <2>4 DEF NextOf
  <2>6. Answered \in CallRecords /\ [Unmade EXCEPT !.state = "sent"] \in CallRecords
    BY DEF Answered, Unmade, CallRecords, Kinds, Homes
  <2>7. Answerable(Answered) /\ Answerable([Unmade EXCEPT !.state = "sent"])
    BY DEF Answered, Unmade, Answerable, Edits
  <2>8. call' \in [Calls -> CallRecords]
    BY <1>1, <2>4, <2>5, <2>6
  <2>9. \A b \in Calls : call'[b] \in {call[b], Answered, [Unmade EXCEPT !.state = "sent"]}
    BY <1>1, <2>4, <2>5
  <2>10. \A b \in Calls : Answerable(call'[b])
    BY Zenon, <1>1, <2>7, <2>9
  <2>11. QED BY <1>3, <2>1, <2>2, <2>3, <2>8, <2>10
<1>17. ASSUME UploadsRestart PROVE UploadTypes'
  <2>1. /\ attach' = "ready" /\ composer' = composer /\ links' = [k \in Drafts |-> {}]
        /\ job' = [j \in Jobs |-> IF job[j].state = "sent" THEN [state |-> "over"] ELSE job[j]]
        /\ personal' = personal /\ chosen' = chosen /\ muddled' = muddled /\ editor' = [l \in Lists |-> {}]
        /\ dialog' = [l \in Lists |-> IF dialog[l].state = "open" THEN [dialog[l] EXCEPT !.state = "closed"]
                                      ELSE dialog[l]]
        /\ call' = [c \in Calls |-> IF c \in Pending THEN Answered ELSE call[c]]
    BY <1>17 DEF UploadsRestart
  <2>2. job' \in [Jobs -> [state : {"idle", "sent", "over"}]]
    BY <1>1, <2>1
  <2>3. links' \in [Drafts -> SUBSET Jobs] /\ editor' \in [Lists -> SUBSET Uploaders]
    BY <2>1
  <2>4. dialog' \in [Lists -> DialogRecords]
    BY ZenonT(40), <1>1, <2>1 DEF DialogRecords
  <2>5. Answered \in CallRecords /\ Answerable(Answered)
    BY DEF Answered, Unmade, CallRecords, Kinds, Homes, Answerable, Edits
  <2>6. call' \in [Calls -> CallRecords] /\ \A c \in Calls : Answerable(call'[c])
    BY <1>1, <2>1, <2>5
  <2>7. \A l \in Lists : editor'[l] = {}
    BY <2>1
  <2>8. QED BY <1>1, <1>2, <2>1, <2>2, <2>3, <2>4, <2>6, <2>7
<1>18. ASSUME UploadersNext PROVE UploadTypes'
  BY <1>6, <1>7, <1>8, <1>9, <1>10, <1>11, <1>12, <1>13, <1>14, <1>15, <1>16, <1>18
     DEF UploadersNext, Homes
<1>19. QED BY <1>5, <1>17, <1>18 DEF UploadsNext

--------------------------------------------------------------------------------
\* What is sent, asked and shown has its types in every reachable state.
LEMMA UploadTypesHold == Spec => []UploadTypes
<1>1. Init => UploadTypes
  <2>1. SUFFICES ASSUME UploadsInit PROVE UploadTypes
    BY DEF Init
  <2>2. /\ job = [j \in Jobs |-> [state |-> "idle"]] /\ attach = "ready"
        /\ composer \in Drafts /\ links = [k \in Drafts |-> {}]
        /\ personal \subseteq Uploaders /\ chosen \in personal \cup {"default"}
        /\ call = [c \in Calls |-> Unmade]
        /\ dialog = [l \in Lists |-> [state |-> "idle", listed |-> {}, radio |-> "default"]]
        /\ editor = [l \in Lists |-> {}] /\ muddled = FALSE /\ outside = 0
    BY <2>1 DEF UploadsInit
  <2>3. Unmade \in CallRecords /\ Answerable(Unmade) /\ Unmade.state = "idle"
    BY DEF Unmade, CallRecords, Kinds, Homes, Answerable, Edits
  <2>4. [state |-> "idle", listed |-> {}, radio |-> "default"] \in DialogRecords
    BY DEF DialogRecords, Homes
  <2>5. MaxElsewhere \in Nat
    BY UploadsAssumption
  <2>6. /\ \A c \in Calls : call[c].state = "idle"
        /\ \A l \in Lists : dialog[l].state = "idle" /\ dialog[l].listed = {} /\ editor[l] = {}
    BY <2>2, <2>3
  <2>7. UploadsTypeOK
    <3>1. job \in [Jobs -> [state : {"idle", "sent", "over"}]] /\ links \in [Drafts -> SUBSET Jobs]
      BY <2>2
    <3>2. editor \in [Lists -> SUBSET Uploaders] /\ outside \in 0..MaxElsewhere
      BY <2>2, <2>5
    <3>3. QED BY <2>2, <2>6, <3>1, <3>2 DEF UploadsTypeOK
  <2>8. /\ call \in [Calls -> CallRecords] /\ dialog \in [Lists -> DialogRecords]
        /\ \A c \in Calls : Answerable(call[c])
    BY <2>2, <2>3, <2>4
  <2>9. QED BY <2>6, <2>7, <2>8 DEF UploadTypes
<1>2. UploadTypes /\ [Next]_mediaVars => UploadTypes'
  <2>1. SUFFICES ASSUME UploadTypes, [Next]_mediaVars PROVE UploadTypes'
    OBVIOUS
  <2>2. UploadsNext \/ UploadsRestart \/ UNCHANGED uploadVars
    BY <2>1, PartsStep DEF mediaVars
  <2>3. outside' \in 0..MaxElsewhere
    <3>1. outside \in 0..MaxElsewhere /\ MaxElsewhere \in Nat
      BY <2>1, UploadsAssumption DEF UploadTypes, UploadsTypeOK
    <3>2. outside' = outside \/ (outside < MaxElsewhere /\ outside' = outside + 1)
      BY <2>1, PartsStep DEF mediaVars, uploadVars, Outside
    <3>3. QED BY <3>1, <3>2
  <2>4. CASE UNCHANGED uploadVars
    BY <2>1, <2>4 DEF uploadVars, composing, uploaders, UploadTypes, UploadsTypeOK
  <2>5. QED BY <2>1, <2>2, <2>3, <2>4, UploadsStep
<1>3. QED BY <1>1, <1>2, PTL DEF Spec

\* The attach button is busy from the start of an upload until one ends.
LEMMA BusyStep ==
  ASSUME BusyHasUpload, UploadsNext \/ UploadsRestart, UploadsTypeOK' PROVE BusyHasUpload'
<1>1. /\ job \in [Jobs -> [state : {"idle", "sent", "over"}]]
      /\ attach = "busy" => \E j \in Jobs : job[j].state = "sent"
  BY DEF BusyHasUpload, UploadsTypeOK
<1>2. SUFFICES ASSUME attach' = "busy" PROVE \E j \in Jobs : job'[j].state = "sent"
  BY DEF BusyHasUpload, Jobs
<1>3. ASSUME ComposerNext PROVE \E j \in Jobs : job'[j].state = "sent"
  <2>1. ASSUME NEW j \in NextOf(job, Jobs), job' = [job EXCEPT ![j].state = "sent"]
        PROVE  \E i \in Jobs : job'[i].state = "sent"
    BY <1>1, <2>1 DEF NextOf
  <2>2. \/ \E j \in NextOf(job, Jobs) : job' = [job EXCEPT ![j].state = "sent"]
        \/ job' = job /\ attach' = attach
    BY <1>2, <1>3 DEF ComposerNext, Attach, UploadFails, UploadDone, Switch
  <2>3. QED BY <1>1, <1>2, <2>1, <2>2
<1>4. ASSUME UploadersNext PROVE job' = job /\ attach' = attach
  BY <1>4 DEF UploadersNext, OpenUploads, SaveEditor, CloseEditor, CloseUploads, Choose, Delete, OpenEditor,
              ServeUploader, LoseUploaderCall, Built, Selected, Changed, Refused, ChosenElsewhere, composing
<1>5. ~UploadsRestart
  BY <1>2 DEF UploadsRestart
<1>6. QED BY <1>1, <1>2, <1>3, <1>4, <1>5 DEF UploadsNext

\* A poster that says "fetching" has a download that will report to it, and a busy
\* attach button an upload that will make it ready (app.rs fetch_media, window.rs
\* deferred_player, upload_and_insert): neither is ever stranded.
THEOREM WaitersAreTold == Spec => []WaitsHaveTasks
<1>1. Init /\ DownloadInv /\ UploadTypes => WaitsHaveTasks
  <2>1. SUFFICES ASSUME Init, DownloadsTypeOK, UploadsTypeOK PROVE FetchingHasTask /\ BusyHasUpload
    BY DEF WaitsHaveTasks, DownloadInv, UploadTypes
  <2>2. \A p \in Posters : player[p] # "fetching"
    BY <2>1 DEF Init, DownloadsInit
  <2>3. attach # "busy"
    BY <2>1 DEF Init, UploadsInit
  <2>4. QED BY <2>1, <2>2, <2>3 DEF FetchingHasTask, BusyHasUpload
<1>2. WaitsHaveTasks /\ DownloadInv' /\ UploadTypes' /\ [Next]_mediaVars => WaitsHaveTasks'
  <2>1. SUFFICES ASSUME WaitsHaveTasks, DownloadInv', UploadTypes', [Next]_mediaVars PROVE WaitsHaveTasks'
    OBVIOUS
  <2>2. /\ DownloadsNext \/ DownloadsRestart \/ UNCHANGED downloadVars
        /\ UploadsNext \/ UploadsRestart \/ UNCHANGED uploadVars
    BY <2>1, PartsStep DEF mediaVars
  <2>3. DownloadsTypeOK' /\ UploadsTypeOK' /\ FetchingHasTask /\ BusyHasUpload
    BY <2>1 DEF DownloadInv, UploadTypes, WaitsHaveTasks
  <2>4. FetchingHasTask'
    <3>1. CASE UNCHANGED downloadVars
      BY <2>3, <3>1 DEF downloadVars, disk, FetchingHasTask, Tasks
    <3>2. QED BY <2>2, <2>3, <3>1, ButtonStep
  <2>5. BusyHasUpload'
    <3>1. CASE UNCHANGED uploadVars
      BY <2>3, <3>1 DEF uploadVars, composing, BusyHasUpload, Jobs
    <3>2. QED BY <2>2, <2>3, <3>1, BusyStep
  <2>6. QED BY <2>4, <2>5 DEF WaitsHaveTasks
<1>3. QED BY <1>1, <1>2, FilesAreKept, UploadTypesHold, PTL DEF Spec

--------------------------------------------------------------------------------
\* Windows that are open, and what all of them say
OpenLists == {l \in Lists : dialog[l].state = "open"}
Says(u) == \A l \in OpenLists : dialog[l].radio = u

\* The only call under way, and what it stands for: what a window says or will say
\* and where uploads go agree, but for the change that the call makes.
Awaited(c) ==
  /\ Pending = {c}
  /\ call[c].kind = "fetch" /\ call[c].state # "refused" => Says(chosen)
  /\ call[c].kind = "fetch" /\ call[c].state = "done" => call[c].from.radio = chosen
  /\ call[c].kind = "select" /\ call[c].state = "sent" => Says(call[c].about)
  /\ call[c].kind = "select" /\ call[c].state = "done" => Says(chosen)
  /\ call[c].kind \in Edits /\ call[c].state # "refused" => OpenLists \subseteq {call[c].from}

ChoiceInv ==
  ~muddled =>
    /\ \A l, m \in OpenLists : l = m
    /\ (Pending = {} /\ Says(chosen)) \/ \E c \in Calls : Awaited(c)

\* Nothing that the choice depends on moves.
LEMMA ChoiceStays ==
  ASSUME ChoiceInv, call' = call, chosen' = chosen, muddled' = muddled,
         dialog' = dialog \/ \E l \in Lists : UploadTypes /\ dialog' = [dialog EXCEPT ![l].state = "closed"]
  PROVE  ChoiceInv'
<1>1. Pending' = Pending
  BY DEF Pending, Calls
<1> DEFINE Fewer == OpenLists' \subseteq OpenLists /\ \A l \in OpenLists' : dialog'[l].radio = dialog[l].radio
<1>2. Fewer
  <2>1. CASE dialog' = dialog
    BY <2>1 DEF OpenLists, Lists
  <2>2. ASSUME NEW l \in Lists, UploadTypes, dialog' = [dialog EXCEPT ![l].state = "closed"] PROVE Fewer
    BY <2>2 DEF OpenLists, Lists, UploadTypes, DialogRecords
  <2>3. QED BY <2>1, <2>2
<1>3. \A u : Says(u) => Says(u)'
  BY <1>2 DEF Says
<1>4. \A c \in Calls : Awaited(c) => Awaited(c)'
  BY <1>1, <1>2, <1>3 DEF Awaited
<1>5. QED BY <1>1, <1>2, <1>3, <1>4 DEF ChoiceInv, Calls

--------------------------------------------------------------------------------
\* Once all calls are answered, the radio that is on is where an upload goes.
LEMMA ChoiceStep ==
  ASSUME UploadTypes, UploadTypes', ChoiceInv, UploadsNext \/ UploadsRestart PROVE ChoiceInv'
<1>1. /\ call \in [Calls -> CallRecords] /\ dialog \in [Lists -> DialogRecords] /\ muddled \in BOOLEAN
      /\ \A c \in Calls : Answerable(call[c])
  BY DEF UploadTypes, UploadsTypeOK
<1>2. ASSUME ~muddled
      PROVE  /\ \A l, m \in OpenLists : l = m
             /\ (Pending = {} /\ Says(chosen)) \/ \E c \in Calls : Awaited(c)
  BY <1>2 DEF ChoiceInv
<1>3. ASSUME ComposerNext PROVE ChoiceInv'
  <2>1. call' = call /\ chosen' = chosen /\ muddled' = muddled /\ dialog' = dialog
    BY <1>3 DEF ComposerNext, Attach, UploadFails, UploadDone, Switch, uploaders
  <2>2. QED BY <2>1, ChoiceStays
\* a call is made while none is under way
<1>4. ASSUME NEW kind \in Kinds, NEW about \in Homes, NEW from \in {0} \cup Lists,
             kind \in Edits => from \in Lists, kind = "create" => about \in Uploaders,
             Called(kind, about, from), ~muddled'
      PROVE  /\ ~muddled /\ Pending = {} /\ Says(chosen)
             /\ \E c \in Calls : /\ Pending' = {c} /\ call'[c].kind = kind /\ call'[c].state = "sent"
                                 /\ call'[c].about = about /\ call'[c].from = from
  <2>1. ~muddled /\ Pending = {}
    BY <1>4 DEF Called
  <2>2. PICK c \in Calls :
           /\ call[c].state = "idle" /\ call'[c].state = "sent" /\ call'[c].kind = kind
           /\ call'[c].about = about /\ call'[c].from = from
           /\ \A d \in Calls : d # c => call'[d] = call[d]
    <3>1. UploadTypes /\ Called(kind, about, from)
      BY <1>4
    <3>2. QED BY SMTT(30), <3>1, <1>4, CalledIs
  <2>3. Pending' = {c}
    BY <2>1, <2>2 DEF Pending, Calls
  <2>4. Says(chosen)
    BY <1>2, <2>1 DEF Awaited
  <2>5. QED BY <2>1, <2>2, <2>3, <2>4
<1>5. ASSUME OpenUploads, ~muddled' PROVE ChoiceInv'
  <2>1. "fetch" \in Kinds /\ "default" \in Homes /\ 0 \in {0} \cup Lists /\ "fetch" \notin Edits /\ "fetch" # "create"
    BY DEF Kinds, Homes, Edits
  <2>2. Called("fetch", "default", 0) /\ dialog' = dialog /\ chosen' = chosen
    BY <1>5 DEF OpenUploads
  <2>3. /\ ~muddled /\ Says(chosen)
        /\ \E c \in Calls : Pending' = {c} /\ call'[c].kind = "fetch" /\ call'[c].state = "sent"
    BY <1>4, <1>5, <2>1, <2>2
  <2>4. OpenLists' = OpenLists /\ Says(chosen)'
    BY <2>2, <2>3 DEF OpenLists, Lists, Says
  <2>5. \E c \in Calls : Awaited(c)'
    BY <2>1, <2>3, <2>4 DEF Awaited
  <2>6. QED BY <1>2, <2>3, <2>4, <2>5 DEF ChoiceInv, Calls
<1>6. ASSUME NEW l \in Lists, NEW u \in Homes, Choose(l, u), ~muddled' PROVE ChoiceInv'
  <2>1. "select" \in Kinds /\ "select" \notin Edits /\ "select" # "create" /\ l \in {0} \cup Lists
    BY DEF Kinds, Edits
  <2>2. Called("select", u, l) /\ dialog' = [dialog EXCEPT ![l].radio = u] /\ l \in OpenLists
    BY <1>6 DEF Choose, OpenLists
  <2>3. /\ ~muddled
        /\ \E c \in Calls : /\ Pending' = {c} /\ call'[c].kind = "select" /\ call'[c].state = "sent"
                            /\ call'[c].about = u
    BY <1>4, <1>6, <2>1, <2>2
  <2>4. OpenLists' = OpenLists /\ dialog'[l].radio = u
    BY <1>1, <2>2 DEF OpenLists, Lists, DialogRecords
  <2>5. \A m \in OpenLists : m = l
    BY <1>2, <2>2, <2>3
  <2>6. Says(u)'
    BY <2>4, <2>5 DEF Says
  <2>7. \E c \in Calls : Awaited(c)'
    <3>1. PICK c \in Calls : /\ Pending' = {c} /\ call'[c].kind = "select" /\ call'[c].state = "sent"
                             /\ call'[c].about = u
      BY <2>3
    <3>2. \A m \in OpenLists' : dialog'[m].radio = call'[c].about
      BY <2>6, <3>1 DEF Says
    <3>3. Awaited(c)'
      BY <2>1, <3>1, <3>2 DEF Awaited, Says
    <3>4. QED BY <3>3
  <2>8. QED BY <1>2, <2>3, <2>4, <2>7 DEF ChoiceInv, Calls
\* an edit or deletion is made in the one window that is open
<1>7. ASSUME NEW l \in Lists, NEW kind \in Edits, NEW u \in Uploaders, Called(kind, u, l),
             dialog[l].state = "open", dialog' = dialog, chosen' = chosen, ~muddled'
      PROVE  ChoiceInv'
  <2>1. kind \in Kinds /\ u \in Homes /\ l \in {0} \cup Lists /\ kind \notin {"fetch", "select"}
    BY DEF Kinds, Homes, Edits
  <2>2. /\ ~muddled
        /\ \E c \in Calls : /\ Pending' = {c} /\ call'[c].kind = kind /\ call'[c].state = "sent"
                            /\ call'[c].from = l
    BY <1>4, <1>7, <2>1
  <2>3. OpenLists' = OpenLists /\ OpenLists \subseteq {l}
    BY <1>2, <1>7, <2>2 DEF OpenLists, Lists
  <2>4. \E c \in Calls : Awaited(c)'
    BY <2>1, <2>2, <2>3 DEF Awaited
  <2>5. QED BY <1>2, <2>2, <2>3, <2>4 DEF ChoiceInv, Calls
<1>8. ASSUME NEW l \in Lists, NEW u \in Uploaders, Delete(l, u), ~muddled' PROVE ChoiceInv'
  BY <1>7, <1>8 DEF Delete, Edits
<1>9. ASSUME NEW l \in Lists, NEW u \in Uploaders, SaveEditor(l, u), ~muddled' PROVE ChoiceInv'
  <2>1. dialog[l].state = "open"
    BY <1>9 DEF SaveEditor, UploadTypes, UploadsTypeOK
  <2>2. PICK kind \in {"update", "create"} : Called(kind, u, l)
    BY <1>9 DEF SaveEditor
  <2>3. kind \in Edits /\ dialog' = dialog /\ chosen' = chosen
    BY <1>9 DEF SaveEditor, Edits
  <2>4. QED BY <1>7, <1>9, <2>1, <2>2, <2>3
<1>10. ASSUME NEW l \in Lists, \/ CloseUploads(l)
                               \/ \E u \in Uploaders : OpenEditor(l, u) \/ CloseEditor(l, u)
       PROVE  ChoiceInv'
  <2>1. /\ call' = call /\ chosen' = chosen /\ muddled' = muddled
        /\ dialog' = dialog \/ dialog' = [dialog EXCEPT ![l].state = "closed"]
    BY <1>10 DEF CloseEditor, CloseUploads, OpenEditor
  <2>2. QED BY <2>1, ChoiceStays
<1>11. ASSUME NEW c \in Calls, ServeUploader(c), ~muddled' PROVE ChoiceInv'
  <2>1. /\ \A d \in Calls : d # c => call'[d] = call[d]
        /\ call[c].state = "sent" /\ call'[c].kind = call[c].kind /\ call'[c].about = call[c].about
        /\ call'[c].state = IF call[c].kind \in {"select", "update", "delete"}
                               /\ call[c].about \notin personal \cup {"default"} THEN "refused" ELSE "done"
        /\ call'[c].from = IF call[c].kind = "fetch" THEN [listed |-> personal, radio |-> chosen] ELSE call[c].from
    BY Zenon, <1>11, ServeIs
  <2>2. ~muddled /\ dialog' = dialog
    BY <1>11 DEF ServeUploader
  <2>3. Awaited(c)
    <3>1. c \in Pending
      BY <2>1 DEF Pending
    <3>2. PICK d \in Calls : Awaited(d)
      BY <1>2, <2>2, <3>1
    <3>3. d = c
      BY <3>1, <3>2 DEF Awaited
    <3>4. QED BY <3>2, <3>3
  <2>4. Pending' = {c}
    <3>1. call'[c].state \in {"done", "refused"}
      BY <2>1
    <3>2. Pending = {c}
      BY <2>3 DEF Awaited
    <3>3. QED BY <2>1, <3>1, <3>2 DEF Pending, Calls
  <2>5. OpenLists' = OpenLists /\ \A l \in OpenLists : dialog'[l].radio = dialog[l].radio
    BY <2>2 DEF OpenLists, Lists
  <2>6. call[c].kind \in Kinds
    BY <1>1 DEF CallRecords
  <2>7. Awaited(c)'
    <3>1. CASE call[c].kind = "fetch"
      <4>1. chosen' = chosen
        BY <1>11, <3>1 DEF ServeUploader
      <4>2. Says(chosen)
        BY <2>1, <2>3, <3>1 DEF Awaited
      <4>3. Says(chosen)'
        BY <2>5, <4>1, <4>2 DEF Says
      <4>4. call'[c].from.radio = chosen'
        BY <2>1, <3>1, <4>1
      <4>5. QED BY <2>1, <2>4, <3>1, <4>3, <4>4 DEF Awaited, Edits
    <3>2. CASE call[c].kind = "select"
      <4>1. call'[c].state = "done" => chosen' = call[c].about
        BY <1>11, <2>1, <3>2 DEF ServeUploader
      <4>2. Says(call[c].about)
        BY <2>1, <2>3, <3>2 DEF Awaited
      <4>3. call'[c].state = "done" => Says(chosen)'
        BY <2>5, <4>1, <4>2 DEF Says
      <4>4. call'[c].state # "sent"
        BY <2>1
      <4>5. QED BY <2>1, <2>4, <3>2, <4>3, <4>4 DEF Awaited, Edits
    <3>3. CASE call[c].kind \in Edits
      <4>1. OpenLists \subseteq {call[c].from} /\ call[c].kind \notin {"fetch", "select"}
        BY <2>1, <2>3, <3>3 DEF Awaited, Edits
      <4>2. call'[c].from = call[c].from
        BY <2>1, <4>1
      <4>3. OpenLists' \subseteq {call'[c].from}
        BY <2>5, <4>1, <4>2
      <4>4. QED BY <2>1, <2>4, <4>1, <4>3 DEF Awaited
    <3>4. QED BY <2>6, <3>1, <3>2, <3>3 DEF Kinds, Edits
  <2>8. QED BY <1>2, <2>2, <2>5, <2>7 DEF ChoiceInv, Calls
<1>12. ASSUME NEW c \in Calls, LoseUploaderCall(c), ~muddled' PROVE ChoiceInv'
  <2>1. /\ call[c].state = "sent" /\ call' = [call EXCEPT ![c].state = "refused"]
        /\ ~muddled /\ dialog' = dialog
    BY <1>12 DEF LoseUploaderCall
  <2>2. call'[c].state = "refused" /\ \A d \in Calls : d # c => call'[d] = call[d]
    BY <1>1, <2>1 DEF CallRecords
  <2>3. Pending = {c}
    BY <1>2, <2>1 DEF Pending, Awaited
  <2>4. Pending' = {c}
    BY <2>2, <2>3 DEF Pending, Calls
  <2>5. call'[c].kind \notin {"fetch", "select"} \cup Edits \/ call'[c].state = "refused"
    BY <2>2
  <2>6. Awaited(c)'
    BY <2>2, <2>4 DEF Awaited
  <2>7. OpenLists' = OpenLists
    BY <2>1 DEF OpenLists, Lists
  <2>8. QED BY <1>2, <2>1, <2>6, <2>7 DEF ChoiceInv, Calls
<1>13. ASSUME NEW u \in Homes, ChosenElsewhere(u) PROVE ChoiceInv'
  BY <1>13 DEF ChosenElsewhere, ChoiceInv
\* an answer: afterwards nothing is under way
<1>14. ASSUME NEW c \in Calls, call[c].state \in {"done", "refused"}, call' = [call EXCEPT ![c] = Answered], ~muddled
       PROVE  Awaited(c) /\ Pending' = {}
  <2>1. c \in Pending
    BY <1>14 DEF Pending
  <2>2. PICK d \in Calls : Awaited(d)
    BY <1>2, <1>14, <2>1
  <2>3. d = c
    BY <2>1, <2>2 DEF Awaited
  <2>4. Answered.state = "over"
    BY DEF Answered, Unmade
  <2>5. Pending' = {}
    BY <1>1, <1>14, <2>2, <2>3, <2>4 DEF Pending, Calls, Awaited
  <2>6. QED BY <2>2, <2>3, <2>5
<1>15. ASSUME NEW c \in Calls, Selected(c), ~muddled' PROVE ChoiceInv'
  <2>1. /\ call[c].state = "done" /\ call[c].kind = "select" /\ call' = [call EXCEPT ![c] = Answered]
        /\ ~muddled /\ dialog' = dialog /\ chosen' = chosen
    BY <1>15 DEF Selected
  <2>2. Awaited(c) /\ Pending' = {}
    BY <1>14, <2>1
  <2>3. Says(chosen)
    BY <2>1, <2>2 DEF Awaited
  <2>4. OpenLists' = OpenLists /\ Says(chosen)'
    BY <2>1, <2>3 DEF OpenLists, Lists, Says
  <2>5. QED BY <1>2, <2>1, <2>2, <2>4 DEF ChoiceInv
<1>16. ASSUME NEW c \in Calls, Refused(c) PROVE ChoiceInv'
  BY <1>16 DEF Refused, ChoiceInv
<1>17. ASSUME NEW c \in Calls, Built(c), ~muddled' PROVE ChoiceInv'
  <2>1. /\ call[c].state = "done" /\ call[c].kind = "fetch" /\ call' = [call EXCEPT ![c] = Answered]
        /\ ~muddled /\ chosen' = chosen /\ \A l \in Lists : dialog[l].state # "open"
    BY <1>17 DEF Built
  <2>2. Awaited(c) /\ Pending' = {}
    BY <1>14, <2>1
  <2>3. call[c].from.radio = chosen
    BY <2>1, <2>2 DEF Awaited
  <2>4. PICK l \in NextOf(dialog, Lists) :
          dialog' = [dialog EXCEPT ![l] = [state |-> "open", listed |-> call[c].from.listed,
                                           radio |-> call[c].from.radio]]
    BY <1>17 DEF Built
  <2>5. l \in Lists
    BY <2>4 DEF NextOf
  <2>6. OpenLists' = {l} /\ dialog'[l].radio = call[c].from.radio
    BY <1>1, <2>1, <2>4, <2>5 DEF OpenLists, Lists
  <2>7. Says(chosen)'
    BY <2>1, <2>3, <2>6 DEF Says
  <2>8. QED BY <2>2, <2>6, <2>7 DEF ChoiceInv
<1>18. ASSUME NEW c \in Calls, Changed(c), ~muddled' PROVE ChoiceInv'
  <2>1. /\ call[c].state = "done" /\ call[c].kind \in Edits /\ Pending = {c}
        /\ ~muddled /\ dialog' = [dialog EXCEPT ![call[c].from].state = "closed"]
    BY <1>18 DEF Changed, Edits
  <2>2. call[c].from \in Lists
    BY <1>1, <2>1 DEF Answerable
  <2>3. PICK e \in Calls : Awaited(e)
    BY <1>2, <2>1
  <2>4. e = c
    BY <2>1, <2>3 DEF Awaited
  <2>5. OpenLists \subseteq {call[c].from}
    BY <2>1, <2>3, <2>4 DEF Awaited
  <2>6. OpenLists' = {}
    BY <1>1, <2>1, <2>2, <2>5 DEF OpenLists, Lists, DialogRecords
  <2>7. PICK d \in NextOf(call, Calls) :
          call' = [call EXCEPT ![c] = Answered, ![d] = [Unmade EXCEPT !.state = "sent"]]
    BY <1>18 DEF Changed
  <2>8. d \in Calls /\ call[d].state = "idle" /\ d # c
    BY <2>1, <2>7 DEF NextOf
  <2>9. /\ call'[c] = Answered /\ call'[d] = [Unmade EXCEPT !.state = "sent"]
        /\ \A b \in Calls : b \notin {c, d} => call'[b] = call[b]
    BY <1>1, <2>7, <2>8
  <2>10. call'[c].state = "over" /\ call'[d].state = "sent" /\ call'[d].kind = "fetch"
    BY <2>9 DEF Answered, Unmade
  <2>11. Pending' = {d}
    BY <2>1, <2>8, <2>9, <2>10 DEF Pending, Calls
  <2>12. Says(chosen)'
    BY <2>6 DEF Says
  <2>13. Awaited(d)'
    BY <2>10, <2>11, <2>12 DEF Awaited, Edits
  <2>14. QED BY <2>6, <2>8, <2>13 DEF ChoiceInv, Calls
<1>19. ASSUME UploadsRestart PROVE ChoiceInv'
  <2>1. /\ dialog' = [l \in Lists |-> IF dialog[l].state = "open" THEN [dialog[l] EXCEPT !.state = "closed"]
                                      ELSE dialog[l]]
        /\ call' = [c \in Calls |-> IF c \in Pending THEN Answered ELSE call[c]]
    BY <1>19 DEF UploadsRestart
  <2>2. OpenLists' = {}
    BY <1>1, <2>1 DEF OpenLists, Lists, DialogRecords
  <2>3. Answered.state = "over"
    BY DEF Answered, Unmade
  <2>4. Pending' = {}
    BY <2>1, <2>3 DEF Pending, Calls
  <2>5. QED BY <2>2, <2>4 DEF ChoiceInv, Says
<1>20. ASSUME muddled' PROVE ChoiceInv'
  BY <1>20 DEF ChoiceInv
<1>21. ASSUME UploadersNext, ~muddled' PROVE ChoiceInv'
  BY <1>5, <1>6, <1>8, <1>9, <1>10, <1>11, <1>12, <1>13, <1>15, <1>16, <1>17, <1>18, <1>21
     DEF UploadersNext, Homes
<1>22. QED BY <1>3, <1>19, <1>20, <1>21 DEF UploadsNext

\* As long as no call was refused, none overlapped another, nobody else changed
\* anything and no two uploads windows were open: once all calls are answered, the
\* radio that is on is where the server sends an upload (uploadersdialog.rs build,
\* fill), whatever was deleted, edited or closed on the way.
THEOREM RadioIsWhereItGoes == Spec => []ChoiceAgrees
<1>1. Init /\ UploadTypes => ChoiceInv
  <2>1. ASSUME Init PROVE OpenLists = {} /\ Pending = {}
    BY <2>1 DEF Init, UploadsInit, OpenLists, Pending, Unmade
  <2>2. QED BY <2>1 DEF ChoiceInv, Says
<1>2. ChoiceInv /\ UploadTypes /\ UploadTypes' /\ [Next]_mediaVars => ChoiceInv'
  <2>1. SUFFICES ASSUME ChoiceInv, UploadTypes, UploadTypes', [Next]_mediaVars PROVE ChoiceInv'
    OBVIOUS
  <2>2. UploadsNext \/ UploadsRestart \/ UNCHANGED uploadVars
    BY <2>1, PartsStep DEF mediaVars
  <2>3. CASE UNCHANGED uploadVars
    BY <2>1, <2>3, ChoiceStays DEF uploadVars, uploaders
  <2>4. QED BY <2>1, <2>2, <2>3, ChoiceStep
<1>3. ChoiceInv => ChoiceAgrees
  <2>1. SUFFICES ASSUME ChoiceInv, ~muddled, Pending = {} PROVE Says(chosen)
    BY DEF ChoiceAgrees, Says, OpenLists
  <2>2. \A c \in Calls : ~Awaited(c)
    BY <2>1 DEF Awaited
  <2>3. QED BY <2>1, <2>2 DEF ChoiceInv
<1>4. QED BY <1>1, <1>2, <1>3, UploadTypesHold, PTL DEF Spec

--------------------------------------------------------------------------------
(* Images and previews *)

Caches == [textures : SUBSET Pictures, inflight : SUBSET Pictures, failed : SUBSET Pictures,
           previews : [Pages -> {"absent", "slot", "nothing", "card"}],
           wake : [Links -> Convs \cup {"none"}], fetches : SUBSET Links]

\* Under way is what is being fetched, in both caches.
Sound(c) ==
  /\ c \in Caches
  /\ c.inflight = c.fetches \cap Pictures
  /\ \A g \in Pages : g \in c.fetches <=> c.previews[g] = "slot"

\* d is c after some links were asked for that nothing was known of.
Grown(c, d) ==
  /\ d.textures = c.textures /\ d.failed = c.failed /\ c.inflight \subseteq d.inflight
  /\ \A u \in d.inflight \ c.inflight : u \notin c.textures \cup c.failed
  /\ \A u \in c.textures : d.wake[u] = c.wake[u]
  /\ \A g \in Pages : d.previews[g] # c.previews[g] => c.previews[g] = "absent" /\ d.previews[g] = "slot"

\* Asking for images
LEMMA AskIs ==
  ASSUME NEW c, Sound(c), NEW wanted \in SUBSET Pictures, NEW k \in Convs \cup {"none"}
  PROVE  /\ Sound(Ask(c, wanted, k)) /\ Grown(c, Ask(c, wanted, k))
         /\ wanted \subseteq Ask(c, wanted, k).inflight \cup c.textures \cup c.failed
         /\ Ask(c, wanted, k).previews = c.previews
<1> DEFINE new == wanted \ (c.textures \cup c.failed \cup c.inflight)
           d == Ask(c, wanted, k)
<1>1. /\ c \in Caches /\ Pages \cap Pictures = {} /\ Links = Pictures \cup Pages
      /\ c.inflight = c.fetches \cap Pictures /\ \A g \in Pages : g \in c.fetches <=> c.previews[g] = "slot"
  BY ImagesAssumption DEF Sound, Links
<1>2. d = [c EXCEPT !.inflight = @ \cup new, !.fetches = @ \cup new,
                    !.wake = [u \in Links |-> IF u \in new THEN k ELSE c.wake[u]]]
  BY DEF Ask
<1>3. new \subseteq Pictures
  OBVIOUS
<1>4. /\ d.textures = c.textures /\ d.failed = c.failed /\ d.previews = c.previews
      /\ d.inflight = c.inflight \cup new /\ d.fetches = c.fetches \cup new
      /\ d.wake = [u \in Links |-> IF u \in new THEN k ELSE c.wake[u]]
  BY <1>1, <1>2 DEF Caches
<1>5. d.wake \in [Links -> Convs \cup {"none"}]
  BY <1>1, <1>4 DEF Caches
<1>6. d \in Caches
  <2>1. d = [textures |-> d.textures, inflight |-> d.inflight, failed |-> d.failed,
             previews |-> d.previews, wake |-> d.wake, fetches |-> d.fetches]
    BY <1>1, <1>2 DEF Caches
  <2>2. /\ d.textures \subseteq Pictures /\ d.inflight \subseteq Pictures /\ d.failed \subseteq Pictures
        /\ d.previews \in [Pages -> {"absent", "slot", "nothing", "card"}] /\ d.fetches \subseteq Links
    BY <1>1, <1>3, <1>4 DEF Caches
  <2> HIDE DEF d
  <2>3. QED BY <1>5, <2>1, <2>2 DEF Caches
<1> HIDE DEF d
<1>7. Sound(d)
  BY <1>1, <1>3, <1>4, <1>6 DEF Sound
<1>8. Grown(c, d)
  BY <1>1, <1>4 DEF Grown, Caches
<1>9. wanted \subseteq d.inflight \cup c.textures \cup c.failed
  BY <1>4
<1>10. QED BY <1>4, <1>7, <1>8, <1>9 DEF d

\* Asking for pages
LEMMA AskPagesIs ==
  ASSUME NEW c, Sound(c), NEW k \in Convs \cup {"none"}
  PROVE  Sound(AskPages(c, k)) /\ Grown(c, AskPages(c, k))
<1> DEFINE new == {g \in Pages : c.previews[g] = "absent"}
           d == AskPages(c, k)
<1>1. /\ c \in Caches /\ Pages \cap Pictures = {} /\ Links = Pictures \cup Pages
      /\ c.inflight = c.fetches \cap Pictures /\ \A g \in Pages : g \in c.fetches <=> c.previews[g] = "slot"
  BY ImagesAssumption DEF Sound, Links
<1>2. d = [c EXCEPT !.previews = [g \in Pages |-> IF g \in new THEN "slot" ELSE c.previews[g]],
                    !.fetches = @ \cup new,
                    !.wake = [u \in Links |-> IF u \in new THEN k ELSE c.wake[u]]]
  BY DEF AskPages
<1>3. new \subseteq Pages
  OBVIOUS
<1>4. /\ d.textures = c.textures /\ d.failed = c.failed /\ d.inflight = c.inflight
      /\ d.previews = [g \in Pages |-> IF g \in new THEN "slot" ELSE c.previews[g]]
      /\ d.fetches = c.fetches \cup new
      /\ d.wake = [u \in Links |-> IF u \in new THEN k ELSE c.wake[u]]
  BY <1>1, <1>2 DEF Caches
<1>5. d.wake \in [Links -> Convs \cup {"none"}] /\ d.previews \in [Pages -> {"absent", "slot", "nothing", "card"}]
  BY <1>1, <1>4 DEF Caches
<1>6. d \in Caches
  <2>1. d = [textures |-> d.textures, inflight |-> d.inflight, failed |-> d.failed,
             previews |-> d.previews, wake |-> d.wake, fetches |-> d.fetches]
    BY <1>1, <1>2 DEF Caches
  <2>2. /\ d.textures \subseteq Pictures /\ d.inflight \subseteq Pictures /\ d.failed \subseteq Pictures
        /\ d.fetches \subseteq Links
    BY <1>1, <1>3, <1>4 DEF Caches
  <2> HIDE DEF d
  <2>3. QED BY <1>5, <2>1, <2>2 DEF Caches
<1> HIDE DEF d
<1>7. Sound(d)
  <2>1. ASSUME NEW g \in Pages PROVE g \in d.fetches <=> d.previews[g] = "slot"
    BY <1>1, <1>4
  <2>2. d.inflight = d.fetches \cap Pictures
    BY <1>1, <1>3, <1>4
  <2>3. QED BY <1>6, <2>1, <2>2 DEF Sound
<1>8. Grown(c, d)
  <2>1. \A u \in c.textures : d.wake[u] = c.wake[u]
    BY <1>1, <1>3, <1>4 DEF Caches
  <2>2. \A g \in Pages : d.previews[g] # c.previews[g] => c.previews[g] = "absent" /\ d.previews[g] = "slot"
    BY <1>4
  <2>3. QED BY <1>4, <2>1, <2>2 DEF Grown
<1>9. QED BY <1>7, <1>8 DEF d

\* A rendering asks for all it shows, and changes nothing else.
LEMMA EmbeddedIs ==
  ASSUME NEW c, Sound(c), NEW k \in Convs \cup {"none"}
  PROVE  Sound(Embedded(c, k)) /\ Grown(c, Embedded(c, k))
<1> DEFINE wanted == (IF inline' THEN Pictures ELSE {})
                     \cup (IF cards' /\ \E g \in Pages : c.previews[g] = "card" THEN {Thumb} ELSE {})
           c1 == Ask(c, wanted, k)
           d == AskPages(c1, k)
<1>1. wanted \in SUBSET Pictures
  BY ImagesAssumption
<1>2. Embedded(c, k) = IF cards' THEN d ELSE c1
  BY DEF Embedded
<1> HIDE DEF wanted
<1>3. Sound(c1) /\ Grown(c, c1) /\ c1.previews = c.previews
  BY <1>1, AskIs
<1> HIDE DEF c1
<1>4. Sound(d) /\ Grown(c1, d)
  BY <1>3, AskPagesIs
<1> HIDE DEF d
<1>5. Grown(c, d)
  BY <1>3, <1>4 DEF Grown
<1>6. QED BY <1>2, <1>3, <1>4, <1>5

--------------------------------------------------------------------------------
\* The first of some windows
LEMMA FirstWindow ==
  ASSUME NEW ws \in SUBSET Wins, ws # {}
  PROVE  (CHOOSE w \in ws : \A v \in ws : w <= v) \in ws
<1>1. ws \subseteq Nat /\ ws # {}
  BY ImagesAssumption DEF Wins
<1>2. PICK w \in ws : \A v \in ws : ~(<<v, w>> \in OpToRel(<, Nat))
  BY <1>1, WFMin, NatLessThanWellFounded
<1>3. \A v \in ws : ~(v < w)
  BY <1>1, <1>2 DEF OpToRel
<1>4. \A v \in ws : w <= v
  BY <1>1, <1>3
<1>5. QED BY Zenon, <1>4

Marks == {"none", "loading", "image", "failed", "card", "bare"}

\* What a rendering draws of an image that has come, and of a card with it
LEMMA DrawnIs ==
  ASSUME NEW c, Sound(c)
  PROVE  /\ DrawnOf(c) \in [Links -> Marks]
         /\ \A u \in c.textures : DrawnOf(c)[u] # "loading"
         /\ Thumb \in c.textures => \A g \in Pages : DrawnOf(c)[g] # "bare"
<1>1. /\ Pages \cap Pictures = {} /\ Links = Pictures \cup Pages /\ c.textures \subseteq Pictures
  BY ImagesAssumption DEF Links, Sound, Caches
<1>2. DrawnOf(c) = [u \in Links |-> IF u \in Pictures THEN PictureOf(c, u) ELSE CardOf(c, u)]
  BY DEF DrawnOf
<1>3. \A u \in Links : PictureOf(c, u) \in Marks /\ CardOf(c, u) \in Marks
  BY DEF PictureOf, CardOf, Marks
<1>4. \A u \in c.textures : PictureOf(c, u) # "loading"
  BY DEF PictureOf
<1>5. Thumb \in c.textures => \A g \in Pages : CardOf(c, g) # "bare"
  BY DEF CardOf
<1>6. DrawnOf(c) \in [Links -> Marks]
  BY <1>2, <1>3
<1>7. \A u \in c.textures : DrawnOf(c)[u] = PictureOf(c, u)
  BY <1>1, <1>2
<1>8. \A g \in Pages : DrawnOf(c)[g] = CardOf(c, g)
  BY <1>1, <1>2
<1>9. QED BY <1>4, <1>5, <1>6, <1>7, <1>8

\* A redraw of the windows ws, which show what on says: they have drawn all there
\* is, and the others are as they were.
LEMMA RedrawnIs ==
  ASSUME NEW c, Sound(c), NEW on \in [Wins -> Convs \cup {"none"}], NEW ws \in SUBSET Wins,
         Redrawn(c, on, ws)
  PROVE  /\ Sound(Cache') /\ Grown(c, Cache')
         /\ shows' = on
         /\ drawn' = [w \in Wins |-> IF w \in ws THEN DrawnOf(Cache') ELSE drawn[w]]
<1> DEFINE d == IF ws = {} THEN c ELSE Embedded(c, on[CHOOSE w \in ws : \A v \in ws : w <= v])
<1>1. /\ textures' = d.textures /\ inflight' = d.inflight /\ failed' = d.failed
      /\ previews' = d.previews /\ wake' = d.wake /\ fetches' = d.fetches
      /\ shows' = on
      /\ drawn' = [w \in Wins |-> IF w \in ws THEN DrawnOf(d) ELSE drawn[w]]
  BY DEF Redrawn
<1>2. Sound(d) /\ Grown(c, d)
  <2>1. CASE ws = {}
    BY <2>1 DEF Grown
  <2>2. CASE ws # {}
    <3> DEFINE first == CHOOSE w \in ws : \A v \in ws : w <= v
    <3>1. first \in ws
      BY Zenon, <2>2, FirstWindow
    <3>2. d = Embedded(c, on[first])
      BY <2>2
    <3> HIDE DEF first
    <3>3. on[first] \in Convs \cup {"none"}
      BY <3>1
    <3> HIDE DEF d
    <3>4. QED BY Zenon, <3>2, <3>3, EmbeddedIs
  <2>3. QED BY <2>1, <2>2
<1> HIDE DEF d
<1>3. d = Cache'
  <2>1. d \in Caches
    BY <1>2 DEF Sound
  <2>2. d = [textures |-> d.textures, inflight |-> d.inflight, failed |-> d.failed,
             previews |-> d.previews, wake |-> d.wake, fetches |-> d.fetches]
    BY <2>1 DEF Caches
  <2>3. QED BY <1>1, <2>2 DEF Cache
<1>4. QED BY <1>1, <1>2, <1>3

\* The place of a link in the caches, and how it may move
Place(c, u) ==
  IF u \in Pages THEN CASE c.previews[u] = "absent" -> "absent" [] c.previews[u] = "slot" -> "underway"
                         [] c.previews[u] = "nothing" -> "failed" [] c.previews[u] = "card" -> "have"
  ELSE IF u \in c.inflight THEN "underway" ELSE IF u \in c.textures THEN "have"
  ELSE IF u \in c.failed THEN "failed" ELSE "absent"

Places == {"absent", "underway", "have", "failed"}

Moved(from, to) ==
  from # to => <<from, to>> \in {<<"absent", "underway">>, <<"failed", "underway">>,
                                 <<"underway", "have">>, <<"underway", "failed">>}

\* The place of a page is that of its result.
LEMMA PageIs ==
  ASSUME NEW c, Sound(c), NEW g \in Pages
  PROVE  /\ c.previews[g] = "absent" => Place(c, g) = "absent"
         /\ c.previews[g] = "slot" => Place(c, g) = "underway"
         /\ c.previews[g] = "nothing" => Place(c, g) = "failed"
         /\ c.previews[g] = "card" => Place(c, g) = "have"
         /\ c.previews[g] \in {"absent", "slot", "nothing", "card"}
<1>1. c.previews[g] \in {"absent", "slot", "nothing", "card"}
  BY DEF Sound, Caches
<1>2. c.previews[g] = "absent" => Place(c, g) = "absent"
  BY DEF Place
<1>3. c.previews[g] = "slot" => Place(c, g) = "underway"
  BY DEF Place
<1>4. c.previews[g] = "nothing" => Place(c, g) = "failed"
  BY DEF Place
<1>5. c.previews[g] = "card" => Place(c, g) = "have"
  BY DEF Place
<1>6. QED BY <1>1, <1>2, <1>3, <1>4, <1>5

\* A link has one of four places.
LEMMA PlaceIs ==
  ASSUME NEW c, Sound(c), NEW u \in Links PROVE Place(c, u) \in Places
<1>1. CASE u \in Pages
  BY <1>1, PageIs DEF Places
<1>2. CASE u \notin Pages
  BY <1>2 DEF Place, Places
<1>3. QED BY <1>1, <1>2

\* Asking moves what is absent, and nothing else.
LEMMA GrownMoves ==
  ASSUME NEW c, Sound(c), NEW d, Sound(d), Grown(c, d), NEW u \in Links
  PROVE  Place(c, u) # Place(d, u) => Place(c, u) = "absent" /\ Place(d, u) = "underway"
<1>1. CASE u \in Pages
  <2>1. d.previews[u] # c.previews[u] => c.previews[u] = "absent" /\ d.previews[u] = "slot"
    BY <1>1 DEF Grown
  <2>2. CASE d.previews[u] = c.previews[u]
    <3>1. Place(c, u) = Place(d, u)
      BY <1>1, <2>2, PageIs
    <3>2. QED BY <3>1
  <2>3. QED BY <1>1, <2>1, <2>2, PageIs
<1>2. CASE u \notin Pages
  BY <1>2 DEF Place, Grown
<1>3. QED BY <1>1, <1>2

--------------------------------------------------------------------------------
\* What is drawn and saved agrees with the caches.
ImagesInv ==
  /\ ArrivedIsDrawn
  /\ Sound(Cache)
  /\ DOMAIN saved \subseteq Pages
  /\ \A g \in DOMAIN saved : saved[g] \in {"nothing", "card"} /\ previews[g] = saved[g]

\* A cache that a step leaves before it draws: the images that came are for the
\* windows ws, and every link moved as a link may.
Left(c, ws) ==
  /\ Sound(c)
  /\ \A u \in c.textures : c.wake[u] = wake[u] /\ (u \notin textures => Showing(wake[u]) \subseteq ws)
  /\ \A u \in Links : Moved(Place(Cache, u), Place(c, u))

\* What a redraw does to the windows and the links
LEMMA DrawsWell ==
  ASSUME ImagesInv, NEW c, NEW ws \in SUBSET Wins, Left(c, ws),
         NEW on \in [Wins -> Convs \cup {"none"}], \A w \in Wins \ ws : on[w] = shows[w],
         Redrawn(c, on, ws), inline' \in BOOLEAN, cards' \in BOOLEAN, turns' \in 0..MaxTurns
  PROVE  /\ ArrivedIsDrawn' /\ Sound(Cache') /\ Grown(c, Cache')
         /\ \A u \in Links : Moved(Place(Cache, u), Place(Cache', u))
<1>1. Sound(c) /\ Sound(Cache)
  BY DEF Left, ImagesInv
<1>2. /\ Sound(Cache') /\ Grown(c, Cache') /\ shows' = on
      /\ drawn' = [w \in Wins |-> IF w \in ws THEN DrawnOf(Cache') ELSE drawn[w]]
  BY <1>1, RedrawnIs
<1>3. /\ Cache'.textures = textures' /\ Cache'.inflight = inflight' /\ Cache'.failed = failed'
      /\ Cache'.previews = previews' /\ Cache'.wake = wake' /\ Cache'.fetches = fetches'
  BY DEF Cache
<1>4. /\ textures' \subseteq Pictures /\ inflight' \subseteq Pictures /\ failed' \subseteq Pictures
      /\ fetches' \subseteq Links /\ previews' \in [Pages -> {"absent", "slot", "nothing", "card"}]
      /\ wake' \in [Links -> Convs \cup {"none"}]
  BY <1>2, <1>3 DEF Sound, Caches
<1>5. /\ DrawnOf(Cache') \in [Links -> Marks]
      /\ \A u \in textures' : DrawnOf(Cache')[u] # "loading"
      /\ Thumb \in textures' => \A g \in Pages : DrawnOf(Cache')[g] # "bare"
  BY <1>2, <1>3, DrawnIs
<1>6. /\ textures' = c.textures /\ \A u \in textures' : wake'[u] = wake[u]
      /\ \A u \in textures' : u \notin textures => Showing(wake[u]) \subseteq ws
  BY <1>2, <1>3 DEF Grown, Left
<1>7. drawn \in [Wins -> [Links -> Marks]]
  BY DEF ImagesInv, ArrivedIsDrawn, ImagesTypeOK, Marks
<1>8. drawn' \in [Wins -> [Links -> Marks]]
  BY <1>2, <1>5, <1>7
<1>9. ImagesTypeOK'
  <2>1. shows' \in [Wins -> Convs \cup {"none"}]
    BY <1>2
  <2>2. QED BY <1>4, <1>8, <2>1 DEF ImagesTypeOK, Links, Wins, Marks
<1>10. ASSUME NEW w \in Wins, NEW u \in textures', wake'[u] = shows'[w], shows'[w] # "none"
       PROVE  drawn'[w][u] # "loading" /\ (u = Thumb => \A g \in Pages : drawn'[w][g] # "bare")
  <2>1. CASE w \in ws
    <3>1. drawn'[w] = DrawnOf(Cache')
      BY <1>2, <2>1
    <3>2. QED BY Zenon, <1>5, <1>10, <3>1
  <2>2. CASE w \notin ws
    <3>1. drawn'[w] = drawn[w] /\ shows'[w] = shows[w]
      BY <1>2, <2>2
    <3>2. wake[u] = shows[w] /\ shows[w] # "none"
      BY <1>6, <1>10, <3>1
    <3>3. w \in Showing(wake[u])
      BY <3>2 DEF Showing
    <3>4. u \in textures
      BY <1>6, <1>10, <2>2, <3>3
    <3>5. drawn[w][u] # "loading" /\ (u = Thumb => \A g \in Pages : drawn[w][g] # "bare")
      BY <3>2, <3>4 DEF ImagesInv, ArrivedIsDrawn
    <3>6. QED BY Zenon, <3>1, <3>5
  <2>3. QED BY <2>1, <2>2
<1>11. ArrivedIsDrawn'
  BY <1>9, <1>10 DEF ArrivedIsDrawn, Wins
<1>12. ASSUME NEW u \in Links PROVE Moved(Place(Cache, u), Place(Cache', u))
  <2>1. Moved(Place(Cache, u), Place(c, u))
    BY DEF Left
  <2>2. Place(c, u) # Place(Cache', u) => Place(c, u) = "absent" /\ Place(Cache', u) = "underway"
    BY <1>1, <1>2, GrownMoves
  <2>3. QED BY <2>1, <2>2 DEF Moved
<1>13. QED BY <1>2, <1>11, <1>12

\* Nothing has happened to a cache but for what it is asked for.
LEMMA LeftAlone ==
  ASSUME ImagesInv, NEW ws \in SUBSET Wins PROVE Left(Cache, ws)
<1>1. Cache.wake = wake /\ Cache.textures = textures
  BY DEF Cache
<1>2. QED BY <1>1 DEF Left, Moved, ImagesInv

\* Whatever is asked for again after a click had failed, or is here.
LEMMA LeftByRetry ==
  ASSUME ImagesInv, NEW w \in Wins, NEW u \in Pictures,
         NEW c, c = Ask([Cache EXCEPT !.failed = @ \ {u}], {u}, shows[w])
  PROVE  Left(c, {w})
<1> DEFINE b == [Cache EXCEPT !.failed = @ \ {u}]
<1>1. /\ Sound(Cache) /\ shows[w] \in Convs \cup {"none"} /\ Links = Pictures \cup Pages
      /\ Pages \cap Pictures = {}
  BY ImagesAssumption DEF ImagesInv, ArrivedIsDrawn, ImagesTypeOK, Links
<1>2. b \in Caches /\ b.textures = Cache.textures /\ b.inflight = Cache.inflight /\ b.fetches = Cache.fetches
      /\ b.previews = Cache.previews /\ b.wake = Cache.wake /\ b.failed = Cache.failed \ {u}
  BY <1>1 DEF Sound, Caches
<1> HIDE DEF b
<1>3. Sound(b)
  BY <1>1, <1>2 DEF Sound
<1>4. /\ Sound(c) /\ Grown(b, c) /\ {u} \subseteq c.inflight \cup b.textures \cup b.failed
  <2>1. {u} \in SUBSET Pictures /\ c = Ask(b, {u}, shows[w])
    BY DEF b
  <2>2. /\ Sound(Ask(b, {u}, shows[w])) /\ Grown(b, Ask(b, {u}, shows[w]))
        /\ {u} \subseteq Ask(b, {u}, shows[w]).inflight \cup b.textures \cup b.failed
    BY <1>1, <1>3, <2>1, AskIs
  <2>3. QED BY Zenon, <2>1, <2>2
<1>5. \A v \in c.textures : c.wake[v] = wake[v] /\ v \in textures
  <2>1. Cache.textures = textures /\ Cache.wake = wake
    BY DEF Cache
  <2>2. QED BY ZenonT(40), <1>2, <1>4, <2>1 DEF Grown
<1>6. ASSUME NEW v \in Links PROVE Moved(Place(Cache, v), Place(c, v))
  <2>1. CASE v \in Pages
    <3>1. Place(b, v) = Place(Cache, v)
      BY <1>1, <1>2, <1>3, <2>1, PageIs
    <3>2. QED BY <1>3, <1>4, <3>1, GrownMoves DEF Moved
  <2>2. CASE v \notin Pages /\ v # u
    <3>1. Place(b, v) = Place(Cache, v)
      BY <1>2, <2>2 DEF Place
    <3>2. QED BY <1>3, <1>4, <3>1, GrownMoves DEF Moved
  <2>3. CASE v = u
    <3>1. u \notin Pages
      BY <1>1
    <3>2. /\ c.textures = Cache.textures /\ Cache.inflight \subseteq c.inflight
          /\ u \in c.inflight \/ u \in Cache.textures
          /\ u \in c.inflight \ Cache.inflight => u \notin Cache.textures
      BY <1>2, <1>4 DEF Grown
    <3>3. QED BY <2>3, <3>1, <3>2 DEF Moved, Place
  <2>4. QED BY <2>1, <2>2, <2>3
<1>7. QED BY <1>4, <1>5, <1>6 DEF Left

\* An image is fetched, or could not be.
LEMMA LeftByFetch ==
  ASSUME ImagesInv, NEW u \in fetches \cap Pictures, NEW c,
         \/ c = [Cache EXCEPT !.fetches = @ \ {u}, !.inflight = @ \ {u}, !.textures = @ \cup {u}]
         \/ c = [Cache EXCEPT !.fetches = @ \ {u}, !.inflight = @ \ {u}, !.failed = @ \cup {u}]
  PROVE  /\ c.textures = textures \cup {u} => Left(c, Showing(wake[u]))
         /\ c.textures = textures => Left(c, {})
<1>1. /\ Sound(Cache) /\ Links = Pictures \cup Pages /\ Pages \cap Pictures = {} /\ Cache \in Caches
  BY ImagesAssumption DEF ImagesInv, Links, Sound
<1>2. /\ Cache.textures = textures /\ Cache.wake = wake /\ Cache.fetches = fetches /\ Cache.inflight = inflight
      /\ Cache.failed = failed /\ Cache.previews = previews
  BY DEF Cache
<1>3. /\ c.wake = wake /\ c.previews = previews /\ c.fetches = fetches \ {u} /\ c.inflight = inflight \ {u}
      /\ \/ c.textures = textures \cup {u} /\ c.failed = failed
         \/ c.textures = textures /\ c.failed = failed \cup {u}
      /\ c \in Caches
  <2>1. CASE c = [Cache EXCEPT !.fetches = @ \ {u}, !.inflight = @ \ {u}, !.textures = @ \cup {u}]
    BY <1>1, <1>2, <2>1 DEF Caches
  <2>2. CASE c = [Cache EXCEPT !.fetches = @ \ {u}, !.inflight = @ \ {u}, !.failed = @ \cup {u}]
    BY <1>1, <1>2, <2>2 DEF Caches
  <2>3. QED BY <2>1, <2>2
<1>4. u \in inflight /\ u \notin Pages
  BY <1>1, <1>2 DEF Sound
<1>5. Sound(c)
  <2>1. c.inflight = c.fetches \cap Pictures
    BY <1>1, <1>2, <1>3 DEF Sound
  <2>2. \A g \in Pages : g \in c.fetches <=> c.previews[g] = "slot"
    BY <1>1, <1>2, <1>3, <1>4 DEF Sound
  <2>3. QED BY <1>3, <2>1, <2>2 DEF Sound
<1>6. ASSUME NEW v \in Links PROVE Moved(Place(Cache, v), Place(c, v))
  <2>1. CASE v \in Pages
    <3>1. Place(c, v) = Place(Cache, v)
      BY <1>1, <1>2, <1>3, <1>5, <2>1, PageIs
    <3>2. QED BY <3>1 DEF Moved
  <2>2. CASE v \notin Pages /\ v # u
    <3>1. Place(c, v) = Place(Cache, v)
      BY <1>2, <1>3, <2>2 DEF Place
    <3>2. QED BY <3>1 DEF Moved
  <2>3. CASE v = u
    <3>1. Place(Cache, u) = "underway" /\ Place(c, u) \in {"have", "failed"}
      BY <1>2, <1>3, <1>4 DEF Place
    <3>2. QED BY <2>3, <3>1 DEF Moved
  <2>4. QED BY <2>1, <2>2, <2>3
<1>7. QED BY <1>3, <1>5, <1>6 DEF Left

\* A page has been read.
LEMMA LeftByPage ==
  ASSUME ImagesInv, NEW g \in fetches \cap Pages, NEW result \in {"nothing", "card"}, NEW ws \in SUBSET Wins,
         NEW c, c = [Cache EXCEPT !.fetches = @ \ {g}, !.previews[g] = result]
  PROVE  Left(c, ws) /\ c.previews = [previews EXCEPT ![g] = result]
<1>1. /\ Sound(Cache) /\ Links = Pictures \cup Pages /\ Pages \cap Pictures = {} /\ Cache \in Caches
  BY ImagesAssumption DEF ImagesInv, Links, Sound
<1>2. /\ Cache.textures = textures /\ Cache.wake = wake /\ Cache.fetches = fetches /\ Cache.inflight = inflight
      /\ Cache.failed = failed /\ Cache.previews = previews
  BY DEF Cache
<1>3. /\ c.wake = wake /\ c.previews = [previews EXCEPT ![g] = result] /\ c.fetches = fetches \ {g}
      /\ c.inflight = inflight /\ c.textures = textures /\ c.failed = failed
  BY <1>1, <1>2 DEF Caches
<1>4. /\ previews \in [Pages -> {"absent", "slot", "nothing", "card"}] /\ previews[g] = "slot"
      /\ textures \subseteq Pictures /\ inflight \subseteq Pictures /\ failed \subseteq Pictures
      /\ fetches \subseteq Links /\ wake \in [Links -> Convs \cup {"none"}]
  BY <1>1, <1>2 DEF Sound, Caches
<1>5. /\ c.previews[g] = result /\ \A h \in Pages : h # g => c.previews[h] = previews[h]
  BY <1>3, <1>4
<1>6. c \in Caches
  <2>1. c.previews \in [Pages -> {"absent", "slot", "nothing", "card"}]
    BY <1>3, <1>4
  <2>2. c = [textures |-> c.textures, inflight |-> c.inflight, failed |-> c.failed,
             previews |-> c.previews, wake |-> c.wake, fetches |-> c.fetches]
    BY <1>1, <1>2 DEF Caches
  <2>3. QED BY <1>3, <1>4, <2>1, <2>2 DEF Caches
<1>7. Sound(c)
  <2>1. c.inflight = c.fetches \cap Pictures
    BY <1>1, <1>2, <1>3 DEF Sound
  <2>2. \A h \in Pages : h \in c.fetches <=> c.previews[h] = "slot"
    BY <1>1, <1>2, <1>3, <1>5 DEF Sound
  <2>3. QED BY <1>6, <2>1, <2>2 DEF Sound
<1>8. ASSUME NEW v \in Links PROVE Moved(Place(Cache, v), Place(c, v))
  <2>1. CASE v = g
    <3>1. g \in Pages /\ Cache.previews[g] = "slot" /\ c.previews[g] \in {"nothing", "card"}
      BY <1>2, <1>4, <1>5
    <3>2. Place(Cache, g) = "underway" /\ Place(c, g) \in {"failed", "have"}
      BY <1>1, <1>7, <3>1, PageIs
    <3>3. QED BY <2>1, <3>2 DEF Moved
  <2>2. CASE v \in Pages /\ v # g
    <3>1. c.previews[v] = Cache.previews[v]
      BY <1>2, <1>5, <2>2
    <3>2. Place(Cache, v) = Place(c, v)
      BY ZenonT(40), <1>1, <1>7, <2>2, <3>1, PageIs
    <3>3. QED BY <3>2 DEF Moved
  <2>3. CASE v \notin Pages
    <3>1. Place(c, v) = Place(Cache, v)
      BY <1>2, <1>3, <2>3 DEF Place
    <3>2. QED BY <3>1 DEF Moved
  <2>4. QED BY <2>1, <2>2, <2>3
<1>9. QED BY <1>3, <1>7, <1>8 DEF Left

--------------------------------------------------------------------------------
\* What is saved stays what the caches say.
LEMMA SavesWell ==
  ASSUME NEW c, NEW d, Grown(c, d), NEW f, DOMAIN f \subseteq Pages,
         \A g \in DOMAIN f : f[g] \in {"nothing", "card"} /\ c.previews[g] = f[g]
  PROVE  \A g \in DOMAIN f : d.previews[g] = f[g]
<1>1. SUFFICES ASSUME NEW g \in DOMAIN f PROVE d.previews[g] = f[g]
  OBVIOUS
<1>2. g \in Pages /\ c.previews[g] \in {"nothing", "card"} /\ c.previews[g] = f[g]
  OBVIOUS
<1>3. QED BY <1>2 DEF Grown

\* Every step keeps what is drawn and saved in agreement with the caches, and moves
\* the links as links may.
LEMMA ImagesStep ==
  ASSUME ImagesInv, ImagesNext, turns' \in 0..MaxTurns
  PROVE  ImagesInv' /\ \A u \in Links : Moved(Place(Cache, u), Place(Cache', u))
<1>1. /\ inline \in BOOLEAN /\ cards \in BOOLEAN /\ shows \in [Wins -> Convs \cup {"none"}]
      /\ Sound(Cache) /\ DOMAIN saved \subseteq Pages
      /\ \A g \in DOMAIN saved : saved[g] \in {"nothing", "card"} /\ previews[g] = saved[g]
  BY DEF ImagesInv, ArrivedIsDrawn, ImagesTypeOK
<1>2. Cache.previews = previews /\ Cache'.previews = previews'
  BY DEF Cache
\* a step that leaves c, saves what c holds, and draws
<1>3. ASSUME NEW c, NEW ws \in SUBSET Wins, Left(c, ws),
             NEW on \in [Wins -> Convs \cup {"none"}], \A w \in Wins \ ws : on[w] = shows[w],
             Redrawn(c, on, ws), inline' \in BOOLEAN, cards' \in BOOLEAN,
             DOMAIN saved' \subseteq Pages,
             \A g \in DOMAIN saved' : saved'[g] \in {"nothing", "card"} /\ c.previews[g] = saved'[g]
      PROVE  ImagesInv' /\ \A u \in Links : Moved(Place(Cache, u), Place(Cache', u))
  <2>1. /\ ArrivedIsDrawn' /\ Sound(Cache') /\ Grown(c, Cache')
        /\ \A u \in Links : Moved(Place(Cache, u), Place(Cache', u))
    BY <1>3, DrawsWell
  <2>2. \A g \in DOMAIN saved' : Cache'.previews[g] = saved'[g]
    BY <1>3, <2>1, SavesWell
  <2>3. ImagesInv'
    BY <1>2, <1>3, <2>1, <2>2 DEF ImagesInv
  <2>4. QED BY <2>1, <2>3
\* a step that saves nothing
<1>4. ASSUME NEW c, NEW ws \in SUBSET Wins, Left(c, ws), c.previews = previews,
             NEW on \in [Wins -> Convs \cup {"none"}], \A w \in Wins \ ws : on[w] = shows[w],
             Redrawn(c, on, ws), inline' \in BOOLEAN, cards' \in BOOLEAN, saved' = saved
      PROVE  ImagesInv' /\ \A u \in Links : Moved(Place(Cache, u), Place(Cache', u))
  <2>1. /\ DOMAIN saved' \subseteq Pages
        /\ \A g \in DOMAIN saved' : saved'[g] \in {"nothing", "card"} /\ c.previews[g] = saved'[g]
    BY <1>1, <1>4
  <2>2. QED BY <1>3, <1>4, <2>1
<1>5. ASSUME NEW w \in Wins, NEW k \in Convs, Open(w, k)
      PROVE  ImagesInv' /\ \A u \in Links : Moved(Place(Cache, u), Place(Cache', u))
  <2>1. /\ Redrawn(Cache, [shows EXCEPT ![w] = k], {w})
        /\ inline' \in BOOLEAN /\ cards' \in BOOLEAN /\ saved' = saved
    BY <1>1, <1>5 DEF Open, device
  <2>2. /\ [shows EXCEPT ![w] = k] \in [Wins -> Convs \cup {"none"}] /\ {w} \in SUBSET Wins
        /\ \A v \in Wins \ {w} : [shows EXCEPT ![w] = k][v] = shows[v]
    BY <1>1
  <2>3. Left(Cache, {w})
    BY <2>2, LeftAlone
  <2>4. QED BY Zenon, <1>2, <1>4, <2>1, <2>2, <2>3
<1>6. ASSUME NEW w \in Wins, Redraw(w)
      PROVE  ImagesInv' /\ \A u \in Links : Moved(Place(Cache, u), Place(Cache', u))
  <2>1. Redrawn(Cache, shows, {w}) /\ inline' \in BOOLEAN /\ cards' \in BOOLEAN /\ saved' = saved
    BY <1>1, <1>6 DEF Redraw, device
  <2>2. {w} \in SUBSET Wins
    OBVIOUS
  <2>3. Left(Cache, {w})
    BY <2>2, LeftAlone
  <2>4. QED BY Zenon, <1>1, <1>2, <1>4, <2>1, <2>2, <2>3
<1>7. ASSUME Toggle
      PROVE  ImagesInv' /\ \A u \in Links : Moved(Place(Cache, u), Place(Cache', u))
  <2> DEFINE ws == {w \in Wins : shows[w] \in Convs}
  <2>1. Redrawn(Cache, shows, ws) /\ inline' \in BOOLEAN /\ cards' \in BOOLEAN /\ saved' = saved
    BY <1>1, <1>7 DEF Toggle
  <2>2. ws \in SUBSET Wins
    OBVIOUS
  <2>3. Left(Cache, ws)
    BY <2>2, LeftAlone
  <2> HIDE DEF ws
  <2>4. QED BY Zenon, <1>1, <1>2, <1>4, <2>1, <2>2, <2>3
<1>8. ASSUME NEW w \in Wins, NEW u \in Pictures, Retry(w, u)
      PROVE  ImagesInv' /\ \A v \in Links : Moved(Place(Cache, v), Place(Cache', v))
  <2> DEFINE b == [Cache EXCEPT !.failed = @ \ {u}]
             c == Ask([Cache EXCEPT !.failed = @ \ {u}], {u}, shows[w])
  <2>1. Redrawn(c, shows, {w}) /\ inline' \in BOOLEAN /\ cards' \in BOOLEAN /\ saved' = saved
    BY <1>1, <1>8 DEF Retry, device
  <2>2. {w} \in SUBSET Wins
    OBVIOUS
  <2>3. c.previews = previews
    BY DEF Ask, Cache
  <2>4. c = Ask([Cache EXCEPT !.failed = @ \ {u}], {u}, shows[w])
    OBVIOUS
  <2> HIDE DEF c
  <2>5. Left(c, {w})
    BY Zenon, <2>4, LeftByRetry
  <2>6. QED BY Zenon, <1>1, <1>4, <2>1, <2>2, <2>3, <2>5
<1>9. ASSUME NEW u \in Links, Complete(u)
      PROVE  ImagesInv' /\ \A v \in Links : Moved(Place(Cache, v), Place(Cache', v))
  <2> DEFINE c == [Cache EXCEPT !.fetches = @ \ {u}, !.inflight = @ \ {u}, !.textures = @ \cup {u}]
  <2>1. /\ Redrawn(c, shows, Showing(wake[u])) /\ inline' \in BOOLEAN /\ cards' \in BOOLEAN
        /\ saved' = saved /\ u \in fetches \cap Pictures
    BY <1>1, <1>9 DEF Complete, device
  <2>2. Showing(wake[u]) \in SUBSET Wins
    BY DEF Showing
  <2>3. c.previews = previews /\ c.textures = textures \cup {u}
    BY DEF Cache
  <2>4. c = [Cache EXCEPT !.fetches = @ \ {u}, !.inflight = @ \ {u}, !.textures = @ \cup {u}]
    OBVIOUS
  <2> HIDE DEF c
  <2>5. Left(c, Showing(wake[u]))
    BY Zenon, <2>1, <2>3, <2>4, LeftByFetch
  <2>6. QED BY Zenon, <1>1, <1>4, <2>1, <2>2, <2>3, <2>5
<1>10. ASSUME NEW u \in Links, Fail(u)
       PROVE  ImagesInv' /\ \A v \in Links : Moved(Place(Cache, v), Place(Cache', v))
  <2> DEFINE c == [Cache EXCEPT !.fetches = @ \ {u}, !.inflight = @ \ {u}, !.failed = @ \cup {u}]
  <2>1. /\ Redrawn(c, shows, {}) /\ inline' \in BOOLEAN /\ cards' \in BOOLEAN
        /\ saved' = saved /\ u \in fetches \cap Pictures
    BY <1>1, <1>10 DEF Fail, device
  <2>2. {} \in SUBSET Wins
    OBVIOUS
  <2>3. c.previews = previews /\ c.textures = textures
    BY DEF Cache
  <2>4. c = [Cache EXCEPT !.fetches = @ \ {u}, !.inflight = @ \ {u}, !.failed = @ \cup {u}]
    OBVIOUS
  <2> HIDE DEF c
  <2>5. Left(c, {})
    BY Zenon, <2>1, <2>3, <2>4, LeftByFetch
  <2>6. QED BY Zenon, <1>1, <1>4, <2>1, <2>2, <2>3, <2>5
<1>11. ASSUME NEW g \in Links, NEW result \in {"nothing", "card"}, PageRead(g, result)
       PROVE  ImagesInv' /\ \A v \in Links : Moved(Place(Cache, v), Place(Cache', v))
  <2> DEFINE c == [Cache EXCEPT !.fetches = @ \ {g}, !.previews[g] = result]
             p == [previews EXCEPT ![g] = result]
  <2>1. /\ Redrawn(c, shows, Showing(wake[g])) /\ inline' \in BOOLEAN /\ cards' \in BOOLEAN
        /\ saved' = Saved(p) /\ g \in fetches \cap Pages
    BY <1>1, <1>11 DEF PageRead, device
  <2>2. Showing(wake[g]) \in SUBSET Wins
    BY DEF Showing
  <2>3. c = [Cache EXCEPT !.fetches = @ \ {g}, !.previews[g] = result]
    OBVIOUS
  <2> HIDE DEF c
  <2>4. Left(c, Showing(wake[g])) /\ c.previews = p
    BY Zenon, <2>1, <2>2, <2>3, LeftByPage
  <2> HIDE DEF p
  <2>5. /\ DOMAIN saved' \subseteq Pages
        /\ \A h \in DOMAIN saved' : saved'[h] \in {"nothing", "card"} /\ p[h] = saved'[h]
    BY <2>1 DEF Saved
  <2>6. QED BY Zenon, <1>1, <1>3, <2>1, <2>2, <2>4, <2>5
<1>12. ASSUME NEW u \in Links, FetchEnds(u)
       PROVE  ImagesInv' /\ \A v \in Links : Moved(Place(Cache, v), Place(Cache', v))
  <2>1. "card" \in {"nothing", "card"} /\ "nothing" \in {"nothing", "card"}
    OBVIOUS
  <2>2. QED BY Zenon, <1>9, <1>10, <1>11, <1>12, <2>1 DEF FetchEnds
<1>13. QED BY Zenon, <1>5, <1>6, <1>7, <1>8, <1>12 DEF ImagesNext

\* A restart forgets what was under way, and keeps some of what is saved.
LEMMA ImagesRestarted ==
  ASSUME ImagesInv, ImagesRestart, turns' \in 0..MaxTurns
  PROVE  ImagesInv' /\ \A u \in Links : Place(Cache', u) \in {"absent", Place(Cache, u)} \ {"underway"}
<1>1. PICK kept \in SUBSET DOMAIN saved :
        /\ textures' = {} /\ inflight' = {} /\ failed' = {} /\ fetches' = {}
        /\ previews' = [g \in Pages |-> IF g \in kept THEN saved[g] ELSE "absent"]
        /\ wake' = [u \in Links |-> "none"]
        /\ shows' = [w \in Wins |-> "none"] /\ drawn' = [w \in Wins |-> Blank]
        /\ saved' = [g \in kept |-> saved[g]]
        /\ inline' = inline /\ cards' = cards
  BY DEF ImagesRestart, device
<1>2. /\ inline \in BOOLEAN /\ cards \in BOOLEAN
      /\ Sound(Cache) /\ DOMAIN saved \subseteq Pages
      /\ \A g \in DOMAIN saved : saved[g] \in {"nothing", "card"} /\ previews[g] = saved[g]
  BY DEF ImagesInv, ArrivedIsDrawn, ImagesTypeOK
<1>3. /\ Cache'.textures = {} /\ Cache'.inflight = {} /\ Cache'.failed = {} /\ Cache'.fetches = {}
      /\ Cache'.previews = previews' /\ Cache.previews = previews
  BY <1>1 DEF Cache
<1>4. \A g \in Pages : IF g \in kept THEN previews'[g] = saved[g] /\ saved[g] \in {"nothing", "card"}
                                          /\ previews[g] = saved[g]
                       ELSE previews'[g] = "absent"
  BY <1>1, <1>2
<1>5. previews' \in [Pages -> {"absent", "slot", "nothing", "card"}]
  BY <1>1, <1>2
<1>6. Sound(Cache')
  <2>1. Cache' = [textures |-> {}, inflight |-> {}, failed |-> {}, previews |-> previews',
                  wake |-> [u \in Links |-> "none"], fetches |-> {}]
    BY <1>1 DEF Cache
  <2>2. Cache' \in Caches
    BY <1>5, <2>1 DEF Caches
  <2>3. \A g \in Pages : previews'[g] # "slot"
    BY <1>4
  <2>4. QED BY <1>3, <2>2, <2>3 DEF Sound
<1>7. ImagesTypeOK'
  <2>1. Blank \in [Links -> {"none", "loading", "image", "failed", "card", "bare"}]
    BY DEF Blank
  <2>2. drawn' \in [Wins -> [Links -> {"none", "loading", "image", "failed", "card", "bare"}]]
    BY <1>1, <2>1
  <2>3. QED BY <1>1, <1>2, <1>5, <2>2 DEF ImagesTypeOK, Links, Wins
<1>8. ImagesInv'
  <2>1. ArrivedIsDrawn'
    BY <1>1, <1>7 DEF ArrivedIsDrawn
  <2>2. DOMAIN saved' = kept /\ \A g \in kept : saved'[g] = saved[g]
    BY <1>1
  <2>3. QED BY <1>2, <1>4, <1>6, <2>1, <2>2 DEF ImagesInv
<1>9. ASSUME NEW u \in Links PROVE Place(Cache', u) \in {"absent", Place(Cache, u)} \ {"underway"}
  <2>1. CASE u \in Pages
    <3>1. CASE u \in kept
      <4>1. previews'[u] \in {"nothing", "card"} /\ previews[u] = previews'[u]
        BY <1>4, <2>1, <3>1
      <4>2. Place(Cache', u) = Place(Cache, u) /\ Place(Cache, u) # "underway"
        BY <1>2, <1>3, <1>6, <2>1, <4>1, PageIs
      <4>3. QED BY <4>2
    <3>2. CASE u \notin kept
      <4>1. Place(Cache', u) = "absent"
        BY <1>3, <1>4, <1>6, <2>1, <3>2, PageIs
      <4>2. QED BY <4>1
    <3>3. QED BY <3>1, <3>2
  <2>2. CASE u \notin Pages
    <3>1. Place(Cache', u) = "absent"
      BY <1>3, <2>2 DEF Place
    <3>2. QED BY <3>1
  <2>3. QED BY <2>1, <2>2
<1>10. QED BY <1>8, <1>9

--------------------------------------------------------------------------------
\* What is drawn and saved agrees with the caches in every reachable state.
LEMMA ImagesHold == Spec => []ImagesInv
<1>1. Init => ImagesInv
  <2>1. SUFFICES ASSUME ImagesInit PROVE ImagesInv
    BY DEF Init
  <2>2. /\ textures = {} /\ inflight = {} /\ failed = {} /\ fetches = {}
        /\ previews = [g \in Pages |-> "absent"] /\ saved = [g \in {} |-> "none"]
        /\ wake = [u \in Links |-> "none"]
        /\ inline \in BOOLEAN /\ cards \in BOOLEAN
        /\ shows = [w \in Wins |-> "none"] /\ drawn = [w \in Wins |-> Blank]
        /\ turns = 0 /\ MaxTurns \in Nat
    BY <2>1, ImagesAssumption DEF ImagesInit
  <2>3. Blank \in [Links -> {"none", "loading", "image", "failed", "card", "bare"}]
    BY DEF Blank
  <2>4. /\ drawn \in [Wins -> [Links -> {"none", "loading", "image", "failed", "card", "bare"}]]
        /\ previews \in [Pages -> {"absent", "slot", "nothing", "card"}]
        /\ wake \in [Links -> Convs \cup {"none"}] /\ shows \in [Wins -> Convs \cup {"none"}]
        /\ turns \in 0..MaxTurns
    BY <2>2, <2>3
  <2>5. ArrivedIsDrawn
    BY <2>2, <2>4 DEF ArrivedIsDrawn, ImagesTypeOK
  <2>6. Sound(Cache)
    <3>1. Cache \in Caches
      BY <2>2, <2>4 DEF Cache, Caches
    <3>2. \A g \in Pages : previews[g] # "slot"
      BY <2>2
    <3>3. QED BY <2>2, <3>1, <3>2 DEF Sound, Cache
  <2>7. DOMAIN saved = {}
    BY <2>2
  <2>8. QED BY <2>5, <2>6, <2>7 DEF ImagesInv
<1>2. ImagesInv /\ [Next]_mediaVars => ImagesInv'
  <2>1. SUFFICES ASSUME ImagesInv, [Next]_mediaVars PROVE ImagesInv'
    OBVIOUS
  <2>2. ImagesNext \/ ImagesRestart \/ UNCHANGED imageVars
    BY <2>1, PartsStep DEF mediaVars
  <2>3. turns' \in 0..MaxTurns
    BY <2>1, TurnsAreCounted DEF ImagesInv, ArrivedIsDrawn, ImagesTypeOK
  <2>4. CASE UNCHANGED imageVars
    BY <2>1, <2>4 DEF imageVars, caches, device, screens, ImagesInv, ArrivedIsDrawn, ImagesTypeOK, Cache
  <2>5. QED BY <2>1, <2>2, <2>3, <2>4, ImagesStep, ImagesRestarted
<1>3. QED BY <1>1, <1>2, PTL DEF Spec

\* An image that has come for the conversation that a window shows is drawn there
\* (media.rs fetch, window.rs embed_media, embed_previews): it never says "loading"
\* of it, nor shows a card without it.
THEOREM WhatCameIsDrawn == Spec => []ArrivedIsDrawn
<1>1. ImagesInv => ArrivedIsDrawn
  BY DEF ImagesInv
<1>2. QED BY <1>1, ImagesHold, PTL

\* What is read from the caches is the place of each link.
SlotOf(p, i, t, f) == [u \in Links |->
  IF u \in Pages THEN CASE p[u] = "absent" -> "absent" [] p[u] = "slot" -> "underway"
                         [] p[u] = "nothing" -> "failed" [] p[u] = "card" -> "have"
  ELSE IF u \in i THEN "underway" ELSE IF u \in t THEN "have" ELSE IF u \in f THEN "failed" ELSE "absent"]

LEMMA SlotIs ==
  ASSUME NEW c, Sound(c)
  PROVE  /\ SlotOf(c.previews, c.inflight, c.textures, c.failed) \in [Links -> Places]
         /\ \A u \in Links : SlotOf(c.previews, c.inflight, c.textures, c.failed)[u] = Place(c, u)
<1> DEFINE Here(u) ==
             IF u \in Pages THEN CASE c.previews[u] = "absent" -> "absent" [] c.previews[u] = "slot" -> "underway"
                                    [] c.previews[u] = "nothing" -> "failed" [] c.previews[u] = "card" -> "have"
             ELSE IF u \in c.inflight THEN "underway" ELSE IF u \in c.textures THEN "have"
             ELSE IF u \in c.failed THEN "failed" ELSE "absent"
           s == SlotOf(c.previews, c.inflight, c.textures, c.failed)
<1>1. ASSUME NEW u \in Links PROVE Here(u) = Place(c, u)
  BY DEF Place
<1>2. s = [u \in Links |-> Here(u)]
  BY Zenon DEF SlotOf
<1>3. \A u \in Links : Place(c, u) \in Places
  BY PlaceIs
<1> HIDE DEF Here, s
<1>4. s = [u \in Links |-> Place(c, u)]
  BY <1>1, <1>2
<1>5. s \in [Links -> Places] /\ \A u \in Links : s[u] = Place(c, u)
  BY <1>3, <1>4
<1>6. QED BY <1>5 DEF s

\* The two caches, with the file of one, implement the abstract cache step by step
\* (media.rs ImageCache, app.rs fetch_preview, load_previews): a link is fetched
\* once at a time, what has come is neither lost nor asked for again while the
\* program runs, and a restart keeps nothing that was under way.
THEOREM CachesFetchOnce == Spec => FetchSlots!Init /\ [][FetchSlots!Fetch \/ FetchSlots!Forget]_Slot
<1>1. Init /\ ImagesInv => FetchSlots!Init
  <2>1. SUFFICES ASSUME Init, ImagesInv PROVE Slot = [u \in Links |-> "absent"]
    BY DEF FetchSlots!Init
  <2>2. /\ textures = {} /\ inflight = {} /\ failed = {} /\ previews = [g \in Pages |-> "absent"]
    BY <2>1 DEF Init, ImagesInit
  <2>3. ASSUME NEW u \in Links PROVE Place(Cache, u) = "absent"
    <3>1. CASE u \in Pages
      <4>1. Cache.previews[u] = "absent" /\ Sound(Cache)
        BY <2>1, <2>2, <3>1 DEF Cache, ImagesInv
      <4>2. QED BY <3>1, <4>1, PageIs
    <3>2. CASE u \notin Pages
      BY <2>2, <3>2 DEF Place, Cache
    <3>3. QED BY <3>1, <3>2
  <2>4. Slot \in [Links -> Places] /\ \A u \in Links : Slot[u] = Place(Cache, u)
    <3>1. Slot = SlotOf(Cache.previews, Cache.inflight, Cache.textures, Cache.failed)
      <4>1. Slot = SlotOf(previews, inflight, textures, failed)
        BY Zenon DEF Slot, SlotOf
      <4>2. /\ Cache.previews = previews /\ Cache.inflight = inflight
            /\ Cache.textures = textures /\ Cache.failed = failed
        BY DEF Cache
      <4>3. QED BY <4>1, <4>2
    <3>2. Sound(Cache)
      BY <2>1 DEF ImagesInv
    <3>3. QED BY <3>1, <3>2, SlotIs
  <2>5. QED BY <2>3, <2>4
<1>2. ImagesInv /\ ImagesInv' /\ [Next]_mediaVars => [FetchSlots!Fetch \/ FetchSlots!Forget]_Slot
  <2>1. SUFFICES ASSUME ImagesInv, ImagesInv', [Next]_mediaVars
                 PROVE  FetchSlots!Fetch \/ FetchSlots!Forget \/ Slot' = Slot
    OBVIOUS
  <2>2. ImagesNext \/ ImagesRestart \/ UNCHANGED imageVars
    BY <2>1, PartsStep DEF mediaVars
  <2>3. turns' \in 0..MaxTurns
    BY <2>1, TurnsAreCounted DEF ImagesInv, ArrivedIsDrawn, ImagesTypeOK
  <2>4. Slot \in [Links -> Places] /\ \A u \in Links : Slot[u] = Place(Cache, u)
    <3>1. Slot = SlotOf(Cache.previews, Cache.inflight, Cache.textures, Cache.failed)
      <4>1. Slot = SlotOf(previews, inflight, textures, failed)
        BY Zenon DEF Slot, SlotOf
      <4>2. /\ Cache.previews = previews /\ Cache.inflight = inflight
            /\ Cache.textures = textures /\ Cache.failed = failed
        BY DEF Cache
      <4>3. QED BY <4>1, <4>2
    <3>2. Sound(Cache)
      BY <2>1 DEF ImagesInv
    <3>3. QED BY <3>1, <3>2, SlotIs
  <2>5. Slot' \in [Links -> Places] /\ \A u \in Links : Slot'[u] = Place(Cache', u)
    <3>1. Slot' = SlotOf(Cache'.previews, Cache'.inflight, Cache'.textures, Cache'.failed)
      <4>1. Slot' = SlotOf(previews', inflight', textures', failed')
        BY Zenon DEF Slot, SlotOf
      <4>2. /\ Cache'.previews = previews' /\ Cache'.inflight = inflight'
            /\ Cache'.textures = textures' /\ Cache'.failed = failed'
        BY DEF Cache
      <4>3. QED BY <4>1, <4>2
    <3>2. Sound(Cache')
      BY <2>1 DEF ImagesInv
    <3>3. QED BY <3>1, <3>2, SlotIs
  <2>6. CASE ImagesNext
    <3>1. \A u \in Links : Moved(Place(Cache, u), Place(Cache', u))
      BY <2>1, <2>3, <2>6, ImagesStep
    <3>2. \A u \in Links : Moved(Slot[u], Slot'[u])
      BY <2>4, <2>5, <3>1
    <3>3. FetchSlots!Fetch
      BY <2>5, <3>2 DEF FetchSlots!Fetch, FetchSlots!Slots, Places, Moved
    <3>4. QED BY <3>3
  <2>7. CASE ImagesRestart
    <3>1. \A u \in Links : Place(Cache', u) \in {"absent", Place(Cache, u)} \ {"underway"}
      BY <2>1, <2>3, <2>7, ImagesRestarted
    <3>2. \A u \in Links : Slot'[u] \in {"absent", Slot[u]} \ {"underway"}
      BY <2>4, <2>5, <3>1
    <3>3. FetchSlots!Forget
      BY <2>5, <3>2 DEF FetchSlots!Forget, FetchSlots!Slots, Places
    <3>4. QED BY <3>3
  <2>8. CASE UNCHANGED imageVars
    <3>1. previews' = previews /\ inflight' = inflight /\ textures' = textures /\ failed' = failed
      BY <2>8 DEF imageVars, caches
    <3>2. Slot' = Slot
      BY <3>1 DEF Slot
    <3>3. QED BY <3>2
  <2>9. QED BY <2>2, <2>6, <2>7, <2>8
<1>3. QED BY <1>1, <1>2, ImagesHold, PTL DEF Spec

================================================================================
