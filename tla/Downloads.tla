-------------------------------- MODULE Downloads --------------------------------
(***************************************************************************)
(* Video and audio fetched to disk to be played (scully app.rs fetch_media,    *)
(* prune_media_cache; window.rs deferred_player): the poster and its button,   *)
(* the download that writes to a partial file and renames it, and the pruning  *)
(* of the directory.                                                          *)
(*                                                                          *)
(* One address, shown by several posters.  A file is the set of its chunks;    *)
(* a path names a file, which whoever has it open may go on writing.           *)
(***************************************************************************)
EXTENDS Naturals, FiniteSets

CONSTANTS
  Posters,    \* posters on screen, each in a window of its own
  MaxTasks,   \* bound: downloads ever started
  Chunks,     \* chunks of the file
  MaxFaults   \* bound: redraws, faults, prunings of other downloads, restarts

ASSUME DownloadsAssumption ==
  /\ IsFiniteSet(Posters)
  /\ MaxTasks \in Nat \ {0} /\ Chunks \in Nat \ {0} /\ MaxFaults \in Nat

VARIABLES
  player,    \* of each poster: poster, fetching, retry, playing
  task,      \* the downloads
  target,    \* the file in the cache, 0 for none
  part,      \* the partial file
  content,   \* the chunks of each file
  shared,    \* history: files that a second download has opened or renamed
  faults

disk == <<target, part, content>>
downloadVars == <<player, task, disk, shared, faults>>

Tasks == 1..MaxTasks
All == 1..Chunks
Fault == faults < MaxFaults /\ faults' = faults + 1

\* What is left of a download: who waits for it, its file, the next chunk
Idle == [state |-> "idle", poster |-> "none", file |-> 0, next |-> 1]
Ended(t, result) == [task EXCEPT ![t].state = result]
Over == [Idle EXCEPT !.state = "over"]

--------------------------------------------------------------------------------
(* The poster *)

\* The button, "play" or "retry": what is cached is played at once.
Play(p) ==
  /\ player[p] \in {"poster", "retry"}
  /\ IF target # 0 THEN player' = [player EXCEPT ![p] = "playing"] /\ UNCHANGED task
     ELSE \E t \in Tasks :
            /\ task[t].state = "idle" /\ \A u \in Tasks : u < t => task[u].state # "idle"
            /\ task' = [task EXCEPT ![t].state = "asked", ![t].poster = p]
            /\ player' = [player EXCEPT ![p] = "fetching"]
  /\ UNCHANGED <<disk, shared, faults>>

\* A redraw of the conversation makes a new poster; the download goes on.
PosterRedrawn(p) ==
  /\ player[p] # "poster"
  /\ player' = [player EXCEPT ![p] = "poster"]
  /\ task' = [t \in Tasks |-> IF task[t].poster = p THEN [task[t] EXCEPT !.poster = "none"]
                              ELSE task[t]]
  /\ Fault
  /\ UNCHANGED <<disk, shared>>

--------------------------------------------------------------------------------
(* The download *)

\* mutant: the chunks go to the final name
Create(t) ==
  /\ task[t].state = "asked"
  /\ target' = t /\ content' = [content EXCEPT ![t] = {}]
  /\ task' = [task EXCEPT ![t].state = "writing", ![t].file = t]
  /\ UNCHANGED <<player, part, shared, faults>>

\* An answer with a body: the partial file is created, or emptied if there is one.
OpenPart(t) ==
  LET file == IF part = 0 THEN t ELSE part IN
  /\ task[t].state = "asked"
  /\ part' = file /\ content' = [content EXCEPT ![file] = {}]
  /\ task' = [task EXCEPT ![t].state = "writing", ![t].file = file]
  /\ shared' = IF part # 0 /\ \E u \in Tasks : task[u].state = "writing" /\ task[u].file = part
               THEN shared \cup {part} ELSE shared
  /\ UNCHANGED <<player, target, faults>>

WriteChunk(t) ==
  /\ task[t].state = "writing" /\ task[t].next \in All
  /\ content' = [content EXCEPT ![task[t].file] = @ \cup {task[t].next}]
  /\ task' = [task EXCEPT ![t].next = @ + 1]
  /\ UNCHANGED <<player, target, part, shared, faults>>

\* Refused, timed out or broken off; a partial file stays where it is.
Breaks(t) ==
  /\ task[t].state \in {"asked", "writing"}
  /\ task' = Ended(t, "failed")
  /\ Fault
  /\ UNCHANGED <<player, disk, shared>>

\* More than the cap has come: what is at the partial name goes.
TooLarge(t) ==
  /\ task[t].state = "writing" /\ task[t].next > 1
  /\ part' = 0
  /\ task' = Ended(t, "failed")
  /\ Fault
  /\ UNCHANGED <<player, target, content, shared>>

\* Whatever is at the partial name is renamed, or nothing is there any more.
Rename(t) ==
  /\ task[t].state = "writing" /\ task[t].next \notin All
  /\ IF part = 0 THEN task' = Ended(t, "failed") /\ UNCHANGED <<target, part, shared>>
     ELSE /\ task' = Ended(t, "done") /\ target' = part /\ part' = 0
          /\ shared' = IF part # task[t].file THEN shared \cup {part} ELSE shared
  /\ UNCHANGED <<player, content, faults>>

\* The result on the main thread: the directory is pruned, oldest files first,
\* which may be a partial file that has been waiting; then the poster hears.
Succeeded(t) ==
  /\ task[t].state = "done"
  /\ part' \in {part, 0}
  /\ task' = [task EXCEPT ![t] = Over]
  /\ player' = [p \in Posters |-> IF p = task[t].poster THEN "playing" ELSE player[p]]
  /\ UNCHANGED <<target, content, shared, faults>>

\* mutant: the button keeps saying that it is fetching
FailedQuietly(t) ==
  /\ task[t].state = "failed"
  /\ task' = [task EXCEPT ![t] = Over]
  /\ UNCHANGED <<player, disk, shared, faults>>

Failed(t) ==
  /\ task[t].state = "failed"
  /\ task' = [task EXCEPT ![t] = Over]
  /\ player' = [p \in Posters |-> IF p = task[t].poster THEN "retry" ELSE player[p]]
  /\ UNCHANGED <<disk, shared, faults>>

\* A download of another address prunes the directory.
PruneElsewhere ==
  /\ target' \in {target, 0} /\ part' \in {part, 0}
  /\ <<target', part'>> # <<target, part>>
  /\ Fault
  /\ UNCHANGED <<player, task, content, shared>>

\* A crash, or an end and a new start: what is on disk stays.
DownloadsRestart ==
  /\ player' = [p \in Posters |-> "poster"]
  /\ task' = [t \in Tasks |-> IF task[t].state = "idle" THEN task[t] ELSE Over]
  /\ UNCHANGED <<disk, shared>>

--------------------------------------------------------------------------------
DownloadsInit ==
  /\ player = [p \in Posters |-> "poster"]
  /\ task = [t \in Tasks |-> Idle]
  /\ target = 0 /\ part = 0 /\ content = [t \in Tasks |-> {}]
  /\ shared = {} /\ faults = 0

DownloadsNext ==
  \/ PruneElsewhere
  \/ \E p \in Posters : Play(p) \/ PosterRedrawn(p)
  \/ \E t \in Tasks : \/ OpenPart(t) \/ WriteChunk(t) \/ Rename(t)
                      \/ Breaks(t) \/ TooLarge(t) \/ Succeeded(t) \/ Failed(t)

--------------------------------------------------------------------------------
(* Properties *)

DownloadsTypeOK ==
  /\ player \in [Posters -> {"poster", "fetching", "retry", "playing"}]
  /\ task \in [Tasks -> [state : {"idle", "asked", "writing", "done", "failed", "over"},
                         poster : Posters \cup {"none"}, file : 0..MaxTasks, next : 1..(Chunks + 1)]]
  /\ target \in 0..MaxTasks /\ part \in 0..MaxTasks
  /\ content \in [Tasks -> SUBSET All] /\ shared \subseteq Tasks
  /\ faults \in 0..MaxFaults

\* What the cache holds is the whole file, whatever broke off, was pruned or
\* restarted in between; unless another download emptied or renamed it while it
\* was being written (app.rs:1084).
CachedIsWhole == target \notin {0} \cup shared => content[target] = All

\* A button that says "fetching" has a download behind it that will report to
\* it: otherwise it would be dead until the conversation is drawn again.
FetchingHasTask ==
  /\ DownloadsTypeOK
  /\ \A p \in Posters : player[p] = "fetching" =>
       \E t \in Tasks : task[t].poster = p /\ task[t].state \notin {"idle", "over"}
================================================================================
