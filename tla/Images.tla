--------------------------------- MODULE Images ---------------------------------
(***************************************************************************)
(* Images and link previews (scully media.rs, app.rs, window.rs): the texture  *)
(* cache with its fetches under way and failed, the preview cache with its     *)
(* file, and what the windows have drawn of both.                             *)
(*                                                                          *)
(* Every conversation shows every link: the case that counts is one link in    *)
(* two conversations, or in two windows.                                      *)
(***************************************************************************)
EXTENDS Naturals, FiniteSets

CONSTANTS
  Convs,      \* conversations
  Pictures,   \* links to images
  Pages,      \* links to pages
  Thumb,      \* the image that a page's card shows
  Screens,    \* bound: chat windows, 1..Screens
  MaxTurns    \* bound: what users, faults and restarts do

ASSUME ImagesAssumption ==
  /\ IsFiniteSet(Convs) /\ Convs # {} /\ Convs \cap {"none"} = {}
  /\ Thumb \in Pictures /\ Pictures \cap Pages = {}
  /\ Screens \in Nat \ {0} /\ MaxTurns \in Nat

VARIABLES
  textures,   \* ImageCache
  inflight,
  failed,
  previews,   \* of each page: absent, the slot of a fetch, nothing usable, or a card
  saved,      \* previews.json: pages with a result, and the result
  wake,       \* the conversation that a fetch under way redraws
  fetches,    \* what the runtime is fetching
  inline,     \* device settings: show images, fetch previews
  cards,
  shows,      \* the conversation each window shows
  drawn,      \* what it has drawn for each link
  turns

caches == <<textures, inflight, failed, previews, wake, fetches>>
device == <<inline, cards>>
screens == <<shows, drawn>>
imageVars == <<caches, saved, device, screens, turns>>

Links == Pictures \cup Pages
Wins == 1..Screens
Blank == [u \in Links |-> "none"]
Turn == turns < MaxTurns /\ turns' = turns + 1

--------------------------------------------------------------------------------
(* Rendering *)

Cache == [textures |-> textures, inflight |-> inflight, failed |-> failed,
          previews |-> previews, wake |-> wake, fetches |-> fetches]

\* ImageCache::begin, and the fetch if it says so. (fetch_image returns without one
\* if there is no rest client; what is drawn was loaded with one, and it is not
\* taken away.)
Ask(c, wanted, k) ==
  LET new == wanted \ (c.textures \cup c.failed \cup c.inflight)
  IN [c EXCEPT !.inflight = @ \cup new, !.fetches = @ \cup new,
               !.wake = [u \in Links |-> IF u \in new THEN k ELSE c.wake[u]]]

\* fetch_preview: the slot is reserved before the fetch starts.
AskPages(c, k) ==
  LET new == {g \in Pages : c.previews[g] = "absent"}
  IN [c EXCEPT !.previews = [g \in Pages |-> IF g \in new THEN "slot" ELSE c.previews[g]],
               !.fetches = @ \cup new,
               !.wake = [u \in Links |-> IF u \in new THEN k ELSE c.wake[u]]]

\* embed_media and embed_previews for the rows of conversation k
Embedded(c, k) ==
  LET c1 == Ask(c, (IF inline' THEN Pictures ELSE {})
                   \cup (IF cards' /\ \E g \in Pages : c.previews[g] = "card" THEN {Thumb} ELSE {}), k)
  IN IF cards' THEN AskPages(c1, k) ELSE c1

PictureOf(c, u) ==
  IF ~inline' THEN "none"
  ELSE IF u \in c.textures THEN "image" ELSE IF u \in c.failed THEN "failed" ELSE "loading"

CardOf(c, g) ==
  IF ~cards' \/ c.previews[g] # "card" THEN "none"
  ELSE IF Thumb \in c.textures THEN "card" ELSE "bare"

DrawnOf(c) == [u \in Links |-> IF u \in Pictures THEN PictureOf(c, u) ELSE CardOf(c, u)]

\* A full redraw of the windows ws: the first asks for all that they show.
Redrawn(c, on, ws) ==
  \E d \in {IF ws = {} THEN c ELSE Embedded(c, on[CHOOSE w \in ws : \A v \in ws : w <= v])} :
    /\ textures' = d.textures /\ inflight' = d.inflight /\ failed' = d.failed
    /\ previews' = d.previews /\ wake' = d.wake /\ fetches' = d.fetches
    /\ shows' = on
    /\ drawn' = [w \in Wins |-> IF w \in ws THEN DrawnOf(d) ELSE drawn[w]]

\* BufferChanged(k): the windows that show k
Showing(k) == {w \in Wins : shows[w] = k}

--------------------------------------------------------------------------------
(* The user *)

Open(w, k) ==
  /\ shows[w] # k
  /\ UNCHANGED <<device, saved>>
  /\ Redrawn(Cache, [shows EXCEPT ![w] = k], {w})
  /\ Turn

\* Rows arrived that are not simply appended: the whole conversation is drawn.
Redraw(w) ==
  /\ shows[w] \in Convs
  /\ UNCHANGED <<device, saved>>
  /\ Redrawn(Cache, shows, {w})
  /\ Turn

\* populate_device: one switch, then SettingsChanged for every window
Toggle ==
  /\ \/ inline' = ~inline /\ UNCHANGED cards
     \/ cards' = ~cards /\ UNCHANGED inline
  /\ UNCHANGED saved
  /\ Redrawn(Cache, shows, {w \in Wins : shows[w] \in Convs})
  /\ Turn

\* A click on the note "could not be loaded"
Retry(w, u) ==
  /\ u \in Pictures /\ drawn[w][u] = "failed"
  /\ UNCHANGED <<device, saved>>
  /\ Redrawn(Ask([Cache EXCEPT !.failed = @ \ {u}], {u}, shows[w]), shows, {w})
  /\ Turn

--------------------------------------------------------------------------------
(* Fetches *)

\* mutant: nobody is told
CompleteSilently(u) ==
  /\ u \in fetches \cap Pictures
  /\ UNCHANGED <<device, saved, turns>>
  /\ Redrawn([Cache EXCEPT !.fetches = @ \ {u}, !.inflight = @ \ {u}, !.textures = @ \cup {u}],
             shows, {})

\* The bytes are here and they are an image.
Complete(u) ==
  /\ u \in fetches \cap Pictures
  /\ UNCHANGED <<device, saved, turns>>
  /\ Redrawn([Cache EXCEPT !.fetches = @ \ {u}, !.inflight = @ \ {u}, !.textures = @ \cup {u}],
             shows, Showing(wake[u]))

\* Refused, too large, not an image, or 60 seconds are over: no window is told.
Fail(u) ==
  /\ u \in fetches \cap Pictures
  /\ UNCHANGED <<device, saved, turns>>
  /\ Redrawn([Cache EXCEPT !.fetches = @ \ {u}, !.inflight = @ \ {u}, !.failed = @ \cup {u}],
             shows, {})

Saved(p) == [g \in {h \in Pages : p[h] \in {"nothing", "card"}} |-> p[g]]

\* mutant: a page that could not be read leaves its slot reserved
PageCard(g, result) ==
  /\ g \in fetches \cap Pages /\ result \in {"nothing", "card"}
  /\ UNCHANGED <<device, turns>>
  /\ LET p == IF result = "card" THEN [previews EXCEPT ![g] = "card"] ELSE previews IN
     /\ saved' = Saved(p)
     /\ Redrawn([Cache EXCEPT !.fetches = @ \ {g}, !.previews = p], shows, Showing(wake[g]))

\* Whatever went wrong, the slot holds a result from now on, and it is saved.
PageRead(g, result) ==
  /\ g \in fetches \cap Pages /\ result \in {"nothing", "card"}
  /\ saved' = Saved([previews EXCEPT ![g] = result])
  /\ UNCHANGED <<device, turns>>
  /\ Redrawn([Cache EXCEPT !.fetches = @ \ {g}, !.previews[g] = result], shows, Showing(wake[g]))

\* A crash, or an end and a new start; what is older than a week, or beyond
\* the newest 500, is left out (load_previews).
ImagesRestart ==
  \E kept \in SUBSET DOMAIN saved :
    /\ textures' = {} /\ inflight' = {} /\ failed' = {} /\ fetches' = {}
    /\ previews' = [g \in Pages |-> IF g \in kept THEN saved[g] ELSE "absent"]
    /\ wake' = [u \in Links |-> "none"]
    /\ shows' = [w \in Wins |-> "none"] /\ drawn' = [w \in Wins |-> Blank]
    /\ saved' = [g \in kept |-> saved[g]]
    /\ UNCHANGED device

--------------------------------------------------------------------------------
ImagesInit ==
  /\ textures = {} /\ inflight = {} /\ failed = {} /\ fetches = {}
  /\ previews = [g \in Pages |-> "absent"] /\ saved = [g \in {} |-> "none"]
  /\ wake = [u \in Links |-> "none"]
  /\ inline \in BOOLEAN /\ cards \in BOOLEAN
  /\ shows = [w \in Wins |-> "none"] /\ drawn = [w \in Wins |-> Blank]
  /\ turns = 0

FetchEnds(u) ==
  \/ Complete(u) \/ Fail(u)
  \/ PageRead(u, "card") \/ PageRead(u, "nothing")

ImagesNext ==
  \/ Toggle
  \/ \E w \in Wins : \/ Redraw(w) \/ \E k \in Convs : Open(w, k)
                     \/ \E u \in Pictures : Retry(w, u)
  \/ \E u \in Links : FetchEnds(u)

--------------------------------------------------------------------------------
(* Properties *)

ImagesTypeOK ==
  /\ textures \subseteq Pictures /\ inflight \subseteq Pictures /\ failed \subseteq Pictures
  /\ fetches \subseteq Links
  /\ previews \in [Pages -> {"absent", "slot", "nothing", "card"}]
  /\ wake \in [Links -> Convs \cup {"none"}]
  /\ inline \in BOOLEAN /\ cards \in BOOLEAN
  /\ shows \in [Wins -> Convs \cup {"none"}]
  /\ drawn \in [Wins -> [Links -> {"none", "loading", "image", "failed", "card", "bare"}]]
  /\ turns \in 0..MaxTurns

\* An image that has come for the conversation a window shows is drawn there:
\* "loading" is then neither shown for it, nor a card without it.  Not so in a
\* window whose conversation the fetch was not started for.
ArrivedIsDrawn ==
  /\ ImagesTypeOK
  /\ \A w \in Wins, u \in textures :
       wake[u] = shows[w] /\ shows[w] # "none" =>
         drawn[w][u] # "loading" /\ (u = Thumb => \A g \in Pages : drawn[w][g] # "bare")

\* What the caches say of each link
Slot == [u \in Links |->
  IF u \in Pages THEN CASE previews[u] = "absent" -> "absent" [] previews[u] = "slot" -> "underway"
                         [] previews[u] = "nothing" -> "failed" [] previews[u] = "card" -> "have"
  ELSE IF u \in inflight THEN "underway" ELSE IF u \in textures THEN "have"
  ELSE IF u \in failed THEN "failed" ELSE "absent"]

\* The two caches, with their file, their restarts and the rendering that drives
\* them, keep the promise of Fetching: each link is fetched by one request at a
\* time, what has come is never lost or asked for again while the program runs,
\* and no fetch is under way for ever, even if the host accepts and then says
\* nothing, or the program ends while it waits.
FetchSlots == INSTANCE Fetching WITH Addresses <- Links, slot <- Slot
CachesKeepPromise == FetchSlots!Spec
================================================================================
