---------------------------------- MODULE Lookups ----------------------------------
(***************************************************************************)
(* What the user looks up at the server: a network's list of channels (scully    *)
(* chanlist.rs) and messages (finder.rs open_search), with the parts of app.rs   *)
(* that ask and keep the answers.                                             *)
(*                                                                          *)
(* There is one page of channels, one "still fetching" and one set of results,   *)
(* whatever windows are open.  Answers about channels come in order, those to   *)
(* searches in any order.  The client's queue outlives a connection, and so do   *)
(* the answers that were received on it; what was on the wire does not.         *)
(***************************************************************************)
EXTENDS Naturals, FiniteSets, Sequences, SequencesExt

CONSTANTS
  Networks,
  Filters,     \* what is typed to filter a list
  Unfiltered,       \* the filter of a window just opened
  MaxVerbs,    \* bound: verbs sent
  MaxSearches  \* bound: searches

ASSUME LookupsAssumption ==
  /\ Unfiltered \in Filters
  /\ {MaxVerbs, MaxSearches} \subseteq Nat

VARIABLES
  linked,    \* connected
  listing,   \* networks for which the server is fetching a list
  queries,   \* verbs that the server has not answered
  taken,     \* how many of these the writer has taken from the client's queue
  frames,    \* answers on their way back
  page,      \* chanlist: whose rows, to which filter
  loading,   \* chanlist_loading
  browser,   \* what each network's window is filtered by, or Closed
  queried,     \* the verbs about channels: <<networks, the last query's, how many, one since was lost>>
  token,     \* search_token
  sought,    \* searches not answered
  reached,   \* the last search the writer has taken
  finder     \* the search window: its last search if that can be answered, and whose results it lists

lookupVars ==
  <<linked, listing, queries, taken, frames, page, loading, browser, queried, token, sought, reached,
    finder>>

Closed == "closed"
NoPage == "no page"

--------------------------------------------------------------------------------
(* The list of channels *)

\* A verb is queued, whether the connection is up or not.
Sent(verb) ==
  /\ queried.count < MaxVerbs
  /\ queries' = Append(queries, verb)
  /\ queried' = [networks |-> queried.networks \cup {verb.network},
               last |-> IF verb.kind = "search" THEN verb.network ELSE queried.last,
               count |-> queried.count + 1,
               lost |-> verb.kind # "search" /\ queried.lost]

\* mutant: an emptied filter asks for nothing
ChanlistSearchNonempty(n, filter) ==
  IF filter = Unfiltered /\ browser[n] # Closed THEN UNCHANGED <<queries, queried>>
  ELSE Sent([kind |-> "search", network |-> n, filter |-> filter])

ChanlistSearch(n, filter) == Sent([kind |-> "search", network |-> n, filter |-> filter])

\* The window shows at once the page that is there, another network's maybe.
OpenBrowser(n) ==
  /\ browser[n] = Closed
  /\ browser' = [browser EXCEPT ![n] = Unfiltered]
  /\ ChanlistSearch(n, Unfiltered)
  /\ UNCHANGED <<linked, listing, taken, frames, page, loading, token, sought, reached, finder>>

TypeFilter(n, filter) ==
  /\ browser[n] \notin {Closed, filter}
  /\ browser' = [browser EXCEPT ![n] = filter]
  /\ ChanlistSearch(n, filter)
  /\ UNCHANGED <<linked, listing, taken, frames, page, loading, token, sought, reached, finder>>

\* The only way to have the server ask the network itself.
Refresh(n) ==
  /\ browser[n] # Closed
  /\ loading' = TRUE
  /\ Sent([kind |-> "list", network |-> n])
  /\ UNCHANGED <<linked, listing, taken, frames, page, browser, token, sought, reached, finder>>

\* A row is joined, or Escape is pressed.
CloseBrowser(n) ==
  /\ browser[n] # Closed
  /\ browser' = [browser EXCEPT ![n] = Closed]
  /\ UNCHANGED <<linked, listing, queries, taken, frames, page, loading, queried, token, sought, reached, finder>>

Progress(n, busy) == [kind |-> "state", network |-> n, busy |-> busy]

\* The writer of the session that is open takes the next verb.
Take ==
  /\ linked
  /\ taken < Len(queries)
  /\ taken' = taken + 1
  /\ UNCHANGED <<linked, listing, queries, frames, page, loading, browser, queried, token, sought,
                 reached, finder>>

Answer ==
  /\ taken > 0
  /\ taken' = taken - 1
  /\ queries' = Tail(queries)
  /\ LET verb == Head(queries)
         n == verb.network
     IN  IF verb.kind = "search"
         THEN /\ frames' = Append(frames, [kind |-> "rows", network |-> n, filter |-> verb.filter,
                                           busy |-> n \in listing])
              /\ UNCHANGED listing
         ELSE /\ listing' = listing \cup {n}
              /\ frames' = Append(frames, Progress(n, TRUE))
  /\ UNCHANGED <<linked, page, loading, browser, queried, token, sought, reached, finder>>

ListEnds(n) ==
  /\ n \in listing
  /\ listing' = listing \ {n}
  /\ frames' = IF linked THEN Append(frames, Progress(n, FALSE)) ELSE frames
  /\ UNCHANGED <<linked, queries, taken, page, loading, browser, queried, token, sought, reached, finder>>

\* Neither the network nor the filter of an answer is looked at.
Hear ==
  /\ frames # <<>>
  /\ frames' = Tail(frames)
  /\ LET frame == Head(frames)
     IN  /\ loading' = frame.busy
         /\ page' = IF frame.kind = "rows"
                    THEN [network |-> frame.network, filter |-> frame.filter] ELSE page
  /\ UNCHANGED <<linked, listing, queries, taken, browser, queried, token, sought, reached, finder>>

--------------------------------------------------------------------------------
(* Searching messages *)

OpenFinder ==
  /\ ~finder.open
  /\ finder' = [open |-> TRUE, last |-> 0, listed |-> 0]
  /\ UNCHANGED <<linked, listing, queries, taken, frames, page, loading, browser, queried, token, sought, reached>>

\* Return in the entry; fewer than two characters are not sent.
Search ==
  /\ finder.open /\ token < MaxSearches
  /\ token' = token + 1
  /\ sought' = sought \cup {token + 1}
  /\ finder' = [finder EXCEPT !.last = token + 1]
  /\ UNCHANGED <<linked, listing, queries, taken, frames, page, loading, browser, queried, reached>>

TakeSearch ==
  /\ linked
  /\ reached < token
  /\ reached' = reached + 1
  /\ UNCHANGED <<linked, listing, queries, taken, frames, page, loading, browser, queried, token,
                 sought, finder>>

\* The window open now makes its rows again from the results kept.
Rendered(t) == IF finder.open THEN [finder EXCEPT !.listed = t] ELSE finder

\* mutant: whatever comes is listed
FoundAny(t) ==
  /\ t \in sought /\ t <= reached
  /\ sought' = sought \ {t}
  /\ finder' = Rendered(t)
  /\ UNCHANGED <<linked, listing, queries, taken, frames, page, loading, browser, queried, token, reached>>

\* An answer to a search that another one has superseded is dropped; one to a
\* search of a window closed since is listed in the window open now.
Found(t) ==
  /\ t \in sought /\ t <= reached
  /\ sought' = sought \ {t}
  /\ finder' = IF t >= token THEN Rendered(t) ELSE finder
  /\ UNCHANGED <<linked, listing, queries, taken, frames, page, loading, browser, queried, token, reached>>

\* A row is activated, or Escape is pressed.
CloseFinder ==
  /\ finder.open
  /\ finder' = [open |-> FALSE, last |-> 0, listed |-> 0]
  /\ UNCHANGED <<linked, listing, queries, taken, frames, page, loading, browser, queried, token, sought, reached>>

--------------------------------------------------------------------------------
\* What the writer had taken is lost, and so are the answers still on the wire,
\* and nothing is asked again; of what was being fetched nothing more is heard.
\* A query that is still queued makes up for that.
LoseConnection ==
  /\ linked
  /\ linked' = FALSE
  /\ queries' = SubSeq(queries, taken + 1, Len(queries)) /\ taken' = 0
  /\ \E heard \in 0..Len(frames) :
       /\ frames' = SubSeq(frames, 1, heard)
       /\ LET gone == taken > 0 \/ heard < Len(frames) \/ listing # {}
              queued == \E i \in DOMAIN queries' : queries'[i].kind = "search"
          IN  queried' = [queried EXCEPT !.lost = @ \/ (gone /\ ~queued)]
  /\ \E answered \in SUBSET (sought \cap 1..reached) :
       /\ sought' = answered \cup (sought \ 1..reached)
       /\ finder' = IF finder.last \in sought \ sought' THEN [finder EXCEPT !.last = 0] ELSE finder
  /\ UNCHANGED <<listing, page, loading, browser, token, reached>>

Reconnect ==
  /\ ~linked
  /\ linked' = TRUE
  /\ UNCHANGED <<listing, queries, taken, frames, page, loading, browser, queried, token, sought, reached, finder>>

LookupsInit ==
  /\ linked = TRUE
  /\ listing = {}
  /\ queries = <<>> /\ taken = 0 /\ frames = <<>>
  /\ page = NoPage /\ loading = FALSE
  /\ browser = [n \in Networks |-> Closed]
  /\ queried = [networks |-> {}, last |-> Closed, count |-> 0, lost |-> FALSE]
  /\ token = 0 /\ sought = {} /\ reached = 0
  /\ finder = [open |-> FALSE, last |-> 0, listed |-> 0]

Browses ==
  \/ \E n \in Networks :
       \/ OpenBrowser(n) \/ CloseBrowser(n) \/ Refresh(n) \/ ListEnds(n)
       \/ \E filter \in Filters : TypeFilter(n, filter)
  \/ Take \/ Answer \/ Hear \/ LoseConnection \/ Reconnect

Seeks ==
  \/ OpenFinder \/ Search \/ TakeSearch \/ CloseFinder \/ LoseConnection \/ Reconnect
  \/ \E t \in sought : Found(t)

--------------------------------------------------------------------------------
\* With everything heard, on however many connections, and nothing lost since the
\* last query was made, its window shows that network's page for what is in its
\* entry, and says that it is still fetching while it is, if no other network was
\* asked about (app.rs:465).
BrowserAgrees ==
  \A n \in Networks :
    (browser[n] # Closed /\ queried.last = n /\ ~queried.lost /\ queries = <<>> /\ frames = <<>>)
    => /\ page = [network |-> n, filter |-> browser[n]]
       /\ queried.networks = {n} => loading = (n \in listing)

\* Whatever the order of the answers, the search window ends with those to its
\* last search, unless that or its answer was lost with a connection.
FinderAgrees == finder.last # 0 /\ finder.last \notin sought => finder.listed = finder.last

\* Both windows show what was looked up last.
LookupAgrees == BrowserAgrees /\ FinderAgrees
================================================================================
