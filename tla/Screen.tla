---------------------------------- MODULE Screen ----------------------------------
(***************************************************************************)
(* What the user sees and does in a window besides reading and sending: how a   *)
(* conversation's rows are drawn, completion, a channel's modes, the list of    *)
(* conversations, what is looked up at the server, and the panes of a window.   *)
(* None of them shares state with another but through the store, whose part each *)
(* models for itself: a behaviour follows one of them at a time.              *)
(***************************************************************************)
EXTENDS Display, Typing, ChannelModes, Sidebar, Lookups, Panes

VARIABLE focus  \* bound: the part that acts

screenVars == <<displayVars, typingVars, modesVars, sidebarVars, lookupVars, panesVars, focus>>

Init ==
  /\ focus \in {"rows", "entry", "commands", "dialog", "sidebar", "browser", "finder", "panes"}
  /\ DisplayInit /\ TypingInit /\ ModesInit /\ SidebarInit /\ LookupsInit /\ PanesInit
  /\ focus # "rows" => from = 1 /\ mode = "all" /\ folding
  /\ focus \notin {"commands", "dialog"} => q = "quiet"
  /\ focus # "sidebar" => ~store.contact

Next ==
  /\ UNCHANGED focus
  /\ \/ focus = "rows" /\ DisplayNext
        /\ UNCHANGED <<typingVars, modesVars, sidebarVars, lookupVars, panesVars>>
     \/ focus = "entry" /\ TypingNext
        /\ UNCHANGED <<displayVars, modesVars, sidebarVars, lookupVars, panesVars>>
     \/ focus = "commands" /\ Talks
        /\ UNCHANGED <<displayVars, typingVars, sidebarVars, lookupVars, panesVars>>
     \/ focus = "dialog" /\ Lists
        /\ UNCHANGED <<displayVars, typingVars, sidebarVars, lookupVars, panesVars>>
     \/ focus = "sidebar" /\ SidebarNext
        /\ UNCHANGED <<displayVars, typingVars, modesVars, lookupVars, panesVars>>
     \/ focus = "browser" /\ Browses
        /\ UNCHANGED <<displayVars, typingVars, modesVars, sidebarVars, panesVars>>
     \/ focus = "finder" /\ Seeks
        /\ UNCHANGED <<displayVars, typingVars, modesVars, sidebarVars, panesVars>>
     \/ focus = "panes" /\ PanesNext
        /\ UNCHANGED <<displayVars, typingVars, modesVars, sidebarVars, lookupVars>>

Spec == Init /\ [][Next]_screenVars
================================================================================
