------------------------------- MODULE Syncup -------------------------------
(* scripts/syncup.py: the main thread turns inotify events into a flag, a    *)
(* worker thread runs rsync while it finds the flag set.  The tree of files, *)
(* inotify and rsync, which copies one file after the other, are external.   *)
CONSTANTS Files,     \* the files of src
          Ignored    \* those whose events the script skips

SyncupAssumption == Ignored \subseteq Files

VARIABLES main,     \* off, first (rsync), starting, watching, exited
          worker,   \* off, asleep, found (the flag set), rsync, gone
          dirty,
          todo,     \* files that the running rsync has not come to yet
          stale,    \* files whose dst is not their src
          noticed,  \* files whose last change inotify has an event for
          events    \* those of which the event has not been handled

vars == <<main, worker, dirty, todo, stale, noticed, events>>

Init ==
  /\ main = "off" /\ worker = "off" /\ dirty = FALSE /\ todo = {}
  /\ stale = {} /\ noticed = {} /\ events = {}

Start(S) ==
  /\ main = "off" /\ main' = "first" /\ stale' = S /\ todo' = Files
  /\ UNCHANGED <<worker, dirty, noticed, events>>

(* A file is created, written or deleted; one moved in or out changes the    *)
(* tree too, but the mask has no event for it.                               *)
Change(f, moved) ==
  /\ main \notin {"off", "exited"} /\ stale' = stale \cup {f}
  /\ IF main = "watching" /\ ~moved
     THEN noticed' = noticed \cup {f} /\ events' = events \cup {f}
     ELSE noticed' = noticed \ {f} /\ UNCHANGED events
  /\ UNCHANGED <<main, worker, dirty, todo>>

Copy(f) ==
  /\ f \in todo /\ todo' = todo \ {f} /\ stale' = stale \ {f}
  /\ UNCHANGED <<main, worker, dirty, noticed, events>>

(* The first rsync of the main thread, then the worker, then the watch. *)
FirstDone ==
  /\ main = "first" /\ todo = {} /\ main' = "starting" /\ worker' = "asleep"
  /\ UNCHANGED <<dirty, todo, stale, noticed, events>>
FirstFails ==
  /\ main = "first" /\ main' = "exited" /\ todo' = {}
  /\ UNCHANGED <<worker, dirty, stale, noticed, events>>
Watch == main = "starting" /\ main' = "watching" /\ UNCHANGED <<worker, dirty, todo, stale, noticed, events>>

Handle(f) ==
  /\ main = "watching" /\ f \in events /\ events' = events \ {f}
  /\ dirty' = (dirty \/ f \notin Ignored)
  /\ UNCHANGED <<main, worker, todo, stale, noticed>>

(* The worker wakes up each half second and looks at the flag ... *)
Find ==
  /\ worker = "asleep" /\ dirty /\ worker' = "found"
  /\ UNCHANGED <<main, dirty, todo, stale, noticed, events>>

(* Mutant: the flag is cleared again when rsync has ended. *)
RsyncDoneClears ==
  /\ worker = "rsync" /\ todo = {} /\ worker' = "asleep" /\ dirty' = FALSE
  /\ UNCHANGED <<main, todo, stale, noticed, events>>

(* ... clears it and runs rsync; a failure ends its thread, and no other. *)
Rsync ==
  /\ worker = "found" /\ dirty' = FALSE /\ worker' = "rsync" /\ todo' = Files
  /\ UNCHANGED <<main, stale, noticed, events>>
RsyncDone ==
  /\ worker = "rsync" /\ todo = {} /\ worker' = "asleep"
  /\ UNCHANGED <<main, dirty, todo, stale, noticed, events>>
RsyncFails ==
  /\ worker = "rsync" /\ worker' = "gone" /\ todo' = {}
  /\ UNCHANGED <<main, dirty, stale, noticed, events>>

Next ==
  \/ FirstDone \/ FirstFails \/ Watch \/ Find \/ Rsync \/ RsyncDone \/ RsyncFails
  \/ \E S \in SUBSET Files : Start(S)
  \/ \E f \in Files : Change(f, TRUE) \/ Change(f, FALSE) \/ Copy(f) \/ Handle(f)

Spec == Init /\ [][Next]_vars

(* Both threads run, and an rsync ends. *)
Fairness ==
  /\ WF_vars(Find \/ Rsync \/ RsyncDone \/ RsyncFails)
  /\ \A f \in Files : WF_vars(Handle(f)) /\ WF_vars(Copy(f))
-----------------------------------------------------------------------------
TypeOK ==
  /\ main \in {"off", "first", "starting", "watching", "exited"} /\ dirty \in BOOLEAN
  /\ worker \in {"off", "asleep", "found", "rsync", "gone"}
  /\ todo \subseteq Files /\ stale \subseteq Files /\ noticed \cup events \subseteq Files

(* No change that the watch saw is forgotten: until it is copied its event   *)
(* waits, the flag is set or rsync will still come to it, whatever changes   *)
(* during an rsync or between the worker's test of the flag and its reset.   *)
(* The other changes, before the watch and moves, nobody may ever copy.      *)
NoLostChange ==
  \A f \in (stale \cap noticed) \ Ignored :
    f \in events \/ dirty \/ f \in todo \/ worker = "gone"

(* ... and it does get copied, unless a failed rsync has ended the worker:   *)
(* the main thread goes on collecting events all the same.                   *)
Synced ==
  \A f \in Files \ Ignored : f \in noticed \cap stale ~> (f \notin stale \/ worker = "gone" \/ f \notin noticed)
=============================================================================
