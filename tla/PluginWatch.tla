------------------------------- MODULE PluginWatch -------------------------------
(***************************************************************************)
(* The watcher of the plugin directory: it publishes plugins_changed when  *)
(* the catalogue is not the one it published last, 150 ms after the last   *)
(* event (pluginWatcher.run).  fsnotify watches directories one by one, so *)
(* that a new directory is watched only after an event of its parent, and  *)
(* what is written in it before that goes unseen.                          *)
(***************************************************************************)
EXTENDS Naturals

CONSTANTS Dirs,       \* directories of plugins, below the root
          MaxChanges  \* bound

Absent == 0  \* the directory does not exist

VARIABLES tree,      \* the version of what each directory holds
          watched,   \* directories with a watch; the root always has one
          event,     \* fsnotify has an event
          timer,     \* the debounce timer runs
          walking,   \* directories addDirectories has listed and not added yet
          reading,   \* it is done, or was given up, and the catalogue is read next
          revision,  \* the catalogue of the last revision
          changes

watchVars == <<tree, watched, event, timer, walking, reading, revision, changes>>
stepVars == <<timer, walking, reading, revision>>

\* The initial walk is done, and run has read the first revision.
Started(there) ==
  /\ tree = [d \in Dirs |-> IF d \in there THEN 1 ELSE Absent]
  /\ watched = there
  /\ event = FALSE /\ timer = FALSE /\ walking = {} /\ reading = FALSE
  /\ revision = tree /\ changes = 0

Init == \E there \in SUBSET Dirs : Started(there)

Change == changes < MaxChanges /\ changes' = changes + 1

\* An entry of the root comes, or goes with its watch.
Create(d) ==
  /\ Change /\ tree[d] = Absent
  /\ tree' = [tree EXCEPT ![d] = changes + 2] /\ event' = TRUE
  /\ UNCHANGED <<watched, stepVars>>

Remove(d) ==
  /\ Change /\ tree[d] # Absent
  /\ tree' = [tree EXCEPT ![d] = Absent] /\ event' = TRUE
  /\ watched' = watched \ {d}
  /\ UNCHANGED stepVars

\* Something below the directory changes.
Modify(d) ==
  /\ Change /\ tree[d] # Absent
  /\ tree' = [tree EXCEPT ![d] = changes + 2]
  /\ event' = (event \/ d \in watched)
  /\ UNCHANGED <<watched, stepVars>>

Busy == walking # {} \/ reading

\* schedule starts the timer again.
Event ==
  /\ event /\ ~Busy /\ event' = FALSE /\ timer' = TRUE
  /\ UNCHANGED <<tree, watched, walking, reading, revision, changes>>

\* The timer fires: addDirectories lists the root ...
Fire ==
  /\ timer /\ ~Busy /\ timer' = FALSE
  /\ walking' = {d \in Dirs : tree[d] # Absent} /\ reading' = (walking' = {})
  /\ UNCHANGED <<tree, watched, event, revision, changes>>

\* Mutant: the directories are watched at the start only.
AddNothing(d) ==
  /\ d \in walking /\ walking' = walking \ {d} /\ reading' = (walking' = {})
  /\ UNCHANGED <<tree, watched, event, timer, revision, changes>>

\* ... and adds one after the other; one that has gone ends the walk.
AddDirectory(d) ==
  /\ d \in walking
  /\ walking' = IF tree[d] = Absent THEN {} ELSE walking \ {d}
  /\ watched' = IF tree[d] = Absent THEN watched ELSE watched \cup {d}
  /\ reading' = (walking' = {})
  /\ UNCHANGED <<tree, event, timer, revision, changes>>

\* The catalogue is read, and published if it is another one.
Catalog ==
  /\ reading /\ walking = {} /\ reading' = FALSE /\ revision' = tree
  /\ UNCHANGED <<tree, watched, event, timer, walking, changes>>

Next ==
  \/ \E d \in Dirs : Create(d) \/ Remove(d) \/ Modify(d) \/ AddDirectory(d)
  \/ Event \/ Fire \/ Catalog

Spec == Init /\ [][Next]_watchVars

-----------------------------------------------------------------------------
(* When nothing is left to do, the dashboards have been told of the catalogue as it
   is, although directories come and go while they are watched (run,
   addDirectories).                                                              *)
CatalogPublished == ~event /\ ~timer /\ ~Busy => revision = tree
=============================================================================
