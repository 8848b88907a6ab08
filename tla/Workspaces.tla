----------------------------- MODULE Workspaces -----------------------------
(***************************************************************************)
(* The list of projects and their folders, which the server keeps in       *)
(* memory and writes to a file whenever it changes                         *)
(* (internal/workspaces/service.go, internal/pathsec, and the handlers of  *)
(* internal/httpapi/handlers_workspaces.go).                               *)
(*                                                                         *)
(* Every operation is one critical section of Service.mu, save included:   *)
(* the file is replaced by a rename, so it is the old one or the new one.  *)
(* A save may fail, the server may be restarted, and directories come, go  *)
(* and become links to others meanwhile.  Requests that are refused change *)
(* nothing and are left out, like names, labels and identifiers.           *)
(***************************************************************************)
EXTENDS Naturals, Sequences, FiniteSets, Functions

CONSTANTS Paths,        \* the paths a browser may ask for
          Gone,         \* what is no directory; not in Paths
          Folders,      \* the identifiers of folders
          MaxHints,     \* maxWorkspaceHints, more than 1
          MaxFolders,   \* maxProjectFolders
          MaxRequests,  \* bound: requests
          MaxFaults,    \* bound: saves and reads that fail
          MaxChanges    \* bound: changes of a directory

VARIABLES
  fs,        \* what each path is: itself, a link to another path, or Gone
  hints,     \* Service.hints: the projects, the last one that was opened first
  folders,   \* Service.folders: the projects of each folder
  file,      \* the history file; there is no difference between none and an empty one
  saved,     \* memory has been saved since it last changed or was loaded
  unsaved,   \* the projects that an opening or a removal could not save, or that loading changed
  removed,   \* the projects whose removal was saved
  evicted,   \* the projects that the limit has pushed out
  requests, faults, changes  \* counters of the bounds

bounds == <<requests, faults, changes>>
vars == <<fs, hints, folders, file, saved, unsaved, removed, evicted, bounds>>

NoFolders == [f \in {} |-> {}]

Init ==
  /\ fs = [p \in Paths |-> p]
  /\ hints = <<>> /\ folders = NoFolders
  /\ file = [hints |-> <<>>, folders |-> NoFolders]
  /\ saved = TRUE /\ unsaved = {} /\ removed = {} /\ evicted = {}
  /\ requests = 0 /\ faults = 0 /\ changes = 0

\* ResolveDir: a link is followed, and what is no directory is refused; links to
\* links are left out.
Resolve(p) == IF fs[p] \in Paths /\ fs[fs[p]] = fs[p] THEN fs[p] ELSE Gone

Asked == requests < MaxRequests /\ requests' = requests + 1
Fault == faults < MaxFaults /\ faults' = faults + 1

\* writeWorkspaceHistory: it replaces the whole file or leaves it.
Save(h, f) == /\ file' = [hints |-> h, folders |-> f]
              /\ saved' = TRUE /\ unsaved' = {}
              /\ UNCHANGED faults
SaveFails == Fault /\ UNCHANGED file

\* A change that stays in memory although it could not be saved.
Unsaved(projects) == SaveFails /\ saved' = FALSE /\ unsaved' = unsaved \cup projects

-----------------------------------------------------------------------------
\* The list without one project.
Place(p) == CHOOSE i \in DOMAIN hints : hints[i] = p
Others(p) ==
  IF p \in Range(hints)
  THEN SubSeq(hints, 1, Place(p) - 1) \o SubSeq(hints, Place(p) + 1, Len(hints))
  ELSE hints

\* rememberLocked: the project moves to the front, and the last one may have to go.
Remembered(p) ==
  LET rest == Others(p)
  IN <<p>> \o (IF Len(rest) < MaxHints THEN rest ELSE SubSeq(rest, 1, MaxHints - 1))

\* A save that fails is only logged: the project is opened and listed all the same.
Open(p) ==
  /\ Asked /\ Resolve(p) # Gone
  /\ LET canon == Resolve(p)
     IN /\ hints' = Remembered(canon)
        /\ \/ Save(hints', folders)
           \/ Unsaved({canon} \cup (Range(hints) \ Range(hints')))
        /\ removed' = removed \ {canon}
        /\ evicted' = (evicted \cup Range(hints)) \ Range(hints')
  /\ UNCHANGED <<fs, folders, changes>>

\* Mutant: the folders keep a project that is removed.
WithoutNot(p) == folders

\* removePathFromFoldersLocked.
Without(p) == [f \in DOMAIN folders |-> folders[f] \ {p}]

\* Mutant: the removal is saved before it is made.
RemoveProjectLate(p) ==
  /\ Asked /\ p \in Range(hints)
  /\ hints' = Others(p) /\ folders' = Without(p)
  /\ \/ Save(hints, folders) /\ removed' = removed \cup {p}
     \/ Unsaved({p}) /\ UNCHANGED removed
  /\ UNCHANGED <<fs, evicted, changes>>

\* A removal that cannot be saved is reported as failed, and is in memory all the same.
\* One of a project that is not listed is accepted and changes nothing: a removal that
\* failed and is repeated is accepted, and still not saved.
RemoveProject(p) ==
  /\ Asked /\ p \in Range(hints)
  /\ hints' = Others(p) /\ folders' = Without(p)
  /\ \/ Save(hints', folders') /\ removed' = removed \cup {p}
     \/ Unsaved({p}) /\ UNCHANGED removed
  /\ UNCHANGED <<fs, evicted, changes>>

Disjoint(next) == \A f, g \in DOMAIN next : f # g => next[f] \cap next[g] = {}

\* Mutant: the folders change whether they can be saved or not.
UpdateFoldersFirst(next) ==
  /\ Asked
  /\ Cardinality(DOMAIN next) <= MaxFolders /\ Disjoint(next)
  /\ folders' = next
  /\ Save(hints, next) \/ (SaveFails /\ UNCHANGED <<saved, unsaved>>)
  /\ UNCHANGED <<fs, hints, removed, evicted, changes>>

\* Only projects that are listed, each in one folder; and only what was saved.
UpdateFolders(next) ==
  /\ Asked
  /\ Cardinality(DOMAIN next) <= MaxFolders /\ Disjoint(next)
  /\ \/ Save(hints, next) /\ folders' = next
     \/ SaveFails /\ UNCHANGED <<folders, saved, unsaved>>
  /\ UNCHANGED <<fs, hints, removed, evicted, changes>>

-----------------------------------------------------------------------------
Lists == UNION {[1..n -> Paths] : n \in 0..MaxHints}

\* Mutant: what two paths lead to is listed twice.
LoadedAsIs(list) ==
  /\ Len(list) = MaxHints \/ Len(list) = Len(file.hints)
  /\ \A i \in DOMAIN list : list[i] = Resolve(file.hints[i])

\* An entry of the file that leads to a project, and is the first to do so.
Counts(i) == /\ Resolve(file.hints[i]) # Gone
             /\ \A j \in 1..(i - 1) : Resolve(file.hints[j]) # Resolve(file.hints[i])

\* loadHistory: the projects that are still there, each of them once, in the order of
\* the file and up to the limit.
Loaded(list) ==
  \E entry \in [DOMAIN list -> {i \in DOMAIN file.hints : Counts(i)}] :
    /\ \A i \in DOMAIN list : list[i] = Resolve(file.hints[entry[i]])
    /\ \A i, j \in DOMAIN list : i < j => entry[i] < entry[j]
    /\ \A k \in DOMAIN file.hints \ Range(entry) : Counts(k) =>
         Len(list) = MaxHints /\ \A i \in DOMAIN list : entry[i] < k

\* Mutant: the folders are taken as they are in the file.
LoadedFoldersAsIs(list) == file.folders

\* What a folder holds has to be listed under the same name.
LoadedFolders(list) == [f \in DOMAIN file.folders |-> file.folders[f] \cap Range(list)]

\* The projects that a link leads to now.
Linked == {Resolve(p) : p \in {q \in Range(file.hints) : Resolve(q) # q}}

\* What the file names and loading leaves out, and what it adds.
Changed == LET named == Range(file.hints) \cup UNION Range(file.folders)
           IN (named \ Range(hints')) \cup (Range(hints') \ Range(file.hints))

\* New: the server starts, and does without a history that it cannot read.
Restart ==
  /\ \/ /\ hints' \in {list \in Lists : Loaded(list)}
        /\ folders' = LoadedFolders(hints') /\ UNCHANGED faults
     \/ hints' = <<>> /\ folders' = NoFolders /\ Fault
  /\ saved' = FALSE /\ unsaved' = Changed /\ evicted' = {}
  /\ removed' = removed \ Linked
  /\ UNCHANGED <<fs, file, requests, changes>>

\* Somebody removes a directory, creates it or makes it a link.
Change(p, what) ==
  /\ changes < MaxChanges /\ changes' = changes + 1
  /\ fs' = [fs EXCEPT ![p] = what]
  /\ UNCHANGED <<hints, folders, file, saved, unsaved, removed, evicted, requests, faults>>

Next == \/ \E p \in Paths : Open(p) \/ RemoveProject(p)
        \/ \E ids \in SUBSET Folders :
             \E next \in [ids -> SUBSET Range(hints)] : UpdateFolders(next)
        \/ Restart
        \/ \E p \in Paths, what \in Paths \cup {Gone} : Change(p, what)

Spec == Init /\ [][Next]_vars

-----------------------------------------------------------------------------
(* Properties. *)

FoldersOf(S) == UNION {[ids -> SUBSET S] : ids \in SUBSET Folders}

TypeOK ==
  /\ fs \in [Paths -> Paths \cup {Gone}]
  /\ hints \in Seq(Paths) /\ folders \in FoldersOf(Paths)
  /\ file.hints \in Seq(Paths) /\ file.folders \in FoldersOf(Paths)
  /\ saved \in BOOLEAN /\ unsaved \subseteq Paths /\ removed \subseteq Paths /\ evicted \subseteq Paths

\* The list names every project once and stays within its limit, and every folder
\* holds projects of the list or ones that the limit has pushed out of it since, no
\* two of them the same.
ListSound ==
  /\ Len(hints) <= MaxHints /\ IsInjective(hints)
  /\ \A f \in DOMAIN folders : folders[f] \subseteq Range(hints) \cup evicted
  /\ Disjoint(folders)

\* A project whose removal was saved stays away until it is opened or linked to,
\* whatever fails and is restarted in between.
RemovedStayAway == removed \cap (Range(hints) \cup Range(file.hints)) = {}

\* What a folder of a list of folders holds; one that is not there holds nothing.
Held(list, f) == IF f \in DOMAIN list THEN list[f] ELSE {}

\* Memory and file list the same projects, in the same folders, but for those that an
\* opening (which is accepted) or a removal (which is reported as failed) could not
\* save, and those that are gone or have become links when the file is read: a refused
\* change of the folders leaves no trace.  What has been saved is the file.
SavedIsWhole ==
  /\ Range(hints) \ unsaved = Range(file.hints) \ unsaved
  /\ \A f \in Folders : Held(folders, f) \ unsaved = Held(file.folders, f) \ unsaved
  /\ saved => file = [hints |-> hints, folders |-> folders]
=============================================================================
