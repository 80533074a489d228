----------------------------- MODULE JobSearch -----------------------------
(***************************************************************************)
(* find_jobs_with_scm_url (JenkinsAssetType.find_scm): a walk over the     *)
(* folders of a Jenkins, breadth first, one GET for each folder and one    *)
(* for the configuration of each job, within a budget of entries; some     *)
(* folders and jobs cannot be read, some configurations tell only a part.  *)
(***************************************************************************)
EXTENDS Integers, Sequences, FiniteSets

CONSTANTS
  Root, Folders, Jobs, \* Root is a folder
  Trees,               \* what the folders may list: functions from Folders to sequences of entries
  Budget               \* max_scan_jobs

VARIABLES
  tree,    \* the folders as Jenkins lists them, which may grow during the walk
  search,  \* the local variables of find_scm
  reported, \* whether and how the result is returned
  before   \* history: the tree when the walk began

vars == <<tree, search, reported, before>>

Entries == Folders \cup Jobs

TypeOK ==
  /\ tree \in Trees /\ before \in Trees
  /\ search \in [folders : Seq(Folders), visited : SUBSET Folders, read : SUBSET Jobs,
                 scanned : 0..Budget, partial : BOOLEAN, unreadable : BOOLEAN]
  /\ reported \in {"no", "whole", "partial"}

-----------------------------------------------------------------------------
\* The next folder of the queue, in a state "s" of the variables.
Popped == [search EXCEPT !.folders = Tail(@), !.visited = @ \cup {Head(search.folders)}]

Walking == reported = "no" /\ search.folders # <<>> /\ search.scanned < Budget

\* A folder may be reached twice.
Again ==
  /\ Walking /\ Head(search.folders) \in search.visited
  /\ search' = Popped /\ UNCHANGED <<tree, reported, before>>

New == Walking /\ Head(search.folders) \notin search.visited

\* 403 and 404; any other error ends the call without a result.
FolderUnreadable ==
  /\ New /\ search' = [Popped EXCEPT !.unreadable = TRUE]
  /\ UNCHANGED <<tree, reported, before>>

\* The folders among the entries, in their order.
FoldersOf(entries) ==
  LET at == {i \in DOMAIN entries : entries[i] \in Folders}
      place(i) == Cardinality({j \in at : j <= i})
  IN [k \in 1..Cardinality(at) |-> entries[CHOOSE i \in at : place(i) = k]]

\* The entries within the budget: folders are queued, of the jobs "denied" cannot be read
\* and "vague" use what a configuration does not tell.
Folder(denied, vague) ==
  /\ New
  /\ LET f     == Head(search.folders)
         room  == Budget - search.scanned
         taken == SubSeq(tree[f], 1, IF Len(tree[f]) < room THEN Len(tree[f]) ELSE room)
         jobs  == {taken[i] : i \in DOMAIN taken} \cap Jobs
     IN /\ denied \subseteq jobs /\ vague \subseteq jobs \ denied
        /\ search' =
             [Popped EXCEPT
                !.folders = @ \o FoldersOf(taken),
                !.read = @ \cup (jobs \ denied),
                !.scanned = @ + Len(taken),
                !.unreadable = @ \/ denied # {},
                !.partial = @ \/ vague # {} \/ Len(taken) < Len(tree[f])]
  /\ UNCHANGED <<tree, reported, before>>

Incomplete(s) == s.partial \/ s.folders # <<>> \/ s.unreadable

Report ==
  /\ reported = "no" /\ (search.folders = <<>> \/ search.scanned >= Budget)
  /\ reported' = IF Incomplete(search) THEN "partial" ELSE "whole"
  /\ UNCHANGED <<tree, search, before>>

\* Someone adds to a folder.
Change(f, e) ==
  /\ reported = "no" /\ [tree EXCEPT ![f] = Append(@, e)] \in Trees
  /\ tree' = [tree EXCEPT ![f] = Append(@, e)]
  /\ UNCHANGED <<search, reported, before>>

-----------------------------------------------------------------------------
Init ==
  /\ tree \in Trees /\ before = tree
  /\ search = [folders |-> <<Root>>, visited |-> {}, read |-> {}, scanned |-> 0,
               partial |-> FALSE, unreadable |-> FALSE]
  /\ reported = "no"

Next ==
  \/ Again \/ FolderUnreadable \/ Report
  \/ \E denied, vague \in SUBSET Jobs : Folder(denied, vague)
  \/ \E f \in Folders, e \in Entries : Change(f, e)

Spec == Init /\ [][Next]_vars

-----------------------------------------------------------------------------
(* Properties *)

\* The folders that a walk meets at all: those of every set that has the root and, with a
\* folder, the folders in it.
Closed(S) ==
  Root \in S /\ \A f \in S : \A i \in DOMAIN before[f] : before[f][i] \in Folders => before[f][i] \in S

Reachable == {f \in Folders : \A S \in SUBSET Folders : Closed(S) => f \in S}

\* A result that is not marked partial has looked at the configuration of every job that
\* was there when the walk began, whatever is added meanwhile and however the folders
\* refer to each other.
CutIsMarked ==
  reported = "whole" =>
    \A f \in Reachable : \A i \in DOMAIN before[f] :
      before[f][i] \in Jobs => before[f][i] \in search.read

-----------------------------------------------------------------------------
(* What makes CutIsMarked inductive *)

Queued == {search.folders[i] : i \in DOMAIN search.folders}

\* Folders only grow, at their end.
Grown ==
  \A f \in Folders :
    /\ Len(before[f]) <= Len(tree[f])
    /\ \A i \in DOMAIN before[f] : tree[f][i] = before[f][i]

\* While nothing is left out, what a visited folder held at first is read, or visited or in
\* the queue.
Walked ==
  ~search.partial /\ ~search.unreadable =>
    /\ Root \in search.visited \cup Queued
    /\ \A f \in search.visited : \A i \in DOMAIN before[f] :
         /\ before[f][i] \in Folders => before[f][i] \in search.visited \cup Queued
         /\ before[f][i] \in Jobs => before[f][i] \in search.read

Inv ==
  /\ TypeOK /\ Grown /\ Walked
  /\ reported = "whole" => ~Incomplete(search)

=============================================================================
