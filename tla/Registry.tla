------------------------------- MODULE Registry --------------------------------
(***************************************************************************)
(* The registry of datasets and releases: datasets/dataset_registry.py and *)
(* what calls it, datasets/qlib_export.py (_publish_candidate), and        *)
(* publisher.py, market_import.py and file_store.py of releases/, and      *)
(* bootstrap.py.                                                           *)
(*                                                                         *)
(* A release and a dataset version are directories named after their       *)
(* content, put in place by one rename.  Until then a version is a         *)
(* candidate: a directory with a dot in front of its name beside the       *)
(* others, whose manifest a rebuild finds too.  The registry is a SQLite   *)
(* file that indexes them, and holds the aliases.  DatasetRegistry.promote *)
(* also writes a pointer file per alias, inside its transaction, from      *)
(* which registry-rebuild restores the aliases when the database was lost. *)
(* Every method is a transaction of its own; publications, an operator     *)
(* and a rebuild interleave between them, and any of them may die.         *)
(***************************************************************************)
EXTENDS Naturals, FiniteSets

CONSTANTS
    Version,        \* contents a dataset can have
    Release,        \* contents a release can have
    Alias,          \* dataset aliases
    Ref,            \* the alias of the configuration (qlib_dataset_ref)
    Proc,
    None,           \* no version, no release
    BoundTo,        \* BoundTo[v]: the release the manifest of v names, or None
    Imported,       \* versions whose manifest says VALIDATED: imports of a release
    Parents,        \* Parents[v]: versions the manifest of v derives from
    Standalone,     \* settings.mode = "standalone", which archives old releases
    MaxStarts,      \* bound: operations that are started
    MaxLeft,        \* bound: candidates that dead processes leave behind
    MaxLosses       \* bound: losses of the database

ASSUME RegistryAssumption ==
    /\ None \notin Version \cup Release /\ Ref \in Alias
    /\ BoundTo \in [Version -> Release \cup {None}]
    /\ Imported \subseteq {v \in Version : BoundTo[v] # None}
    /\ Parents \in [Version -> SUBSET Version]
    /\ Standalone \in BOOLEAN /\ {MaxStarts, MaxLeft, MaxLosses} \subseteq Nat

VARIABLES
    place,      \* [Release -> where it is]: active, half removed and archived directories
    built,      \* versions whose directory is in place
    left,       \* candidates of processes that died: what their manifests say
    row,        \* [Version -> status]: the table dataset_versions
    source,     \* [Version -> the manifest its row was taken from]
    lineage,    \* pairs <<child, parent>>: the table dataset_lineage
    recorded,   \* [Release -> place of its manifest]: the table data_releases
    alias,      \* [Alias -> version]: the table dataset_aliases
    chosen,     \* the release of research-release-current: the table release_aliases
    pointer,    \* [Alias -> version]: the files registry/aliases/<alias>.json
    proc,       \* [Proc -> what the process does]
    starts, losses,
    drifted,    \* history: aliases moved, or lost, without their pointer, or the reverse
    phantom,    \* history: versions a rebuild registered from a candidate
    split       \* history: one of the two aliases was moved without the other

disk == <<place, built, left, pointer>>
tables == <<row, source, lineage, recorded, alias, chosen>>
history == <<drifted, phantom, split>>
vars == <<disk, tables, proc, starts, losses, history>>

Where == {"active", "torn", "archive"}
Status == {"none", "VALIDATED", "PUBLISHED"}
Kind == {"none", "export", "release", "import", "recover", "promote", "select", "rebuild"}
At == {"idle", "freeze", "build", "stamp", "place", "register", "record", "pointer", "commit", "snapshot",
       "choose", "archive", "moved", "select", "manifests", "pointers"}
(* What a manifest that a rebuild finds says: that the data is where the   *)
(* candidate is ("fresh"), where the version is going to be ("stamped"),   *)
(* or where it is ("final").                                               *)
Found == Version \X {"fresh", "stamped", "final"}
ProcState == [at : At, kind : Kind, version : Version \cup {None}, release : Release \cup {None},
              alias : Alias, found : SUBSET Found, todo : SUBSET Found, pass : 0 .. 2,
              moved : SUBSET Release, aliases : SUBSET Alias]
Idle == [at |-> "idle", kind |-> "none", version |-> None, release |-> None, alias |-> Ref,
         found |-> {}, todo |-> {}, pass |-> 0, moved |-> {}, aliases |-> {}]

Init ==
    /\ place = [r \in Release |-> {}] /\ built = {} /\ left = {}
    /\ row = [v \in Version |-> "none"] /\ lineage = {}
    /\ source = [v \in Version |-> "none"]
    /\ recorded = [r \in Release |-> "none"]
    /\ alias = [a \in Alias |-> None] /\ chosen = None
    /\ pointer = [a \in Alias |-> None]
    /\ proc = [p \in Proc |-> Idle]
    /\ starts = 0 /\ losses = 0
    /\ drifted = {} /\ phantom = {} /\ split = FALSE

--------------------------------------------------------------------------------
(* A transaction that writes waits for the one that is open: only that of  *)
(* promote spans another effect, the pointer file.                         *)
UnlockedAlways == TRUE \* mutant: the pointer is replaced before the transaction opens
Unlocked == \A q \in Proc : proc[q].at # "commit"

Goto(p, a) == proc' = [proc EXCEPT ![p].at = a]
Begin(p, state) == proc' = [proc EXCEPT ![p] = state]
Done(p) == Begin(p, Idle)

(* Where a release is read from: the active directory when its manifest is *)
(* there, and then the archive.                                            *)
Reads(r) == IF "active" \in place[r] THEN {"active"}
            ELSE IF "torn" \in place[r] THEN {"active", "archive"} ELSE {"archive"}

(* The candidates of a process that is building: at first an update is a   *)
(* copy of its parent, manifest included.                                  *)
Holds(q) ==
    CASE proc[q].at = "build" /\ proc[q].kind = "export" ->
             (Parents[proc[q].version] \cap built) \X {"stamped"}
      [] proc[q].at = "stamp" -> {<<proc[q].version, "fresh">>}
      [] proc[q].at = "place" -> {<<proc[q].version, "stamped">>}
      [] OTHER -> {}
Candidates == left \cup UNION {Holds(q) : q \in Proc}

(* rebuild lists the manifests under the root, while others build.         *)
Listed == {(built \X {"final"}) \cup left \cup some :
               some \in SUBSET UNION {Holds(q) : q \in Proc}}

(* dataset-build, the daily sync and dataset exports; imports; the         *)
(* recovery of an alias; dataset-promote; release promote; and             *)
(* registry-rebuild.                                                       *)
Request ==
    {[Idle EXCEPT !.at = "build", !.kind = "export", !.version = v] : v \in Version \ Imported}
    \cup {[Idle EXCEPT !.at = "freeze", !.kind = IF v \in Imported THEN "import" ELSE "release",
                       !.version = v, !.release = BoundTo[v]] :
              v \in {u \in Version : BoundTo[u] # None}}
    \cup {[Idle EXCEPT !.at = "choose", !.kind = "recover", !.release = r] :
              r \in {s \in Release : place[s] # {} /\ (Standalone \/ s = chosen)}}
    \cup {[Idle EXCEPT !.at = "pointer", !.kind = "promote", !.version = x[1], !.alias = x[2]] :
              x \in {u \in Version : row[u] # "none"} \X Alias}
    \cup {[Idle EXCEPT !.at = "record", !.kind = "select", !.release = r] :
              r \in {s \in Release : place[s] # {}}}
    \cup {[Idle EXCEPT !.at = "manifests", !.kind = "rebuild", !.found = some, !.todo = some,
                       !.pass = 1] : some \in Listed}

Start(p) ==
    /\ proc[p].at = "idle" /\ starts < MaxStarts
    /\ \E request \in Request : Begin(p, request)
    /\ starts' = starts + 1
    /\ UNCHANGED <<disk, tables, losses, history>>

(* LocalReleasePublisher.publish: a rename, unless the directory is there, *)
(* which must be whole.                                                    *)
Freeze(p) ==
    /\ proc[p].at = "freeze" /\ "torn" \notin place[proc[p].release]
    /\ place' = [place EXCEPT ![proc[p].release] = @ \cup {"active"}]
    /\ Goto(p, "build")
    /\ UNCHANGED <<built, left, pointer, tables, starts, losses, history>>

(* The candidate gets a manifest that says it is VALIDATED and lies where  *)
(* the candidate is; then one with place and status of the version.        *)
Build(p) ==
    /\ proc[p].at = "build"
    /\ Goto(p, "stamp")
    /\ UNCHANGED <<disk, tables, starts, losses, history>>

Stamp(p) ==
    /\ proc[p].at = "stamp"
    /\ Goto(p, "place")
    /\ UNCHANGED <<disk, tables, starts, losses, history>>

RegisterFirst(p) == \* mutant: the row is written before the directory is renamed
    /\ proc[p].at = "place" /\ Unlocked
    /\ row' = [row EXCEPT ![proc[p].version] = "VALIDATED"]
    /\ Goto(p, "register")
    /\ UNCHANGED <<disk, source, lineage, recorded, alias, chosen, starts, losses, history>>

(* The candidate is renamed, unless somebody had published the same        *)
(* content, and removed then.  An import records the release first.        *)
Place(p) ==
    /\ proc[p].at = "place"
    /\ built' = built \cup {proc[p].version}
    /\ Goto(p, IF proc[p].kind = "import" THEN "record" ELSE "register")
    /\ UNCHANGED <<place, left, pointer, tables, starts, losses, history>>

(* register_dataset takes status and paths from the manifest, whatever the *)
(* row said, and links the parents that have a row.                        *)
Manifest(v) == IF v \in Imported THEN "VALIDATED" ELSE "PUBLISHED"
RegisterVersion(v, from) ==
    /\ row' = [row EXCEPT ![v] = IF from = "fresh" THEN "VALIDATED" ELSE Manifest(v)]
    /\ source' = [source EXCEPT ![v] = from]
    /\ lineage' = lineage \cup {<<v, u>> : u \in {w \in Parents[v] : row[w] # "none"}}

Register(p) ==
    /\ proc[p].at = "register" /\ Unlocked
    /\ RegisterVersion(proc[p].version, "final")
    /\ Goto(p, CASE proc[p].kind = "export" -> "pointer"
                 [] proc[p].kind = "release" -> "record"
                 [] proc[p].kind = "import" -> "snapshot")
    /\ UNCHANGED <<disk, recorded, alias, chosen, starts, losses, history>>

(* register_release                                                        *)
Record(p) ==
    /\ proc[p].at = "record" /\ Unlocked
    /\ \E where \in IF proc[p].kind = "select" THEN Reads(proc[p].release) ELSE {"active"} :
           recorded' = [recorded EXCEPT ![proc[p].release] = where]
    /\ Goto(p, CASE proc[p].kind = "import" -> "register"
                 [] proc[p].kind = "release" -> "snapshot"
                 [] proc[p].kind = "select" -> "select")
    /\ UNCHANGED <<disk, row, source, lineage, alias, chosen, starts, losses, history>>

(***************************************************************************)
(* promote.  The status is read, the tables are changed, which locks the   *)
(* database, the pointer file is replaced, and the transaction commits.    *)
(***************************************************************************)
WritePointer(p) ==
    /\ proc[p].at = "pointer" /\ Unlocked
    /\ row[proc[p].version] # "none"
    /\ pointer' = [pointer EXCEPT ![proc[p].alias] = proc[p].version]
    /\ Goto(p, "commit")
    /\ UNCHANGED <<place, built, left, tables, starts, losses, history>>

Commit(p) ==
    /\ proc[p].at = "commit"
    /\ row' = [row EXCEPT ![proc[p].version] = "PUBLISHED"]
    /\ alias' = [alias EXCEPT ![proc[p].alias] = proc[p].version]
    /\ drifted' = drifted \ {proc[p].alias}
    /\ split' = (split \/ proc[p].alias = Ref)
    /\ IF proc[p].kind = "rebuild" THEN Goto(p, "pointers") ELSE Done(p)
    /\ UNCHANGED <<disk, source, lineage, recorded, chosen, starts, losses, phantom>>

(***************************************************************************)
(* promote_research_snapshot: both aliases in one transaction, and no      *)
(* pointer file.                                                           *)
(***************************************************************************)
Promotable(v, r) == row[v] # "none" /\ recorded[r] # "none" /\ BoundTo[v] = r
Archives(p) == Standalone /\ proc[p].kind # "promote"

SnapshotInTwo(p) == \* mutant: the two aliases are moved in two transactions
    /\ proc[p].at = "snapshot" /\ Unlocked
    /\ Promotable(proc[p].version, proc[p].release)
    /\ IF alias[Ref] # proc[p].version
       THEN /\ row' = [row EXCEPT ![proc[p].version] = "PUBLISHED"]
            /\ alias' = [alias EXCEPT ![Ref] = proc[p].version]
            /\ UNCHANGED <<proc, chosen>>
       ELSE /\ chosen' = proc[p].release
            /\ IF Archives(p) THEN Goto(p, "archive") ELSE Done(p)
            /\ UNCHANGED <<row, alias>>
    /\ drifted' = drifted \cup {Ref} /\ split' = FALSE
    /\ UNCHANGED <<disk, source, lineage, recorded, starts, losses, phantom>>

Snapshot(p) ==
    /\ proc[p].at = "snapshot" /\ Unlocked
    /\ Promotable(proc[p].version, proc[p].release)
    /\ row' = [row EXCEPT ![proc[p].version] = "PUBLISHED"]
    /\ alias' = [alias EXCEPT ![Ref] = proc[p].version]
    /\ chosen' = proc[p].release
    /\ drifted' = drifted \cup {Ref} /\ split' = FALSE
    /\ IF Archives(p) THEN Goto(p, "archive") ELSE Done(p)
    /\ UNCHANGED <<disk, source, lineage, recorded, starts, losses, phantom>>

(* promote_release: the alias of the release moves alone.                  *)
Select(p) ==
    /\ proc[p].at = "select" /\ Unlocked
    /\ recorded[proc[p].release] # "none"
    /\ chosen' = proc[p].release
    /\ split' = TRUE
    /\ Done(p)
    /\ UNCHANGED <<disk, row, source, lineage, recorded, alias, starts, losses, drifted, phantom>>

(* _recover_selected_dataset_alias: the one version that is bound to the   *)
(* release and whose manifest and directory are where its row says, if     *)
(* there is exactly one.                                                   *)
InPlace(v) == /\ source[v] \in {"final", "stamped"} => v \in built
              /\ source[v] \in {"fresh", "stamped"} => \E c \in Candidates : c[1] = v
Candidate(r) == {v \in Version : row[v] # "none" /\ BoundTo[v] = r /\ InPlace(v)}

Choose(p) ==
    /\ proc[p].at = "choose"
    /\ \/ /\ Cardinality(Candidate(proc[p].release)) = 1
          /\ \E v \in Candidate(proc[p].release) :
                 Begin(p, [proc[p] EXCEPT !.at = "snapshot", !.version = v])
       \/ Cardinality(Candidate(proc[p].release)) # 1 /\ Done(p)
    /\ UNCHANGED <<disk, tables, starts, losses, history>>

(* _archive_standalone_history: archive_except moves every other active    *)
(* release, one at a time; then each of them is registered again.  One     *)
(* that is in the archive already is removed file by file: when that is    *)
(* cut short, the next archive_except goes on with it, or raises for ever  *)
(* when the manifest is gone.                                              *)
Others(p) == {r \in Release \ {proc[p].release} : place[r] \cap {"active", "torn"} # {}}

Archive(p) ==
    /\ proc[p].at = "archive"
    /\ \/ \E r \in Others(p) :
              \/ /\ place[r] = {"active", "archive"}
                 /\ place' = [place EXCEPT ![r] = {"torn", "archive"}]
                 /\ UNCHANGED proc
              \/ /\ place[r] # {"active", "archive"}
                 /\ place' = [place EXCEPT ![r] = {"archive"}]
                 /\ Begin(p, [proc[p] EXCEPT !.moved = @ \cup {r}])
       \/ Others(p) = {} /\ Goto(p, "moved") /\ UNCHANGED place
    /\ UNCHANGED <<built, left, pointer, tables, starts, losses, history>>

RecordMoved(p) ==
    /\ proc[p].at = "moved" /\ Unlocked
    /\ \/ \E r \in proc[p].moved :
              /\ \E where \in Reads(r) : recorded' = [recorded EXCEPT ![r] = where]
              /\ Begin(p, [proc[p] EXCEPT !.moved = @ \ {r}])
       \/ proc[p].moved = {} /\ Done(p) /\ UNCHANGED recorded
    /\ UNCHANGED <<disk, row, source, lineage, alias, chosen, starts, losses, history>>

(***************************************************************************)
(* rebuild: the manifests found at the start are registered twice, in some *)
(* order, because a parent is linked only when it has a row; then every    *)
(* pointer is promoted, and one to an unknown version is passed over.      *)
(* Names with a dot sort first, so that the candidates of a version come   *)
(* before the version itself; a candidate that is gone by now raises.      *)
(***************************************************************************)
OnePass == 1 \* mutant: the manifests are registered once
Passes == 2

RebuildRow(p) ==
    /\ proc[p].at = "manifests" /\ Unlocked
    /\ \E f \in proc[p].todo :
           /\ f[2] = "final" => \A g \in proc[p].todo : g[1] = f[1] => g = f
           /\ f[2] # "final" => \E c \in Candidates : c[1] = f[1]
           /\ RegisterVersion(f[1], f[2])
           /\ Begin(p, [proc[p] EXCEPT !.todo = @ \ {f}])
           /\ phantom' = IF f[2] # "final" THEN phantom \cup {f[1]} ELSE phantom
    /\ UNCHANGED <<disk, recorded, alias, chosen, starts, losses, drifted, split>>

RebuildPass(p) ==
    /\ proc[p].at = "manifests" /\ proc[p].todo = {}
    /\ Begin(p, IF proc[p].pass < Passes
                THEN [proc[p] EXCEPT !.pass = @ + 1, !.todo = proc[p].found]
                ELSE [proc[p] EXCEPT !.at = "pointers",
                                     !.aliases = {a \in Alias : pointer[a] # None}])
    /\ UNCHANGED <<disk, tables, starts, losses, history>>

RebuildAlias(p) ==
    /\ proc[p].at = "pointers"
    /\ \/ \E a \in proc[p].aliases :
              Begin(p, [proc[p] EXCEPT !.aliases = @ \ {a}, !.alias = a, !.version = pointer[a],
                            !.at = IF row[pointer[a]] # "none" THEN "pointer" ELSE "pointers"])
       \/ proc[p].aliases = {} /\ Done(p)
    /\ UNCHANGED <<disk, tables, starts, losses, history>>

--------------------------------------------------------------------------------
(* A process dies, or its method raises.  The open transaction of promote  *)
(* is rolled back; the pointer file stays as it was written.  A method     *)
(* that raises removes its candidate, a process that dies leaves it.       *)
Kill(p) ==
    /\ proc[p].at # "idle"
    /\ Done(p)
    /\ drifted' = IF proc[p].at = "commit" THEN drifted \cup {proc[p].alias} ELSE drifted
    /\ \/ UNCHANGED left
       \/ /\ Cardinality(left) < MaxLeft
          /\ \E c \in Holds(p) : left' = left \cup {c}
    /\ UNCHANGED <<place, built, pointer, tables, starts, losses, phantom, split>>

(* registry.sqlite3 is lost, or put aside, while nothing runs.             *)
LoseRegistry ==
    /\ losses < MaxLosses /\ \A p \in Proc : proc[p].at = "idle"
    /\ row' = [v \in Version |-> "none"] /\ lineage' = {}
    /\ source' = [v \in Version |-> "none"]
    /\ recorded' = [r \in Release |-> "none"]
    /\ alias' = [a \in Alias |-> None] /\ chosen' = None
    /\ losses' = losses + 1
    /\ drifted' = Alias /\ split' = FALSE
    /\ UNCHANGED <<disk, proc, starts, phantom>>

Next ==
    \/ \E p \in Proc :
          \/ Start(p) \/ Freeze(p) \/ Build(p) \/ Stamp(p) \/ Place(p) \/ Register(p) \/ Record(p)
          \/ WritePointer(p) \/ Commit(p) \/ Snapshot(p) \/ Select(p) \/ Choose(p)
          \/ Archive(p) \/ RecordMoved(p) \/ RebuildRow(p) \/ RebuildPass(p)
          \/ RebuildAlias(p) \/ Kill(p)
    \/ LoseRegistry

Spec == Init /\ [][Next]_vars

--------------------------------------------------------------------------------
(* The variables keep their types.                                         *)
TypeOK ==
    /\ place \in [Release -> SUBSET Where] /\ built \subseteq Version
    /\ left \subseteq Version \X {"fresh", "stamped"}
    /\ source \in [Version -> {"none", "fresh", "stamped", "final"}]
    /\ row \in [Version -> Status] /\ lineage \subseteq Version \X Version
    /\ recorded \in [Release -> Where \cup {"none"}]
    /\ alias \in [Alias -> Version \cup {None}] /\ chosen \in Release \cup {None}
    /\ pointer \in [Alias -> Version \cup {None}]
    /\ proc \in [Proc -> ProcState]
    /\ starts \in 0 .. MaxStarts /\ losses \in 0 .. MaxLosses
    /\ drifted \subseteq Alias /\ phantom \subseteq Version /\ split \in BOOLEAN

(* Whatever interleaves, dies or is lost: what the registry or a pointer   *)
(* names is in place, a row that a publication wrote or a rebuild took     *)
(* from the directory itself, an alias has its row, and a release is whole *)
(* somewhere.  Only what a rebuild once registered from a candidate may be *)
(* named and not be there: _publish_candidate writes the PUBLISHED         *)
(* manifest before the rename, and rebuild reads every manifest it finds.  *)
NamedIsInPlace ==
    /\ \A v \in Version : row[v] # "none" => v \in built \/ (source[v] # "final" /\ v \in phantom)
    /\ \A a \in Alias : /\ alias[a] # None => row[alias[a]] # "none"
                        /\ pointer[a] # None => pointer[a] \in built \cup phantom
    /\ \A r \in Release : recorded[r] # "none" => place[r] \ {"torn"} # {}
    /\ chosen # None => recorded[chosen] # "none"

(* The same without that exception, which a process killed before its      *)
(* rename and a rebuild violate; and that the row of a release says where  *)
(* the release is ("historical registry rows remain replayable",           *)
(* bootstrap.py), which an archiving that is killed violates.  No run      *)
(* checks them: see README, section 6.                                     *)
RowsInPlace == \A v \in Version : row[v] # "none" => v \in built
ReleaseRowsTrue == \A r \in Release : recorded[r] # "none" => recorded[r] \in place[r]

(* The pointer files agree with the aliases, two concurrent promotions of  *)
(* one alias included, unless a research snapshot moved the alias, a       *)
(* promotion died before its commit, or the database was lost.             *)
PointersAgree ==
    \A a \in Alias \ drifted :
        pointer[a] = alias[a] \/ \E p \in Proc : proc[p].at = "commit" /\ proc[p].alias = a

(* promote_research_snapshot advances the bound aliases together: unless   *)
(* one of them was moved alone since, the dataset of the reference is      *)
(* bound to the release that is current, at every moment.                  *)
SnapshotBound ==
    ~split /\ chosen # None => alias[Ref] # None /\ BoundTo[alias[Ref]] = chosen

(* When registry-rebuild is through with the manifests, every version it   *)
(* found has its row and every parent it found is linked, whatever the     *)
(* order in which the manifests were read.                                 *)
RebuildRestores ==
    [][\A p \in Proc : proc[p].at = "manifests" /\ proc'[p].at = "pointers" =>
          \A f \in proc[p].found :
              /\ row'[f[1]] # "none"
              /\ \A g \in proc[p].found : g[1] \in Parents[f[1]] => <<f[1], g[1]>> \in lineage']_vars

(* docs/qlib_data_platform.md: aliases only target published versions.     *)
AliasPublished == \A a \in Alias : alias[a] # None => row[alias[a]] = "PUBLISHED"
================================================================================
