---------------------------- MODULE Fingerprints ----------------------------
(***************************************************************************)
(* The vendored fingerprints: the script that downloads them, the cache    *)
(* each process loads them into while several pages are matched at once,   *)
(* the matching, and the technology catalog filled from them.              *)
(*                                                                         *)
(* A regular expression is a model value; a page is the expressions that   *)
(* match its text and those that match a script's src.  One that does not  *)
(* compile matches no page.                                                *)
(***************************************************************************)
EXTENDS Naturals, Sequences

CONSTANTS
  Version,     \* pinned commits of webappanalyzer
  Vendored,    \* the technologies of each file of each version
  Categories,  \* the category names of each version, by id
  Overrides,   \* PATTERN_OVERRIDES: patterns by technology, "html" or "scriptSrc"
  Task,        \* matches of pages, and the runs of the catalog script
  Process,     \* workers, and the processes of the catalog script
  ProcessOf,   \* the process of each task
  CatalogScript,  \* processes that run the catalog script
  Html,        \* pages
  None,
  MaxFaults    \* bound: restarts of processes, loads that fail, syncs

File == UNION {DOMAIN Vendored[v] : v \in Version}

ASSUME FingerprintsAssumption ==
  /\ None \notin Version
  /\ CatalogScript \subseteq Process
  /\ ProcessOf \in [Task -> Process]
  /\ MaxFaults \in Nat
  /\ File \subseteq Nat   \* numbered in the order of their names
  \* an override has patterns only
  /\ \A name \in DOMAIN Overrides : DOMAIN Overrides[name] \subseteq {"html", "scriptSrc"}
  /\ \A v \in Version : \A f \in DOMAIN Vendored[v] : \A t \in Vendored[v][f] : DOMAIN t = {"name", "cats", "html", "scriptSrc"}
  \* a technology stays in its file
  /\ \A v, w \in Version : \A f \in DOMAIN Vendored[v], g \in DOMAIN Vendored[w] :
       \A t \in Vendored[v][f], u \in Vendored[w][g] : t.name = u.name => f = g

VARIABLES
  categoriesFile,  \* the version of categories.json on disk
  files,           \* the version of each technology file on disk
  download,        \* the sync script: its version, what it has still to fetch
  categories,      \* TechnologyFingerprints.categories of each process
  technologies,    \* TechnologyFingerprints.technologies of each process
  task,            \* what each task is doing
  catalog,         \* technologies: rows of the catalog, category by name
  calm,            \* history: the disk was whole and untouched since the process started
  faults           \* faults and syncs so far

fingerprintVars == <<categoriesFile, files, download, categories, technologies, task, catalog, calm, faults>>

Waiting == [at |-> "start", read |-> <<>>, todo |-> {}, result |-> None, page |-> None]

NoDownload == [version |-> None, todo |-> {}]

FingerprintInit ==
  \E v \in Version :
    /\ categoriesFile = v
    /\ files = [f \in File |-> IF f \in DOMAIN Vendored[v] THEN v ELSE None]
    /\ download = NoDownload
    /\ categories = [p \in Process |-> None]
    /\ technologies = [p \in Process |-> None]
    /\ task = [k \in Task |-> Waiting]
    /\ catalog = {}
    /\ calm = [p \in Process |-> TRUE]
    /\ faults = 0

---------------------------------------------------------------------------
(* sync-technologies: one file after another, the categories first.  A     *)
(* file that upstream has dropped stays on disk.                           *)

StartDownload(v) ==
  /\ download = NoDownload /\ faults < MaxFaults
  /\ download' = [version |-> v, todo |-> DOMAIN Vendored[v]]
  /\ categoriesFile' = v
  /\ calm' = [p \in Process |-> FALSE]
  /\ faults' = faults + 1
  /\ UNCHANGED <<files, categories, technologies, task, catalog>>

FetchFile(f) ==
  /\ f \in download.todo /\ \A g \in download.todo : f <= g
  /\ files' = [files EXCEPT ![f] = download.version]
  /\ download' = IF download.todo = {f} THEN NoDownload ELSE [download EXCEPT !.todo = @ \ {f}]
  /\ UNCHANGED <<categoriesFile, categories, technologies, task, catalog, calm, faults>>

\* A fetch fails: the script throws and leaves what it has written.
AbortDownload ==
  /\ download # NoDownload
  /\ download' = NoDownload
  /\ UNCHANGED <<categoriesFile, files, categories, technologies, task, catalog, calm, faults>>

---------------------------------------------------------------------------
(* TechnologyMatcher.match and SyncTechnologyCatalogCommand.run *)

Goes(k, changes) ==
  task' = [task EXCEPT ![k] = [f \in DOMAIN Waiting |-> IF f \in DOMAIN changes THEN changes[f] ELSE @[f]]]

IsMatch(t, page) == t.html \cap page.html # {} \/ t.scriptSrc \cap page.scriptSrc # {}

\* The name of the first category, or none.
CategoryOf(t, version) ==
  IF t.cats # <<>> /\ Head(t.cats) \in DOMAIN Categories[version]
  THEN Categories[version][Head(t.cats)] ELSE None

Detected(techs, version, page) ==
  {[name |-> t.name, category |-> CategoryOf(t, version)] : t \in {u \in techs : IsMatch(u, page)}}

\* One statement inserts or updates every entry; no row is deleted.
UpsertMany(entries) ==
  catalog' = entries \cup {c \in catalog : \A e \in entries : e.name # c.name}

\* What a task does with the technologies, once it has them: getCategories
\* finds its field set, so nothing is awaited but the catalog's statement.
Finish(k, techs, page) ==
  LET version == categories[ProcessOf[k]] IN
  IF ProcessOf[k] \in CatalogScript
  THEN /\ UpsertMany({[name |-> t.name, category |-> CategoryOf(t, version)] : t \in techs})
       /\ Goes(k, [at |-> "done"])
  ELSE /\ Goes(k, [at |-> "done", page |-> page, result |-> Detected(techs, version, page)])
       /\ UNCHANGED catalog

---------------------------------------------------------------------------
(* TechnologyFingerprints: each load sets the categories at once, and the  *)
(* technologies when every file is read.                                   *)

GetTechnologies(k, page) ==
  /\ task[k].at = "start"
  /\ IF technologies[ProcessOf[k]] # None
     THEN Finish(k, technologies[ProcessOf[k]], page)
     ELSE Goes(k, [at |-> "loading", page |-> page]) /\ UNCHANGED catalog
  /\ UNCHANGED <<categoriesFile, files, download, categories, technologies, calm, faults>>

ReadCategories(k) ==
  /\ task[k].at = "loading"
  /\ categories' = [categories EXCEPT ![ProcessOf[k]] = categoriesFile]
  /\ Goes(k, [at |-> "listing"])
  /\ UNCHANGED <<categoriesFile, files, download, technologies, catalog, calm, faults>>

ReadDirectory(k) ==
  /\ task[k].at = "listing"
  /\ Goes(k, [at |-> "reading", read |-> [f \in File |-> None], todo |-> {f \in File : files[f] # None}])
  /\ UNCHANGED <<categoriesFile, files, download, categories, technologies, catalog, calm, faults>>

ReadFile(k, f) ==
  /\ task[k].at = "reading" /\ f \in task[k].todo /\ \A g \in task[k].todo : f <= g
  /\ Goes(k, [read |-> [task[k].read EXCEPT ![f] = files[f]], todo |-> task[k].todo \ {f}])
  /\ UNCHANGED <<categoriesFile, files, download, categories, technologies, catalog, calm, faults>>

\* The technologies of the files read, without and with the overrides.
Raw(read) == UNION {Vendored[read[f]][f] : f \in {g \in File : read[g] # None}}

Overridden(t) ==
  IF t.name \in DOMAIN Overrides
  THEN LET patterns == Overrides[t.name]
       IN  [x \in DOMAIN t |-> IF x \in DOMAIN patterns THEN patterns[x] ELSE t[x]]
  ELSE t

ApplyPatternOverrides(techs) == {Overridden(t) : t \in techs}

Overridable(techs) == \A name \in DOMAIN Overrides : \E t \in techs : t.name = name

\* Faulty: the field is set before the files are read.
EarlyEndLoad(k) ==
  /\ task[k].at = "reading"
  /\ LET loaded == ApplyPatternOverrides(Raw(task[k].read)) IN
       /\ technologies' = [technologies EXCEPT ![ProcessOf[k]] = loaded]
       /\ IF task[k].todo = {} THEN Finish(k, loaded, task[k].page) ELSE UNCHANGED <<task, catalog>>
  /\ UNCHANGED <<categoriesFile, files, download, categories, calm, faults>>

\* A technology to override is missing: the load throws, and so will every
\* other of this disk.
EndLoad(k) ==
  /\ task[k].at = "reading" /\ task[k].todo = {}
  /\ IF Overridable(Raw(task[k].read))
     THEN LET loaded == ApplyPatternOverrides(Raw(task[k].read)) IN
            /\ technologies' = [technologies EXCEPT ![ProcessOf[k]] = loaded]
            /\ Finish(k, loaded, task[k].page)
     ELSE /\ task' = [task EXCEPT ![k] = Waiting]
          /\ UNCHANGED <<technologies, catalog>>
  /\ UNCHANGED <<categoriesFile, files, download, categories, calm, faults>>

\* A file is unreadable, or half written when it is read.
LoadFails(k) ==
  /\ task[k].at \in {"loading", "reading"} /\ faults < MaxFaults
  /\ task' = [task EXCEPT ![k] = Waiting]
  /\ faults' = faults + 1
  /\ UNCHANGED <<categoriesFile, files, download, categories, technologies, catalog, calm>>

\* The files of one version, and maybe of ones that it has no more.
DiskIsWhole == \A f \in DOMAIN Vendored[categoriesFile] : files[f] = categoriesFile

\* Memory goes with the process; its tasks start again in the next one.
Restart(p) ==
  /\ faults < MaxFaults
  /\ categories' = [categories EXCEPT ![p] = None]
  /\ technologies' = [technologies EXCEPT ![p] = None]
  /\ task' = [k \in Task |-> IF ProcessOf[k] = p THEN Waiting ELSE task[k]]
  /\ calm' = [calm EXCEPT ![p] = download = NoDownload /\ DiskIsWhole]
  /\ faults' = faults + 1
  /\ UNCHANGED <<categoriesFile, files, download, catalog>>

FingerprintNext ==
  \/ \E v \in Version : StartDownload(v)
  \/ \E f \in File : FetchFile(f)
  \/ AbortDownload
  \/ \E k \in Task :
       \/ \E page \in Html : GetTechnologies(k, page)
       \/ ReadCategories(k) \/ ReadDirectory(k) \/ EndLoad(k) \/ LoadFails(k)
       \/ \E f \in File : ReadFile(k, f)
  \/ \E p \in Process : Restart(p)

FingerprintSpec == FingerprintInit /\ [][FingerprintNext]_fingerprintVars

---------------------------------------------------------------------------
(* Properties. *)

\* What a version detects on a page, by its definition.
Reference(version, page) ==
  LET vendored == UNION {Vendored[version][f] : f \in DOMAIN Vendored[version]} IN
  {[name |-> t.name, category |-> CategoryOf(t, version)] :
     t \in {u \in vendored : IsMatch(Overridden(u), page)}}

\* However the matches of a worker share its cache while it is filled: a page
\* that is matched over files nobody has touched is matched by one whole
\* version and its overrides, no technology or category missing, and any
\* further one is of a file that version has dropped.  Over files of several
\* versions, too, no overridden pattern is used.
MatchesAreWhole ==
  \A k \in Task : task[k].result # None =>
    /\ calm[ProcessOf[k]] =>
         \E v \in Version :
           /\ Reference(v, task[k].page) \subseteq task[k].result
           /\ \A d \in task[k].result \ Reference(v, task[k].page) :
                \A f \in DOMAIN Vendored[v] : \A t \in Vendored[v][f] : t.name # d.name
    /\ \A d \in task[k].result : d.name \in DOMAIN Overrides =>
         \E v \in Version, f \in File : f \in DOMAIN Vendored[v] /\ \E t \in Vendored[v][f] :
           t.name = d.name /\ IsMatch(Overridden(t), task[k].page)

=============================================================================
