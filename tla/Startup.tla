------------------------------ MODULE Startup -------------------------------
(***************************************************************************)
(* How the worker processes of one container start (lifespan of            *)
(* api/main.py): the check of the configuration, the tables and columns    *)
(* that are missing, the default grant sources, and the corpus, which the  *)
(* first process computes and writes to a file in place.  Workers start at *)
(* the same time and share the database and the file.  A worker that       *)
(* raises while it starts stops the container, which starts again.         *)
(*                                                                         *)
(* The database is SQLite, where each ALTER TABLE commits by itself.       *)
(***************************************************************************)
EXTENDS Naturals, Sequences, FiniteSets

CONSTANTS
    Worker, Script,    \* processes that serve; runs of scripts/refresh_index.py
    Table,
    AddedColumns,      \* _ADDED_COLUMNS: the sequence of [table, column, default]
    Backfilled,        \* the entries of it whose NULLs the backfill replaces
    DefaultSources,    \* the names of DEFAULT_GRANT_SOURCES
    OldTables,         \* tables an earlier version may have left, with rows
    OldSources,        \* default sources an earlier version may have stored
    Environments,      \* what the environment variables may say
    None,
    MaxCrashes, MaxRefreshes

Columns == {AddedColumns[i] : i \in DOMAIN AddedColumns}

(* No column is listed twice in _ADDED_COLUMNS. *)
ASSUME StartupAssumption ==
    /\ AddedColumns \in Seq(Columns)
    /\ \A i, j \in DOMAIN AddedColumns : i # j => AddedColumns[i] # AddedColumns[j]
    /\ \A c \in Columns : c.table \in Table /\ c.default \in BOOLEAN
    /\ Backfilled \subseteq Columns /\ OldTables \subseteq Table
    /\ OldSources \subseteq DefaultSources
    /\ Worker \cap Script = {}
    /\ None \notin [by : Worker \cup Script, closed : BOOLEAN]
    /\ Environments \subseteq [production : BOOLEAN, cors : BOOLEAN, key : BOOLEAN,
                                 scheduler : BOOLEAN]

VARIABLES
    env,         \* what api/config.py read from the environment
    tables,      \* the tables that exist
    columns,     \* the added columns that exist
    nulls,       \* the added columns that hold NULL in some row
    sources,     \* the default sources that have a row in grant_sources
    file,        \* opportunities_clean.pkl: who opened it last, and closed it; or None
    proc,        \* what each process is at
    build,       \* Corpus.build: "none", "build" (computing) or "write"
    scheduler,   \* the workers whose scheduler runs
    crashes, refreshes,
    wrote        \* history: the steps in which a worker wrote since the container started

db == <<tables, columns, nulls, sources>>
vars == <<env, db, file, proc, build, scheduler, crashes, refreshes, wrote>>

Process == Worker \cup Script
AddedTo(t) == {c \in Columns : c.table = t}

(* missing: what it found missing.  looked, seen: the columns the          *)
(* Inspector has cached.  at: where in _ADDED_COLUMNS it is.               *)
At(pc) == [pc |-> pc, missing |-> {}, looked |-> {}, seen |-> {}, at |-> 1]

(* A new database, or one that an earlier version left. *)
Init ==
    /\ env \in Environments
    /\ \/ tables = {} /\ columns = {} /\ nulls = {} /\ sources = {}
       \/ tables = OldTables /\ columns = {} /\ nulls = {} /\ sources = OldSources
    /\ file = None
    /\ proc = [p \in Process |-> At(IF p \in Worker THEN "down" ELSE "script")]
    /\ build = [p \in Process |-> "none"]
    /\ scheduler = {} /\ crashes = 0 /\ refreshes = 0
    /\ wrote = [w \in Worker |-> {}]

Goto(p, pc) == proc' = [proc EXCEPT ![p].pc = pc]
Failed == {w \in Worker : proc[w].pc = "failed"}
Note(w, step) == wrote' = [wrote EXCEPT ![w] = @ \cup {step}]
Rest == UNCHANGED <<env, build, scheduler, crashes, refreshes>>

-----------------------------------------------------------------------------
(* Gunicorn starts a worker, at first and after it has died. *)
Boot(w) ==
    /\ proc[w].pc = "down" /\ Failed = {}
    /\ proc' = [proc EXCEPT ![w] = At("config")]
    /\ UNCHANGED <<db, file, wrote>> /\ Rest

ConfigSafe == env.production => env.cors /\ env.key

CheckProductionConfig(w) ==
    /\ proc[w].pc = "config"
    /\ Goto(w, IF ConfigSafe THEN "tables" ELSE "failed")
    /\ UNCHANGED <<db, file, wrote>> /\ Rest

(* Mutant: the tables are created without a look. *)
LookForTablesNever(w) ==
    /\ proc[w].pc = "tables"
    /\ proc' = [proc EXCEPT ![w].pc = "create", ![w].missing = Table]
    /\ UNCHANGED <<db, file, wrote>> /\ Rest

(* create_all looks which tables are missing, then creates them in turn. *)
LookForTables(w) ==
    /\ proc[w].pc = "tables"
    /\ proc' = [proc EXCEPT ![w].pc = "create", ![w].missing = Table \ tables]
    /\ UNCHANGED <<db, file, wrote>> /\ Rest

CreateTable(w, t) ==
    /\ proc[w].pc = "create" /\ t \in proc[w].missing
    /\ \/ /\ t \notin tables
          /\ tables' = tables \cup {t} /\ columns' = columns \cup AddedTo(t)
          /\ proc' = [proc EXCEPT ![w].missing = @ \ {t}]
          /\ Note(w, "create")
       \/ t \in tables /\ Goto(w, "failed") /\ UNCHANGED <<tables, columns, wrote>>
    /\ UNCHANGED <<nulls, sources, file>> /\ Rest

TablesCreated(w) ==
    /\ proc[w].pc = "create" /\ proc[w].missing = {}
    /\ Goto(w, "columns")
    /\ UNCHANGED <<db, file, wrote>> /\ Rest

-----------------------------------------------------------------------------
(* _add_missing_columns *)
Entry(w) == AddedColumns[proc[w].at]
AtEntry(w) == proc[w].pc = "columns" /\ proc[w].at <= Len(AddedColumns)

(* The Inspector asks for the columns of a table once. *)
InspectTable(w) ==
    /\ AtEntry(w) /\ Entry(w).table \notin proc[w].looked
    /\ proc' = [proc EXCEPT ![w].looked = @ \cup {Entry(w).table},
                            ![w].seen = @ \cup (columns \cap AddedTo(Entry(w).table))]
    /\ UNCHANGED <<db, file, wrote>> /\ Rest

Inspected(w) == AtEntry(w) /\ Entry(w).table \in proc[w].looked

SkipColumn(w) ==
    /\ Inspected(w) /\ Entry(w) \in proc[w].seen
    /\ proc' = [proc EXCEPT ![w].at = @ + 1]
    /\ UNCHANGED <<db, file, wrote>> /\ Rest

AddColumn(w) ==
    /\ Inspected(w) /\ Entry(w) \notin proc[w].seen
    /\ \/ /\ Entry(w) \notin columns
          /\ columns' = columns \cup {Entry(w)}
          /\ nulls' = IF Entry(w).default THEN nulls ELSE nulls \cup {Entry(w)}
          /\ proc' = [proc EXCEPT ![w].at = @ + 1]
          /\ Note(w, "columns")
       \/ Entry(w) \in columns /\ Goto(w, "failed") /\ UNCHANGED <<columns, nulls, wrote>>
    /\ UNCHANGED <<tables, sources, file>> /\ Rest

(* Mutant: only a start that has added columns fills them. *)
BackfillOwn(w) ==
    /\ proc[w].pc = "columns" /\ proc[w].at > Len(AddedColumns)
    /\ nulls' = IF "columns" \in wrote[w] THEN nulls \ Backfilled ELSE nulls
    /\ Goto(w, "sources")
    /\ UNCHANGED <<tables, columns, sources, file, wrote>> /\ Rest

(* The three UPDATEs commit together. *)
Backfill(w) ==
    /\ proc[w].pc = "columns" /\ proc[w].at > Len(AddedColumns)
    /\ nulls' = nulls \ Backfilled
    /\ Goto(w, "sources")
    /\ UNCHANGED <<tables, columns, sources, file, wrote>> /\ Rest

(* Mutant: when one default source is missing, all are inserted. *)
LookForSourcesOnce(w) ==
    /\ proc[w].pc = "sources"
    /\ proc' = [proc EXCEPT ![w].pc = "seed",
                            ![w].missing = IF sources = DefaultSources THEN {}
                                           ELSE DefaultSources]
    /\ UNCHANGED <<db, file, wrote>> /\ Rest

(* _seed_grant_sources: look for each default source, insert the missing   *)
(* ones in one commit.  grant_sources.name is unique.                      *)
LookForSources(w) ==
    /\ proc[w].pc = "sources"
    /\ proc' = [proc EXCEPT ![w].pc = "seed", ![w].missing = DefaultSources \ sources]
    /\ UNCHANGED <<db, file, wrote>> /\ Rest

SeedGrantSources(w) ==
    /\ proc[w].pc = "seed"
    /\ \/ /\ proc[w].missing \cap sources = {}
          /\ sources' = sources \cup proc[w].missing
          /\ Goto(w, "corpus") /\ Note(w, "seed")
       \/ /\ proc[w].missing \cap sources # {}
          /\ Goto(w, "failed") /\ UNCHANGED <<sources, wrote>>
    /\ UNCHANGED <<tables, columns, nulls, file>> /\ Rest

-----------------------------------------------------------------------------
(* The file can be read once its last opener has closed it: an earlier     *)
(* opener that still writes only repeats the same bytes.                   *)
Whole == file # None /\ file.closed
Torn == file # None /\ ~file.closed

Started(w) ==
    /\ Goto(w, "ready")
    /\ scheduler' = IF env.scheduler THEN scheduler \cup {w} ELSE scheduler

(* get_corpus and build without force_rebuild: an existing file is read,   *)
(* which raises when it is not whole.                                      *)
ReadCorpus(w) ==
    /\ proc[w].pc = "corpus" /\ build[w] = "none" /\ file # None
    /\ \/ Whole /\ Started(w)
       \/ Torn /\ Goto(w, "failed") /\ UNCHANGED scheduler
    /\ UNCHANGED <<env, db, file, build, crashes, refreshes, wrote>>

BuildCorpus(w) ==
    /\ proc[w].pc = "corpus" /\ build[w] = "none" /\ file = None
    /\ build' = [build EXCEPT ![w] = "build"]
    /\ UNCHANGED <<env, db, file, proc, scheduler, crashes, refreshes, wrote>>

(* reset_corpus(force_rebuild): by POST /admin/refresh-index in a thread   *)
(* of a worker that goes on serving, or by the script.                     *)
RefreshIndex(p) ==
    /\ proc[p].pc \in {"ready", "script"} /\ build[p] = "none"
    /\ refreshes < MaxRefreshes /\ refreshes' = refreshes + 1
    /\ build' = [build EXCEPT ![p] = "build"]
    /\ UNCHANGED <<env, db, file, proc, scheduler, crashes, wrote>>

(* to_pickle truncates the file and writes it in place. *)
OpenCorpus(p) ==
    /\ build[p] = "build"
    /\ file' = [by |-> p, closed |-> FALSE]
    /\ build' = [build EXCEPT ![p] = "write"]
    /\ UNCHANGED <<env, db, proc, scheduler, crashes, refreshes, wrote>>

CloseCorpus(p) ==
    /\ build[p] = "write"
    /\ file' = IF file.by = p THEN [file EXCEPT !.closed = TRUE] ELSE file
    /\ build' = [build EXCEPT ![p] = "none"]
    /\ IF proc[p].pc = "corpus" THEN Started(p) ELSE UNCHANGED <<proc, scheduler>>
    /\ UNCHANGED <<env, db, crashes, refreshes, wrote>>

-----------------------------------------------------------------------------
(* A process is killed wherever it is. *)
Crash(p) ==
    /\ proc[p].pc \notin {"down", "failed"}
    /\ crashes < MaxCrashes /\ crashes' = crashes + 1
    /\ proc' = [proc EXCEPT ![p] = At(IF p \in Worker THEN "down" ELSE "script")]
    /\ build' = [build EXCEPT ![p] = "none"]
    /\ scheduler' = scheduler \ {p}
    /\ UNCHANGED <<env, db, file, refreshes, wrote>>

(* A worker that fails to start makes gunicorn stop the others and exit. *)
Stop ==
    /\ Failed # {}
    /\ proc' = [p \in Process |-> IF p \in Worker THEN At("down") ELSE proc[p]]
    /\ build' = [p \in Process |-> IF p \in Worker THEN "none" ELSE build[p]]
    /\ scheduler' = {}
    /\ wrote' = [w \in Worker |-> {}]
    /\ UNCHANGED <<env, db, file, crashes, refreshes>>

Start(w) ==
    \/ Boot(w) \/ CheckProductionConfig(w)
    \/ LookForTables(w) \/ (\E t \in Table : CreateTable(w, t)) \/ TablesCreated(w)
    \/ InspectTable(w) \/ SkipColumn(w) \/ AddColumn(w) \/ Backfill(w)
    \/ LookForSources(w) \/ SeedGrantSources(w)
    \/ ReadCorpus(w) \/ BuildCorpus(w)

Write(p) == OpenCorpus(p) \/ CloseCorpus(p)

Next ==
    \/ \E w \in Worker : Start(w)
    \/ \E p \in Process : Write(p) \/ RefreshIndex(p) \/ Crash(p)
    \/ Stop

(* Processes run, and the platform starts a container that has stopped. *)
Spec ==
    /\ Init /\ [][Next]_vars
    /\ \A w \in Worker : WF_vars(Start(w))
    /\ \A p \in Process : WF_vars(Write(p))
    /\ WF_vars(Stop)

-----------------------------------------------------------------------------
(* A process is at one of the steps of lifespan, and serves with a corpus  *)
(* that it has built or read whole.                                        *)
TypeOK ==
    /\ tables \subseteq Table /\ columns \subseteq Columns /\ nulls \subseteq columns
    /\ sources \subseteq DefaultSources
    /\ file \in [by : Process, closed : BOOLEAN] \cup {None}
    /\ \A w \in Worker : /\ proc[w].pc \in {"down", "config", "tables", "create", "columns",
                                            "sources", "seed", "corpus", "ready", "failed"}
                         /\ proc[w].at \in 1 .. Len(AddedColumns) + 1
    /\ \A p \in Script : proc[p].pc = "script"
    /\ build \in [Process -> {"none", "build", "write"}]
    /\ scheduler \subseteq {w \in Worker : proc[w].pc = "ready"}

(* The database of a worker that serves has every table and column, no     *)
(* NULL that the backfill replaces, and every default source, in whatever  *)
(* order starts overlap, fail and repeat (api/main.py, lifespan).          *)
ReadyMeansMigrated ==
    /\ TypeOK
    /\ \A w \in Worker : proc[w].pc = "ready" =>
           /\ tables = Table /\ columns = Columns
           /\ nulls \cap Backfilled = {}
           /\ sources = DefaultSources

(* A start does not fail for what an earlier one left in the database,     *)
(* complete or not; only for a configuration that is refused, for a torn   *)
(* file, or for what another worker of the same container wrote at the     *)
(* same step.  The last is an exception that api/db/migrations.py:6-9 does *)
(* not make: see DuplicateColumnsIgnored.                                  *)
RestartSafe ==
    [][\A w \in Worker : proc[w].pc # "failed" /\ proc'[w].pc = "failed" =>
           \/ proc[w].pc = "config" /\ ~ConfigSafe
           \/ proc[w].pc = "corpus" /\ Torn
           \/ \E v \in Worker \ {w} : proc[w].pc \in wrote[v]]_vars

(* "Ignoring duplicate column errors so it's safe to call on every         *)
(* startup" (api/db/migrations.py:6-9): no start fails at the columns.     *)
(* Two workers that both found a column missing refute it: the statement   *)
(* of the second raises.                                                   *)
DuplicateColumnsIgnored ==
    [][\A w \in Worker : proc[w].pc = "columns" => proc'[w].pc # "failed"]_vars

(* A container of an accepted configuration ends up serving with all its   *)
(* workers, however their starts race and crash, unless a torn file stays. *)
Serves ==
    ConfigSafe => \/ <>[](\A w \in Worker : proc[w].pc = "ready")
                  \/ <>[]Torn

=============================================================================
