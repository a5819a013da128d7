--------------------------- MODULE StartupProofs ----------------------------
(***************************************************************************)
(* Theorems about Startup, for any number of workers and scripts, any      *)
(* tables, columns and default sources, and any number of crashes.         *)
(***************************************************************************)
EXTENDS Startup, TLAPS

Steps == {"down", "config", "tables", "create", "columns", "sources", "seed", "corpus",
          "ready", "failed"}

Place == [pc : Steps \cup {"script"}, missing : SUBSET (Table \cup DefaultSources),
          looked : SUBSET Table, seen : SUBSET Columns, at : 1 .. Len(AddedColumns) + 1]

Shape ==
    /\ proc \in [Process -> Place]
    /\ \A w \in Worker :
           /\ proc[w].pc \in Steps
           /\ proc[w].pc \in {"config", "tables", "create"} =>
                  proc[w].at = 1 /\ proc[w].looked = {} /\ proc[w].seen = {}
    /\ wrote \in [Worker -> SUBSET {"create", "columns", "seed"}]
    /\ \A p \in Process : build[p] = "write" => file # None

(* What a worker has done holds of the database: what it is past, it can   *)
(* rely on, and what it still has to do is at most what it found missing.  *)
Done(w) ==
    /\ proc[w].pc = "create" => Table \ tables \subseteq proc[w].missing
    /\ proc[w].pc \in {"columns", "sources", "seed", "corpus", "ready"} => tables = Table
    /\ proc[w].pc = "columns" =>
           /\ \A i \in 1 .. proc[w].at - 1 : AddedColumns[i] \in columns
           /\ proc[w].seen \subseteq columns
    /\ proc[w].pc \in {"sources", "seed", "corpus", "ready"} =>
           columns = Columns /\ nulls \cap Backfilled = {}
    /\ proc[w].pc = "seed" =>
           /\ DefaultSources \ sources \subseteq proc[w].missing
           /\ proc[w].missing \subseteq DefaultSources
    /\ proc[w].pc \in {"corpus", "ready"} => sources = DefaultSources

(* The columns that worker w takes for missing and that exist by now.      *)
Overtaken(w) ==
    {c \in columns : /\ c.table \in proc[w].looked /\ c \notin proc[w].seen
                     /\ \E i \in proc[w].at .. Len(AddedColumns) : AddedColumns[i] = c}

ByAnother(w, step) == \E v \in Worker \ {w} : step \in wrote[v]

(* What a worker found missing and is there when it comes to write it was  *)
(* written meanwhile by another worker, at the same step.                  *)
Raced(w) ==
    /\ proc[w].pc = "create" /\ proc[w].missing \cap tables # {} => ByAnother(w, "create")
    /\ proc[w].pc = "columns" /\ Overtaken(w) # {} => ByAnother(w, "columns")
    /\ proc[w].pc = "seed" /\ proc[w].missing \cap sources # {} => ByAnother(w, "seed")

IInv == TypeOK /\ Shape /\ \A w \in Worker : Done(w) /\ Raced(w)

-----------------------------------------------------------------------------
Fresh(p) == At(IF p \in Worker THEN "down" ELSE "script")

LEMMA Reset ==
    /\ \A p \in Process : Fresh(p) \in Place
    /\ \A pc \in Steps \cup {"script"} : At(pc) \in Place /\ At(pc).pc = pc
    /\ \A w \in Worker : Fresh(w).pc = "down" /\ Fresh(w) = At("down")
    /\ \A p \in Script : Fresh(p).pc = "script"
<1>1. Len(AddedColumns) \in Nat
  BY StartupAssumption
<1>2. \A pc \in Steps \cup {"script"} : At(pc) \in Place /\ At(pc).pc = pc
  BY <1>1 DEF At, Place
<1> QED
  BY <1>2, StartupAssumption DEF Fresh, Steps, Process

(* Entries of _ADDED_COLUMNS. *)
LEMMA Entries ==
    /\ Len(AddedColumns) \in Nat
    /\ \A i \in 1 .. Len(AddedColumns) : AddedColumns[i] \in Columns
    /\ \A c \in Columns : c.table \in Table
    /\ \A c \in Columns : \E i \in 1 .. Len(AddedColumns) : AddedColumns[i] = c
    /\ \A i, j \in 1 .. Len(AddedColumns) : i # j => AddedColumns[i] # AddedColumns[j]
  BY StartupAssumption DEF Columns

LEMMA InitInv == Init => IInv
<1> SUFFICES ASSUME Init PROVE IInv
  OBVIOUS
<1>1. \A p \in Process : proc[p] = Fresh(p)
  BY DEF Init, Fresh
<1>2. proc \in [Process -> Place]
  BY <1>1, Reset DEF Init, Fresh
<1>3. \A w \in Worker : proc[w].pc = "down"
  BY <1>1, Reset DEF Process
<1>4. TypeOK
  <2>1. \A w \in Worker : proc[w].at \in 1 .. Len(AddedColumns) + 1
    BY <1>2 DEF Place, Process
  <2>2. \A p \in Script : proc[p].pc = "script"
    BY <1>1, Reset DEF Process
  <2> QED
    BY <1>3, <2>1, <2>2, StartupAssumption DEF Init, TypeOK, Process
<1>5. Shape
  BY <1>2, <1>3 DEF Init, Shape, Steps
<1>6. \A w \in Worker : Done(w) /\ Raced(w)
  BY <1>3 DEF Done, Raced
<1> QED
  BY <1>4, <1>5, <1>6 DEF IInv

-----------------------------------------------------------------------------
(* No step undoes what another has added, and every step is noted.         *)
Grows ==
    /\ tables \subseteq tables' /\ columns \subseteq columns' /\ sources \subseteq sources'
    /\ nulls' \subseteq nulls \cup (columns' \ columns)

Noted(w) ==
    /\ tables' # tables => "create" \in wrote'[w]
    /\ columns' # columns => tables' # tables \/ "columns" \in wrote'[w]
    /\ sources' # sources => "seed" \in wrote'[w]
    /\ \A v \in Worker : wrote[v] \subseteq wrote'[v]

(* What a worker relies on stays, whatever step another worker takes.      *)
LEMMA OtherStays ==
    ASSUME TypeOK, TypeOK', Grows, NEW w \in Worker, Noted(w),
           NEW v \in Worker, v # w, proc'[v] = proc[v], Done(v), Raced(v)
    PROVE  Done(v)' /\ Raced(v)'
<1>1. /\ tables' \subseteq Table /\ columns' \subseteq Columns /\ sources' \subseteq DefaultSources
  BY DEF TypeOK
<1>2. Done(v)'
  <2>1. columns = Columns /\ nulls \cap Backfilled = {} => columns' = Columns /\ nulls' \cap Backfilled = {}
    BY <1>1 DEF Grows
  <2> QED
    BY <1>1, <2>1 DEF Done, Grows
<1>3. \A step : ByAnother(v, step) => ByAnother(v, step)'
  BY DEF ByAnother, Noted
<1>4. proc'[v].pc = "create" /\ proc'[v].missing \cap tables' # {} => ByAnother(v, "create")'
  <2>1. CASE tables' = tables
    BY <1>3, <2>1 DEF Raced
  <2>2. CASE tables' # tables
    BY <2>2 DEF ByAnother, Noted
  <2> QED
    BY <2>1, <2>2
<1>5. proc'[v].pc = "columns" /\ Overtaken(v)' # {} => ByAnother(v, "columns")'
  <2>1. CASE columns' = columns
    <3>1. Overtaken(v)' = Overtaken(v)
      BY <2>1 DEF Overtaken
    <3> QED
      BY <1>3, <3>1 DEF Raced
  <2>2. CASE columns' # columns /\ proc[v].pc = "columns"
    <3>1. tables' = tables
      BY <1>1, <2>2 DEF Done, Grows
    <3> QED
      BY <2>2, <3>1 DEF ByAnother, Noted
  <2> QED
    BY <2>1, <2>2
<1>6. proc'[v].pc = "seed" /\ proc'[v].missing \cap sources' # {} => ByAnother(v, "seed")'
  <2>1. CASE sources' = sources
    BY <1>3, <2>1 DEF Raced
  <2>2. CASE sources' # sources
    BY <2>2 DEF ByAnother, Noted
  <2> QED
    BY <2>1, <2>2
<1> QED
  BY <1>2, <1>4, <1>5, <1>6 DEF Raced

(* A step of a worker that has not started yet.                            *)
LEMMA OwnStep ==
    ASSUME IInv, NEW w \in Worker, NEW r \in Place, r.pc \in Steps, proc[w].pc # "ready",
           r.pc \in {"config", "tables", "create"} =>
               r.at = 1 /\ r.looked = {} /\ r.seen = {},
           proc' = [proc EXCEPT ![w] = r], file' = file, build' = build, scheduler' = scheduler,
           tables' \subseteq Table, columns' \subseteq Columns, nulls' \subseteq columns',
           sources' \subseteq DefaultSources,
           wrote' \in [Worker -> SUBSET {"create", "columns", "seed"}],
           Grows, Noted(w), Done(w)', Raced(w)'
    PROVE  IInv'
<1>1. /\ proc' \in [Process -> Place] /\ proc'[w] = r
      /\ \A p \in Process \ {w} : proc'[p] = proc[p]
      /\ Worker \subseteq Process /\ Script \subseteq Process \ {w}
  BY StartupAssumption DEF IInv, Shape, Process
<1>2. TypeOK'
  <2>1. \A v \in Worker : proc'[v].pc \in Steps /\ proc'[v].at \in 1 .. Len(AddedColumns) + 1
    BY <1>1 DEF IInv, Shape, Place
  <2>2. \A p \in Script : proc'[p].pc = "script"
    BY <1>1 DEF IInv, TypeOK
  <2>3. scheduler' \subseteq {v \in Worker : proc'[v].pc = "ready"}
    BY <1>1 DEF IInv, TypeOK
  <2> QED
    BY <2>1, <2>2, <2>3 DEF IInv, TypeOK, Steps
<1>3. Shape'
  <2>1. \A v \in Worker :
            /\ proc'[v].pc \in Steps
            /\ proc'[v].pc \in {"config", "tables", "create"} =>
                   proc'[v].at = 1 /\ proc'[v].looked = {} /\ proc'[v].seen = {}
    <3> SUFFICES ASSUME NEW v \in Worker
                 PROVE  /\ proc'[v].pc \in Steps
                        /\ proc'[v].pc \in {"config", "tables", "create"} =>
                               proc'[v].at = 1 /\ proc'[v].looked = {} /\ proc'[v].seen = {}
      OBVIOUS
    <3>1. CASE v = w
      BY <1>1, <3>1
    <3>2. CASE v # w
      BY <1>1, <3>2 DEF IInv, Shape
    <3> QED
      BY <3>1, <3>2
  <2> QED
    BY <1>1, <2>1 DEF IInv, Shape
<1>4. \A v \in Worker \ {w} : Done(v)' /\ Raced(v)'
  BY <1>1, <1>2, OtherStays DEF IInv
<1> QED
  BY <1>2, <1>3, <1>4 DEF IInv

(* A step that leaves the database alone: the workers that stay where they *)
(* are can rely on what they could.                                        *)
LEMMA DatabaseSame ==
    ASSUME UNCHANGED db, wrote' = wrote, NEW v \in Worker, proc'[v] = proc[v], Done(v), Raced(v)
    PROVE  Done(v)' /\ Raced(v)'
<1>1. Overtaken(v)' = Overtaken(v)
  BY DEF Overtaken, db
<1>2. \A step : ByAnother(v, step)' = ByAnother(v, step)
  BY DEF ByAnother
<1> QED
  BY <1>1, <1>2 DEF Done, Raced, db

LEMMA QuietStep ==
    ASSUME IInv, NEW w \in Worker, NEW r \in Place, r.pc \in Steps, proc[w].pc # "ready",
           r.pc \in {"config", "tables", "create"} =>
               r.at = 1 /\ r.looked = {} /\ r.seen = {},
           proc' = [proc EXCEPT ![w] = r], file' = file, build' = build, scheduler' = scheduler,
           UNCHANGED db, wrote' = wrote, Done(w)', Raced(w)'
    PROVE  IInv'
<1>1. Grows /\ Noted(w)
  BY DEF Grows, Noted, db
<1>2. /\ tables' \subseteq Table /\ columns' \subseteq Columns /\ nulls' \subseteq columns'
      /\ sources' \subseteq DefaultSources
      /\ wrote' \in [Worker -> SUBSET {"create", "columns", "seed"}]
  BY DEF IInv, TypeOK, Shape, db
<1> QED
  BY <1>1, <1>2, OwnStep

-----------------------------------------------------------------------------
(* The steps of a start, as far as the columns.                            *)

LEMMA TablesInv ==
    ASSUME IInv, NEW w \in Worker,
           \/ LookForTables(w) \/ (\E t \in Table : CreateTable(w, t)) \/ TablesCreated(w)
    PROVE  IInv'
<1>0. /\ TypeOK /\ Shape /\ Done(w) /\ Raced(w)
      /\ w \in Process /\ proc[w] \in Place
  BY DEF IInv, Shape, Process
<1>1. CASE LookForTables(w)
  <2> DEFINE r == [proc[w] EXCEPT !.pc = "create", !.missing = Table \ tables]
  <2>1. /\ r \in Place /\ r.pc = "create" /\ r.missing = Table \ tables
        /\ r.at = 1 /\ r.looked = {} /\ r.seen = {}
    BY <1>0, <1>1 DEF Place, Steps, Shape, LookForTables
  <2>2. proc' = [proc EXCEPT ![w] = r]
    BY <1>1 DEF LookForTables
  <2> HIDE DEF r
  <2>3. proc'[w] = r
    BY <1>0, <2>2 DEF Shape
  <2>4. tables' = tables /\ r.missing \cap tables = {}
    BY <1>1, <2>1 DEF LookForTables, db
  <2>5. Done(w)' /\ Raced(w)'
    BY <2>1, <2>3, <2>4 DEF Done, Raced
  <2> QED
    BY <1>1, <2>1, <2>2, <2>5, QuietStep DEF LookForTables, Rest, Steps
<1>2. ASSUME NEW t \in Table, CreateTable(w, t) PROVE IInv'
  <2>1. CASE t \in tables
    <3> DEFINE r == [proc[w] EXCEPT !.pc = "failed"]
    <3>1. r \in Place /\ r.pc = "failed"
      BY <1>0 DEF Place, Steps
    <3>2. proc' = [proc EXCEPT ![w] = r]
      BY <1>2, <2>1 DEF CreateTable, Goto
    <3> HIDE DEF r
    <3>3. proc'[w] = r
      BY <1>0, <3>2 DEF Shape
    <3>4. Done(w)' /\ Raced(w)'
      BY <3>1, <3>3 DEF Done, Raced
    <3> QED
      BY <1>2, <2>1, <3>1, <3>2, <3>4, QuietStep DEF CreateTable, Rest, Steps, db
  <2>2. CASE t \notin tables
    <3> DEFINE r == [proc[w] EXCEPT !.missing = @ \ {t}]
    <3>1. /\ r \in Place /\ r.pc = "create" /\ r.missing = proc[w].missing \ {t}
          /\ r.at = 1 /\ r.looked = {} /\ r.seen = {}
      BY <1>0, <1>2 DEF Place, Shape, CreateTable
    <3>2. /\ proc' = [proc EXCEPT ![w] = r] /\ tables' = tables \cup {t}
          /\ columns' = columns \cup AddedTo(t) /\ nulls' = nulls /\ sources' = sources
          /\ wrote' = [wrote EXCEPT ![w] = @ \cup {"create"}]
      BY <1>2, <2>2 DEF CreateTable, Note
    <3> HIDE DEF r
    <3>3. proc'[w] = r
      BY <1>0, <3>2 DEF Shape
    <3>4. /\ wrote' \in [Worker -> SUBSET {"create", "columns", "seed"}]
          /\ "create" \in wrote'[w] /\ \A v \in Worker : wrote[v] \subseteq wrote'[v]
      BY <1>0, <3>2 DEF Shape
    <3>5. Grows /\ Noted(w)
      <4>1. tables' # tables
        BY <2>2, <3>2
      <4>2. sources' = sources
        BY <3>2
      <4>3. Noted(w)
        BY <3>4, <4>1, <4>2 DEF Noted
      <4> QED
        BY <3>2, <4>3 DEF Grows
    <3>6. /\ tables' \subseteq Table /\ columns' \subseteq Columns /\ nulls' \subseteq columns'
          /\ sources' \subseteq DefaultSources
      BY <1>0, <3>2 DEF TypeOK, AddedTo
    <3>7. Done(w)'
      BY <1>0, <1>2, <3>1, <3>2, <3>3 DEF Done, CreateTable
    <3>8. Raced(w)'
      <4>1. ByAnother(w, "create") => ByAnother(w, "create")'
        BY <3>4 DEF ByAnother
      <4>2. r.missing \cap tables' = proc[w].missing \cap tables
        BY <2>2, <3>1, <3>2
      <4> QED
        BY <1>0, <1>2, <3>1, <3>3, <4>1, <4>2 DEF Raced, CreateTable
    <3> QED
      BY <1>2, <3>1, <3>2, <3>4, <3>5, <3>6, <3>7, <3>8, OwnStep DEF CreateTable, Rest, Steps
  <2> QED
    BY <2>1, <2>2
<1>3. CASE TablesCreated(w)
  <2> DEFINE r == [proc[w] EXCEPT !.pc = "columns"]
  <2>1. r \in Place /\ r.pc = "columns" /\ proc' = [proc EXCEPT ![w] = r]
    BY <1>0, <1>3 DEF Place, Steps, TablesCreated, Goto
  <2>2. r.at = 1 /\ r.seen = {} /\ r.looked = {}
    BY <1>0, <1>3 DEF Place, Shape, TablesCreated
  <2> HIDE DEF r
  <2>3. proc'[w] = r
    BY <1>0, <2>1 DEF Shape
  <2>4. tables' = tables /\ tables = Table
    BY <1>0, <1>3 DEF TablesCreated, Done, TypeOK, db
  <2>5. Overtaken(w)' = {}
    BY <2>2, <2>3 DEF Overtaken
  <2>6. Done(w)' /\ Raced(w)'
    BY <2>1, <2>2, <2>3, <2>4, <2>5 DEF Done, Raced
  <2> QED
    BY <1>3, <2>1, <2>6, QuietStep DEF TablesCreated, Rest, Steps
<1> QED
  BY <1>1, <1>2, <1>3

(* The entry that a worker is at, and how the two numbers compare. *)
LEMMA EntryAt ==
    ASSUME Shape, NEW w \in Worker, AtEntry(w)
    PROVE  /\ proc[w].at \in 1 .. Len(AddedColumns)
           /\ proc[w].at + 1 \in 1 .. Len(AddedColumns) + 1
           /\ Entry(w) \in Columns /\ Entry(w).table \in Table
           /\ \A i \in 1 .. proc[w].at : i \in 1 .. proc[w].at - 1 \/ i = proc[w].at
           /\ \A i \in proc[w].at + 1 .. Len(AddedColumns) :
                  i \in proc[w].at .. Len(AddedColumns) /\ i # proc[w].at
           /\ proc[w].at \in proc[w].at .. Len(AddedColumns)
           /\ (proc[w].at + 1) - 1 = proc[w].at
<1> DEFINE n == proc[w].at
<1>1. n \in 1 .. Len(AddedColumns) + 1 /\ n <= Len(AddedColumns)
  BY DEF Shape, Place, Process, AtEntry
<1> HIDE DEF n
<1>2. Len(AddedColumns) \in Nat
  BY Entries
<1>3. /\ n \in 1 .. Len(AddedColumns) /\ n + 1 \in 1 .. Len(AddedColumns) + 1
      /\ \A i \in 1 .. n : i \in 1 .. n - 1 \/ i = n
      /\ \A i \in n + 1 .. Len(AddedColumns) : i \in n .. Len(AddedColumns) /\ i # n
      /\ n \in n .. Len(AddedColumns) /\ (n + 1) - 1 = n
  BY <1>1, <1>2
<1>4. Entry(w) = AddedColumns[n]
  BY DEF Entry, n
<1> QED
  BY <1>3, <1>4, Entries DEF n

LEMMA ColumnsInv ==
    ASSUME IInv, NEW w \in Worker,
           InspectTable(w) \/ SkipColumn(w) \/ AddColumn(w)
    PROVE  IInv'
<1>0. /\ TypeOK /\ Shape /\ Done(w) /\ Raced(w)
      /\ w \in Process /\ proc[w] \in Place
      /\ AtEntry(w) /\ proc[w].pc = "columns" /\ tables = Table
  BY DEF IInv, Shape, Process, Done, InspectTable, SkipColumn, AddColumn, Inspected, AtEntry
<1> DEFINE n == proc[w].at
           c == Entry(w)
<1>1. /\ n \in 1 .. Len(AddedColumns) /\ n + 1 \in 1 .. Len(AddedColumns) + 1
      /\ c \in Columns /\ c.table \in Table /\ c = AddedColumns[n]
      /\ \A i \in 1 .. n : i \in 1 .. n - 1 \/ i = n
      /\ \A i \in n + 1 .. Len(AddedColumns) : i \in n .. Len(AddedColumns) /\ i # n
      /\ n \in n .. Len(AddedColumns) /\ (n + 1) - 1 = n
  BY <1>0, EntryAt DEF Entry
<1>2. /\ \A i \in 1 .. n - 1 : AddedColumns[i] \in columns
      /\ proc[w].seen \subseteq columns /\ columns \subseteq Columns
  BY <1>0 DEF Done, TypeOK
<1>3. CASE InspectTable(w)
  <2> DEFINE new == columns \cap AddedTo(c.table)
             r == [proc[w] EXCEPT !.looked = @ \cup {c.table}, !.seen = @ \cup new]
  <2>1. /\ r \in Place /\ r.pc = "columns" /\ r.at = n
        /\ r.looked = proc[w].looked \cup {c.table} /\ r.seen = proc[w].seen \cup new
    BY <1>0, <1>1, <1>2 DEF Place
  <2>2. proc' = [proc EXCEPT ![w] = r]
    BY <1>3 DEF InspectTable
  <2> HIDE DEF r, c, n
  <2>3. proc'[w] = r
    BY <1>0, <2>2 DEF Shape
  <2>4. /\ tables' = tables /\ columns' = columns /\ wrote' = wrote
    BY <1>3 DEF InspectTable, db
  <2>5. Done(w)'
    BY <1>0, <1>2, <2>1, <2>3, <2>4 DEF Done
  <2>6. Overtaken(w)' \subseteq Overtaken(w)
    BY <1>2, <2>1, <2>3, <2>4 DEF Overtaken, AddedTo, n
  <2>7. Raced(w)'
    BY <1>0, <2>1, <2>3, <2>4, <2>6 DEF Raced, ByAnother
  <2> QED
    BY <1>0, <1>3, <2>1, <2>2, <2>5, <2>7, QuietStep DEF InspectTable, Rest, Steps
<1>4. CASE SkipColumn(w)
  <2> DEFINE r == [proc[w] EXCEPT !.at = @ + 1]
  <2>1. /\ r \in Place /\ r.pc = "columns" /\ r.at = n + 1
        /\ r.looked = proc[w].looked /\ r.seen = proc[w].seen
    BY <1>0, <1>1 DEF Place
  <2>2. proc' = [proc EXCEPT ![w] = r] /\ c \in proc[w].seen
    BY <1>4 DEF SkipColumn
  <2> HIDE DEF r, c, n
  <2>3. proc'[w] = r
    BY <1>0, <2>2 DEF Shape
  <2>4. /\ tables' = tables /\ columns' = columns /\ wrote' = wrote
    BY <1>4 DEF SkipColumn, db
  <2>5. Done(w)'
    BY <1>0, <1>1, <1>2, <2>1, <2>2, <2>3, <2>4 DEF Done
  <2>6. Overtaken(w)' \subseteq Overtaken(w)
    BY <1>1, <2>1, <2>3, <2>4 DEF Overtaken, n
  <2>7. Raced(w)'
    BY <1>0, <2>1, <2>3, <2>4, <2>6 DEF Raced, ByAnother
  <2> QED
    BY <1>0, <1>4, <2>1, <2>2, <2>5, <2>7, QuietStep DEF SkipColumn, Rest, Steps
<1>5. CASE AddColumn(w) /\ c \in columns
  <2> DEFINE r == [proc[w] EXCEPT !.pc = "failed"]
  <2>1. r \in Place /\ r.pc = "failed"
    BY <1>0 DEF Place, Steps
  <2>2. proc' = [proc EXCEPT ![w] = r] /\ UNCHANGED db /\ wrote' = wrote
    BY <1>5 DEF AddColumn, Goto, db
  <2> HIDE DEF r, c, n
  <2>3. proc'[w] = r
    BY <1>0, <2>2 DEF Shape
  <2>4. Done(w)' /\ Raced(w)'
    BY <2>1, <2>3 DEF Done, Raced
  <2> QED
    BY <1>0, <1>5, <2>1, <2>2, <2>4, QuietStep DEF AddColumn, Rest, Steps
<1>6. CASE AddColumn(w) /\ c \notin columns
  <2> DEFINE r == [proc[w] EXCEPT !.at = @ + 1]
  <2>1. /\ r \in Place /\ r.pc = "columns" /\ r.at = n + 1
        /\ r.looked = proc[w].looked /\ r.seen = proc[w].seen
    BY <1>0, <1>1 DEF Place
  <2>2. /\ proc' = [proc EXCEPT ![w] = r]
        /\ columns' = columns \cup {c}
        /\ nulls' = IF c.default THEN nulls ELSE nulls \cup {c}
        /\ wrote' = [wrote EXCEPT ![w] = @ \cup {"columns"}]
        /\ tables' = tables /\ sources' = sources
    BY <1>6 DEF AddColumn, Note
  <2> HIDE DEF r, c, n
  <2>3. proc'[w] = r
    BY <1>0, <2>2 DEF Shape
  <2>4. /\ wrote' \in [Worker -> SUBSET {"create", "columns", "seed"}]
        /\ "columns" \in wrote'[w] /\ \A v \in Worker : wrote[v] \subseteq wrote'[v]
    BY <1>0, <2>2 DEF Shape
  <2>5. Grows /\ Noted(w)
    <3>1. nulls' \subseteq nulls \cup (columns' \ columns)
      BY <1>6, <2>2
    <3> QED
      BY <2>2, <2>4, <3>1 DEF Grows, Noted
  <2>6. /\ tables' \subseteq Table /\ columns' \subseteq Columns /\ nulls' \subseteq columns'
        /\ sources' \subseteq DefaultSources
    <3>1. nulls' \subseteq nulls \cup {c}
      BY <2>2
    <3> QED
      BY <1>0, <1>1, <2>2, <3>1 DEF TypeOK
  <2>7. Done(w)'
    BY <1>0, <1>1, <1>2, <2>1, <2>2, <2>3 DEF Done
  <2>8. Overtaken(w)' \subseteq Overtaken(w)
    <3> SUFFICES ASSUME NEW d \in Overtaken(w)' PROVE d \in Overtaken(w)
      OBVIOUS
    <3>1. PICK i \in n + 1 .. Len(AddedColumns) : AddedColumns[i] = d
      BY <2>1, <2>3 DEF Overtaken
    <3>2. i \in n .. Len(AddedColumns) /\ i # n
      BY <1>1
    <3>3. i \in 1 .. Len(AddedColumns)
      BY <1>1, <3>2, Entries
    <3>4. d # c
      BY <1>1, <3>1, <3>2, <3>3, Entries
    <3> QED
      BY <2>1, <2>2, <2>3, <3>1, <3>2, <3>4 DEF Overtaken, n
  <2>9. Raced(w)'
    BY <1>0, <2>1, <2>3, <2>4, <2>8 DEF Raced, ByAnother
  <2> QED
    BY <1>0, <1>6, <2>1, <2>2, <2>4, <2>5, <2>6, <2>7, <2>9, OwnStep DEF AddColumn, Rest, Steps
<1> QED
  BY <1>3, <1>4, <1>5, <1>6

LEMMA BackfillInv == ASSUME IInv, NEW w \in Worker, Backfill(w) PROVE IInv'
<1>0. /\ TypeOK /\ Shape /\ Done(w) /\ Raced(w)
      /\ w \in Process /\ proc[w] \in Place
      /\ proc[w].pc = "columns" /\ tables = Table
  BY DEF IInv, Shape, Process, Done, Backfill
<1> DEFINE r == [proc[w] EXCEPT !.pc = "sources"]
<1>1. r \in Place /\ r.pc = "sources"
  BY <1>0 DEF Place, Steps
<1>2. /\ proc' = [proc EXCEPT ![w] = r] /\ nulls' = nulls \ Backfilled
      /\ tables' = tables /\ columns' = columns /\ sources' = sources /\ wrote' = wrote
  BY DEF Backfill, Goto
<1> HIDE DEF r
<1>3. proc'[w] = r
  BY <1>0, <1>2 DEF Shape
<1>4. columns = Columns
  <2>1. /\ \A i \in 1 .. proc[w].at - 1 : AddedColumns[i] \in columns
        /\ columns \subseteq Columns
    BY <1>0 DEF Done, TypeOK
  <2>2. \A i \in 1 .. Len(AddedColumns) : i \in 1 .. proc[w].at - 1
    <3> DEFINE n == proc[w].at
    <3>1. n \in 1 .. Len(AddedColumns) + 1 /\ n > Len(AddedColumns)
      BY <1>0 DEF Place, Backfill
    <3> HIDE DEF n
    <3>2. \A i \in 1 .. Len(AddedColumns) : i \in 1 .. n - 1
      BY <3>1, Entries
    <3> QED
      BY <3>2 DEF n
  <2> QED
    BY <2>1, <2>2, Entries
<1>5. Grows /\ Noted(w)
  BY <1>2 DEF Grows, Noted
<1>6. /\ tables' \subseteq Table /\ columns' \subseteq Columns /\ nulls' \subseteq columns'
      /\ sources' \subseteq DefaultSources
      /\ wrote' \in [Worker -> SUBSET {"create", "columns", "seed"}]
  BY <1>0, <1>2 DEF TypeOK, Shape
<1>7. Done(w)' /\ Raced(w)'
  BY <1>0, <1>1, <1>2, <1>3, <1>4 DEF Done, Raced
<1> QED
  BY <1>0, <1>1, <1>2, <1>5, <1>6, <1>7, OwnStep DEF Backfill, Rest, Steps

LEMMA SourcesInv ==
    ASSUME IInv, NEW w \in Worker, LookForSources(w) \/ SeedGrantSources(w)
    PROVE  IInv'
<1>0. /\ TypeOK /\ Shape /\ Done(w) /\ Raced(w)
      /\ w \in Process /\ proc[w] \in Place
  BY DEF IInv, Shape, Process
<1>1. CASE LookForSources(w)
  <2> DEFINE r == [proc[w] EXCEPT !.pc = "seed", !.missing = DefaultSources \ sources]
  <2>1. r \in Place /\ r.pc = "seed" /\ r.missing = DefaultSources \ sources
    BY <1>0 DEF Place, Steps
  <2>2. proc' = [proc EXCEPT ![w] = r]
    BY <1>1 DEF LookForSources
  <2> HIDE DEF r
  <2>3. proc'[w] = r
    BY <1>0, <2>2 DEF Shape
  <2>4. /\ tables' = tables /\ columns' = columns /\ nulls' = nulls /\ sources' = sources
        /\ r.missing \cap sources = {} /\ proc[w].pc = "sources"
    BY <1>1, <2>1 DEF LookForSources, db
  <2>5. Done(w)' /\ Raced(w)'
    BY <1>0, <2>1, <2>3, <2>4 DEF Done, Raced
  <2> QED
    BY <1>1, <2>1, <2>2, <2>5, QuietStep DEF LookForSources, Rest, Steps
<1>2. CASE SeedGrantSources(w) /\ proc[w].missing \cap sources # {}
  <2> DEFINE r == [proc[w] EXCEPT !.pc = "failed"]
  <2>1. r \in Place /\ r.pc = "failed"
    BY <1>0 DEF Place, Steps
  <2>2. proc' = [proc EXCEPT ![w] = r] /\ UNCHANGED db /\ wrote' = wrote
    BY <1>2 DEF SeedGrantSources, Goto, db
  <2> HIDE DEF r
  <2>3. proc'[w] = r
    BY <1>0, <2>2 DEF Shape
  <2>4. Done(w)' /\ Raced(w)'
    BY <2>1, <2>3 DEF Done, Raced
  <2> QED
    BY <1>2, <2>1, <2>2, <2>4, QuietStep DEF SeedGrantSources, Rest, Steps
<1>3. CASE SeedGrantSources(w) /\ proc[w].missing \cap sources = {}
  <2> DEFINE r == [proc[w] EXCEPT !.pc = "corpus"]
  <2>1. r \in Place /\ r.pc = "corpus"
    BY <1>0 DEF Place, Steps
  <2>2. /\ proc' = [proc EXCEPT ![w] = r] /\ proc[w].pc = "seed"
        /\ tables' = tables /\ columns' = columns /\ nulls' = nulls
        /\ sources' = sources \cup proc[w].missing
        /\ wrote' = [wrote EXCEPT ![w] = @ \cup {"seed"}]
    BY <1>3 DEF SeedGrantSources, Goto, Note
  <2> HIDE DEF r
  <2>3. proc'[w] = r
    BY <1>0, <2>2 DEF Shape
  <2>4. /\ wrote' \in [Worker -> SUBSET {"create", "columns", "seed"}]
        /\ "seed" \in wrote'[w] /\ \A v \in Worker : wrote[v] \subseteq wrote'[v]
    BY <1>0, <2>2 DEF Shape
  <2>5. Grows /\ Noted(w)
    BY <2>2, <2>4 DEF Grows, Noted
  <2>6. sources' = DefaultSources
    BY <1>0, <2>2 DEF Done, TypeOK
  <2>7. /\ tables' \subseteq Table /\ columns' \subseteq Columns /\ nulls' \subseteq columns'
        /\ sources' \subseteq DefaultSources
    BY <1>0, <2>2, <2>6 DEF TypeOK
  <2>8. Done(w)' /\ Raced(w)'
    BY <1>0, <2>1, <2>2, <2>3, <2>6 DEF Done, Raced
  <2> QED
    BY <1>3, <2>1, <2>2, <2>4, <2>5, <2>7, <2>8, OwnStep DEF SeedGrantSources, Rest, Steps
<1> QED
  BY <1>1, <1>2, <1>3 DEF SeedGrantSources

LEMMA BootInv ==
    ASSUME IInv, NEW w \in Worker, Boot(w) \/ CheckProductionConfig(w)
    PROVE  IInv'
<1>0. /\ TypeOK /\ Shape /\ w \in Process /\ proc[w] \in Place
  BY DEF IInv, Shape, Process
<1>1. CASE Boot(w)
  <2> DEFINE r == At("config")
  <2>1. /\ r \in Place /\ r.pc = "config" /\ r.at = 1 /\ r.looked = {} /\ r.seen = {}
        /\ proc' = [proc EXCEPT ![w] = r] /\ UNCHANGED db /\ wrote' = wrote
    BY <1>1, Reset DEF Boot, At, Steps
  <2> HIDE DEF r
  <2>2. proc'[w] = r
    BY <1>0, <2>1 DEF Shape
  <2>3. Done(w)' /\ Raced(w)'
    BY <2>1, <2>2 DEF Done, Raced
  <2> QED
    BY <1>1, <2>1, <2>3, QuietStep DEF Boot, Rest, Steps
<1>2. CASE CheckProductionConfig(w)
  <2> DEFINE pc == IF ConfigSafe THEN "tables" ELSE "failed"
             r == [proc[w] EXCEPT !.pc = pc]
  <2>1. pc \in {"tables", "failed"}
    OBVIOUS
  <2>2. proc' = [proc EXCEPT ![w] = r]
    BY <1>2 DEF CheckProductionConfig, Goto
  <2> HIDE DEF pc
  <2>3. /\ r \in Place /\ r.pc = pc /\ r.at = 1 /\ r.looked = {} /\ r.seen = {}
    BY <1>0, <1>2, <2>1 DEF CheckProductionConfig, Place, Steps, Shape
  <2> HIDE DEF r
  <2>4. proc'[w] = r
    BY <1>0, <2>2 DEF Shape
  <2>5. Done(w)' /\ Raced(w)'
    BY <2>1, <2>3, <2>4 DEF Done, Raced
  <2> QED
    BY <1>2, <2>1, <2>2, <2>3, <2>5, QuietStep DEF CheckProductionConfig, Rest, Steps
<1> QED
  BY <1>1, <1>2

-----------------------------------------------------------------------------
(* The corpus, crashes and stops: the database stays as it is.             *)

(* A worker has its corpus, or fails to read it.                           *)
LEMMA LastStep ==
    ASSUME IInv, NEW w \in Worker, NEW pc \in {"ready", "failed"}, proc[w].pc = "corpus",
           proc' = [proc EXCEPT ![w].pc = pc], UNCHANGED db, wrote' = wrote,
           file' \in [by : Process, closed : BOOLEAN] \cup {None},
           build' \in [Process -> {"none", "build", "write"}],
           \A p \in Process : build'[p] = "write" => file' # None,
           scheduler' \subseteq IF pc = "ready" THEN scheduler \cup {w} ELSE scheduler
    PROVE  IInv'
<1> DEFINE r == [proc[w] EXCEPT !.pc = pc]
<1>0. TypeOK /\ Shape /\ Done(w) /\ w \in Process /\ proc[w] \in Place /\ pc \in Steps
  BY DEF IInv, Shape, Process, Steps
<1>1. r \in Place /\ r.pc = pc /\ r.at = proc[w].at /\ proc' = [proc EXCEPT ![w] = r]
  BY <1>0 DEF Place
<1> HIDE DEF r
<1>2. /\ proc' \in [Process -> Place] /\ proc'[w] = r
      /\ \A p \in Process \ {w} : proc'[p] = proc[p]
      /\ Worker \subseteq Process /\ Script \subseteq Process \ {w}
  BY <1>0, <1>1, StartupAssumption DEF Shape, Process
<1>3. TypeOK'
  <2>1. \A v \in Worker : proc'[v].pc \in Steps /\ proc'[v].at \in 1 .. Len(AddedColumns) + 1
    <3> SUFFICES ASSUME NEW v \in Worker
                 PROVE  proc'[v].pc \in Steps /\ proc'[v].at \in 1 .. Len(AddedColumns) + 1
      OBVIOUS
    <3>1. CASE v = w
      BY <1>0, <1>1, <1>2, <3>1 DEF TypeOK
    <3>2. CASE v # w
      BY <1>0, <1>2, <3>2 DEF Shape, TypeOK
    <3> QED
      BY <3>1, <3>2
  <2>2. \A p \in Script : proc'[p].pc = "script"
    BY <1>0, <1>2 DEF TypeOK
  <2>3. scheduler' \subseteq {v \in Worker : proc'[v].pc = "ready"}
    <3>1. scheduler \subseteq {v \in Worker : proc'[v].pc = "ready"}
      BY <1>0, <1>2 DEF TypeOK
    <3> QED
      BY <1>1, <1>2, <3>1
  <2> QED
    BY <1>0, <2>1, <2>2, <2>3 DEF TypeOK, Steps, db
<1>4. Shape'
  BY <1>0, <1>1, <1>2 DEF Shape
<1>5. \A v \in Worker \ {w} : Done(v)' /\ Raced(v)'
  BY <1>2, DatabaseSame DEF IInv
<1>6. Done(w)' /\ Raced(w)'
  BY <1>0, <1>1, <1>2 DEF Done, Raced, db
<1> QED
  BY <1>3, <1>4, <1>5, <1>6 DEF IInv

LEMMA ReadCorpusInv == ASSUME IInv, NEW w \in Worker, ReadCorpus(w) PROVE IInv'
<1>1. PICK pc \in {"ready", "failed"} :
          /\ proc' = [proc EXCEPT ![w].pc = pc]
          /\ scheduler' \subseteq IF pc = "ready" THEN scheduler \cup {w} ELSE scheduler
  <2>1. CASE Whole /\ Started(w)
    BY <2>1 DEF Started, Goto
  <2>2. CASE Torn /\ Goto(w, "failed") /\ UNCHANGED scheduler
    BY <2>2 DEF Goto
  <2> QED
    BY <2>1, <2>2 DEF ReadCorpus
<1> QED
  BY <1>1, LastStep DEF ReadCorpus, IInv, TypeOK, Shape

(* Only the file or Corpus.build moves.                                    *)
LEMMA FileStep ==
    ASSUME IInv, proc' = proc, UNCHANGED db, wrote' = wrote, scheduler' = scheduler,
           file' \in [by : Process, closed : BOOLEAN] \cup {None},
           build' \in [Process -> {"none", "build", "write"}],
           \A p \in Process : build'[p] = "write" => file' # None
    PROVE  IInv'
<1>1. TypeOK' /\ Shape'
  BY DEF IInv, TypeOK, Shape, db
<1>2. \A v \in Worker : Done(v)' /\ Raced(v)'
  BY DatabaseSame DEF IInv
<1> QED
  BY <1>1, <1>2 DEF IInv

LEMMA WriteInv == ASSUME IInv, NEW p \in Process, Write(p) PROVE IInv'
<1>0. TypeOK /\ Shape
  BY DEF IInv
<1>1. CASE OpenCorpus(p)
  <2>1. file' \in [by : Process, closed : BOOLEAN]
    BY <1>1 DEF OpenCorpus
  <2>2. build' \in [Process -> {"none", "build", "write"}]
    BY <1>0, <1>1 DEF OpenCorpus, TypeOK
  <2> QED
    BY <1>1, <2>1, <2>2, FileStep, StartupAssumption DEF OpenCorpus, Process
<1>2. CASE CloseCorpus(p)
  <2>1. file \in [by : Process, closed : BOOLEAN] /\ file # None
    BY <1>0, <1>2 DEF CloseCorpus, TypeOK, Shape
  <2>2. file' \in [by : Process, closed : BOOLEAN] /\ file' # None
    <3>1. CASE file.by = p
      <4>1. file' = [file EXCEPT !.closed = TRUE]
        BY <1>2, <3>1 DEF CloseCorpus
      <4>2. file' \in [by : Process, closed : BOOLEAN]
        BY <2>1, <4>1
      <4> QED
        BY <4>2, StartupAssumption DEF Process
    <3>2. CASE file.by # p
      BY <1>2, <2>1, <3>2 DEF CloseCorpus
    <3> QED
      BY <3>1, <3>2
  <2>3. build' \in [Process -> {"none", "build", "write"}]
    BY <1>0, <1>2 DEF CloseCorpus, TypeOK
  <2>4. CASE proc[p].pc = "corpus"
    <3>1. p \in Worker
      BY <1>0, <2>4 DEF TypeOK, Process
    <3>2. /\ proc' = [proc EXCEPT ![p].pc = "ready"]
          /\ scheduler' \subseteq scheduler \cup {p}
      BY <1>2, <2>4 DEF CloseCorpus, Started, Goto
    <3>3. UNCHANGED db /\ wrote' = wrote
      BY <1>2 DEF CloseCorpus
    <3> QED
      BY <2>2, <2>3, <2>4, <3>1, <3>2, <3>3, LastStep
  <2>5. CASE proc[p].pc # "corpus"
    BY <1>2, <2>2, <2>3, <2>5, FileStep DEF CloseCorpus
  <2> QED
    BY <2>4, <2>5
<1> QED
  BY <1>1, <1>2 DEF Write

LEMMA BuildInv ==
    ASSUME IInv, (\E w \in Worker : BuildCorpus(w)) \/ (\E p \in Process : RefreshIndex(p))
    PROVE  IInv'
<1>1. PICK p \in Process : /\ build' = [build EXCEPT ![p] = "build"]
                           /\ UNCHANGED <<db, file, proc, scheduler, wrote>>
  BY DEF BuildCorpus, RefreshIndex, Process
<1>2. /\ build' \in [Process -> {"none", "build", "write"}]
      /\ \A q \in Process : build'[q] = "write" => file # None
  BY <1>1 DEF IInv, TypeOK, Shape
<1> QED
  BY <1>1, <1>2, FileStep DEF IInv, TypeOK

LEMMA CrashInv == ASSUME IInv, NEW p \in Process, Crash(p) PROVE IInv'
<1>0. TypeOK /\ Shape /\ Fresh(p) \in Place
  BY Reset DEF IInv
<1>1. /\ proc' = [proc EXCEPT ![p] = Fresh(p)] /\ UNCHANGED <<db, file, wrote>>
      /\ build' = [build EXCEPT ![p] = "none"] /\ scheduler' = scheduler \ {p}
  BY DEF Crash, Fresh
<1>2. /\ proc' \in [Process -> Place] /\ proc'[p] = Fresh(p)
      /\ \A q \in Process \ {p} : proc'[q] = proc[q]
  BY <1>0, <1>1 DEF Shape
<1>3. TypeOK'
  <2>1. \A v \in Worker : proc'[v].pc \in Steps
    BY <1>0, <1>2, Reset DEF Shape, Process, Steps
  <2>2. \A v \in Worker : proc'[v].at \in 1 .. Len(AddedColumns) + 1
    BY <1>2 DEF Place, Process
  <2>3. \A q \in Script : proc'[q].pc = "script"
    BY <1>0, <1>2, Reset DEF TypeOK, Process
  <2>4. scheduler' \subseteq {v \in Worker : proc'[v].pc = "ready"}
    BY <1>0, <1>1, <1>2 DEF TypeOK, Process
  <2>5. build' \in [Process -> {"none", "build", "write"}]
    BY <1>0, <1>1 DEF TypeOK
  <2> QED
    BY <1>0, <1>1, <2>1, <2>2, <2>3, <2>4, <2>5 DEF TypeOK, Steps, db
<1>4. Shape'
  <2>1. ASSUME NEW v \in Worker
        PROVE  /\ proc'[v].pc \in Steps
               /\ proc'[v].pc \in {"config", "tables", "create"} =>
                      proc'[v].at = 1 /\ proc'[v].looked = {} /\ proc'[v].seen = {}
    <3>1. CASE v = p
      BY <1>2, <3>1, Reset DEF Steps
    <3>2. CASE v # p
      BY <1>0, <1>2, <3>2 DEF Shape, Process
    <3> QED
      BY <3>1, <3>2
  <2>2. \A q \in Process : build'[q] = "write" => file' # None
    BY <1>0, <1>1 DEF Shape, TypeOK
  <2> QED
    BY <1>0, <1>1, <1>2, <2>1, <2>2 DEF Shape
<1>5. ASSUME NEW v \in Worker PROVE Done(v)' /\ Raced(v)'
  <2>1. CASE v = p
    BY <1>2, <2>1, Reset DEF Done, Raced
  <2>2. CASE v # p
    <3>1. proc'[v] = proc[v]
      BY <1>2, <2>2 DEF Process
    <3> QED
      BY <1>1, <3>1, DatabaseSame DEF IInv
  <2> QED
    BY <2>1, <2>2
<1> QED
  BY <1>3, <1>4, <1>5 DEF IInv

LEMMA StopInv == ASSUME IInv, Stop PROVE IInv'
<1>0. TypeOK /\ Shape
  BY DEF IInv
<1>1. /\ \A p \in Process : proc'[p] = IF p \in Worker THEN At("down") ELSE proc[p]
      /\ \A p \in Process : build'[p] = IF p \in Worker THEN "none" ELSE build[p]
      /\ UNCHANGED <<db, file>> /\ scheduler' = {} /\ wrote' = [w \in Worker |-> {}]
  BY DEF Stop
<1>2. proc' \in [Process -> Place] /\ build' \in [Process -> {"none", "build", "write"}]
  BY <1>0, <1>1, Reset DEF Stop, Shape, TypeOK, Steps
<1>3. \A w \in Worker : proc'[w].pc = "down"
  BY <1>1, Reset DEF Process, Steps
<1>4. TypeOK'
  <2>1. \A v \in Worker : proc'[v].at \in 1 .. Len(AddedColumns) + 1
    BY <1>2 DEF Place, Process
  <2>2. \A q \in Script : proc'[q].pc = "script"
    BY <1>0, <1>1, StartupAssumption DEF TypeOK, Process
  <2> QED
    BY <1>0, <1>1, <1>2, <1>3, <2>1, <2>2 DEF TypeOK, db
<1>5. Shape'
  BY <1>0, <1>1, <1>2, <1>3 DEF Shape, Steps
<1>6. \A v \in Worker : Done(v)' /\ Raced(v)'
  BY <1>3 DEF Done, Raced
<1> QED
  BY <1>4, <1>5, <1>6 DEF IInv

LEMMA NextInv == IInv /\ [Next]_vars => IInv'
<1>1. IInv /\ UNCHANGED vars => IInv'
  BY FileStep DEF vars, db, IInv, TypeOK, Shape
<1>2. ASSUME IInv, NEW w \in Worker, Start(w) PROVE IInv'
  <2>1. CASE BuildCorpus(w)
    BY <1>2, <2>1, BuildInv
  <2> QED
    BY <1>2, <2>1, BootInv, TablesInv, ColumnsInv, BackfillInv, SourcesInv, ReadCorpusInv DEF Start
<1>3. ASSUME IInv, NEW p \in Process, Write(p) \/ RefreshIndex(p) \/ Crash(p) PROVE IInv'
  BY <1>3, WriteInv, BuildInv, CrashInv
<1> QED
  BY <1>1, <1>2, <1>3, StopInv DEF Next

(* However starts overlap, fail, crash and repeat (api/main.py, lifespan), *)
(* a worker serves only on a database with every table, every column, no   *)
(* NULL that the backfill replaces and every default source.               *)
THEOREM ReadyIsMigrated == Spec => []ReadyMeansMigrated
<1>1. IInv => ReadyMeansMigrated
  BY DEF IInv, Done, ReadyMeansMigrated
<1> QED
  BY InitInv, NextInv, <1>1, PTL DEF Spec

-----------------------------------------------------------------------------
(* Why a worker fails to start.                                            *)
FailsFor(w) ==
    \/ proc[w].pc = "config" /\ ~ConfigSafe
    \/ proc[w].pc = "corpus" /\ Torn
    \/ \E v \in Worker \ {w} : proc[w].pc \in wrote[v]

(* Each step that may fail, and that the others do not.                    *)
LEMMA StartFails ==
    ASSUME IInv, NEW v \in Worker, Start(v), NEW w \in Worker,
           proc[w].pc # "failed", proc'[w].pc = "failed"
    PROVE  FailsFor(w)
<1>0. /\ proc \in [Process -> Place] /\ Worker \subseteq Process /\ Raced(w) /\ Shape
  BY DEF IInv, Shape, Process
<1>1. CASE Boot(v)
  BY <1>0, <1>1, Reset DEF Boot, Steps, Place
<1>2. CASE CheckProductionConfig(v)
  BY <1>0, <1>2 DEF CheckProductionConfig, Goto, FailsFor, Place
<1>3. CASE LookForTables(v) \/ TablesCreated(v)
  BY <1>0, <1>3 DEF LookForTables, TablesCreated, Goto, Place
<1>4. ASSUME NEW t \in Table, CreateTable(v, t) PROVE FailsFor(w)
  <2>1. w = v /\ proc[w].pc = "create" /\ t \in proc[w].missing \cap tables
    BY <1>0, <1>4 DEF CreateTable, Goto, Place
  <2> QED
    BY <1>0, <2>1 DEF Raced, ByAnother, FailsFor
<1>5. CASE InspectTable(v) \/ SkipColumn(v) \/ Backfill(v)
  BY <1>0, <1>5 DEF InspectTable, SkipColumn, Backfill, Goto, Place
<1>6. CASE AddColumn(v)
  <2>1. w = v /\ proc[w].pc = "columns" /\ Entry(w) \in columns
    BY <1>0, <1>6 DEF AddColumn, Goto, Inspected, AtEntry, Place
  <2>2. Entry(w) \in Overtaken(w)
    <3>1. proc[w].at \in proc[w].at .. Len(AddedColumns) /\ Entry(w) = AddedColumns[proc[w].at]
      BY <1>0, <1>6, <2>1, EntryAt DEF AddColumn, Inspected, Entry
    <3> QED
      BY <1>6, <2>1, <3>1 DEF AddColumn, Inspected, Overtaken
  <2> QED
    BY <1>0, <2>1, <2>2 DEF Raced, ByAnother, FailsFor
<1>7. CASE LookForSources(v)
  BY <1>0, <1>7 DEF LookForSources, Place
<1>8. CASE SeedGrantSources(v)
  <2>1. w = v /\ proc[w].pc = "seed" /\ proc[w].missing \cap sources # {}
    BY <1>0, <1>8 DEF SeedGrantSources, Goto, Place
  <2> QED
    BY <1>0, <2>1 DEF Raced, ByAnother, FailsFor
<1>9. CASE ReadCorpus(v) \/ BuildCorpus(v)
  BY <1>0, <1>9 DEF ReadCorpus, BuildCorpus, Started, Goto, FailsFor, Place
<1> QED
  BY <1>1, <1>2, <1>3, <1>4, <1>5, <1>6, <1>7, <1>8, <1>9 DEF Start

(* A start does not fail for what an earlier one left in the database,     *)
(* "safe to call on every startup" (api/db/migrations.py): only for what   *)
(* another worker wrote at the same step since the container started, a    *)
(* configuration that is refused, or a torn file.                          *)
THEOREM StartsAgain == Spec => RestartSafe
<1>1. ASSUME IInv, [Next]_vars, NEW w \in Worker,
             proc[w].pc # "failed", proc'[w].pc = "failed"
      PROVE  FailsFor(w)
  <2>0. proc \in [Process -> Place] /\ Worker \subseteq Process
    BY <1>1 DEF IInv, Shape, Process
  <2>1. ASSUME NEW v \in Worker, Start(v) PROVE FailsFor(w)
    BY <1>1, <2>1, StartFails
  <2>2. ASSUME NEW p \in Process, Write(p) \/ RefreshIndex(p) PROVE FALSE
    BY <1>1, <2>0, <2>2 DEF Write, OpenCorpus, CloseCorpus, RefreshIndex, Started, Goto, Place
  <2>3. ASSUME NEW p \in Process, Crash(p) PROVE FALSE
    <3>1. proc' = [proc EXCEPT ![p] = Fresh(p)]
      BY <2>3 DEF Crash, Fresh
    <3>2. Fresh(w).pc # "failed"
      BY <2>0, Reset
    <3> QED
      BY <1>1, <2>0, <3>1, <3>2
  <2>4. CASE Stop
    BY <1>1, <2>0, <2>4, Reset DEF Stop, Steps
  <2>5. CASE UNCHANGED vars
    BY <1>1, <2>5 DEF vars
  <2> QED
    BY <1>1, <2>1, <2>2, <2>3, <2>4, <2>5 DEF Next
<1>2. IInv /\ [Next]_vars =>
          [\A w \in Worker : proc[w].pc # "failed" /\ proc'[w].pc = "failed" =>
               \/ proc[w].pc = "config" /\ ~ConfigSafe
               \/ proc[w].pc = "corpus" /\ Torn
               \/ \E v \in Worker \ {w} : proc[w].pc \in wrote[v]]_vars
  BY <1>1 DEF FailsFor
<1> QED
  BY InitInv, NextInv, <1>2, PTL DEF Spec, RestartSafe

=============================================================================
