------------------------------ MODULE Migrations ------------------------------
(***************************************************************************)
(* scripts/postgres/migrate.sh: each run goes through the migration files   *)
(* in the order of their names.  It takes a file's checksum, compares it    *)
(* with the one in fzh_meta.schema_migrations, and applies a file that is   *)
(* not there in one transaction with its entry.  Runs may overlap, or end   *)
(* at any point; files may be added, or edited, while they run.             *)
(***************************************************************************)
EXTENDS Integers, Sequences

CONSTANTS
    Migrator,   \* runs of migrate.sh
    Files,      \* number of migration files
    Texts       \* number of texts that a file may have

ASSUME MigrationsAssumption == Files \in Nat \ {0} /\ Texts \in Nat \ {0}

File == 1..Files
Text == 1..Texts     \* a text and its checksum are one value; 0 is none

VARIABLES
    released,   \* files in the directory
    disk,       \* text of each file
    rows,       \* schema_migrations: checksum of each version, or 0
    effect,     \* the texts of each version that the database has executed
    at,         \* file that each run is at
    phase,      \* what it does there
    listed,     \* files it found
    checksum,   \* of the file it is at
    body,       \* what its transaction executed
    disturbed,  \* history: <<m, f>> when f is edited after m has taken its
                \*          checksum and before it reads it again to execute it
    edited      \* history: <<m, f>> when f is edited after m has begun

database       == <<rows, effect>>
repository     == <<released, disk>>
run            == <<at, phase, listed, checksum, body>>
migrationsVars == <<repository, database, run, disturbed, edited>>

Over   == {"absent", "current", "failed"}
Active == {m \in Migrator : phase[m] \notin Over}
----------------------------------------------------------------------------
MigrationsInit ==
    /\ released \in (SUBSET File) \ {{}} /\ disk = [f \in File |-> 1]
    /\ rows = [f \in File |-> 0] /\ effect = [f \in File |-> <<>>]
    /\ at       = [m \in Migrator |-> 0]
    /\ phase    = [m \in Migrator |-> "absent"]
    /\ listed   = [m \in Migrator |-> {}]
    /\ checksum = [m \in Migrator |-> 0]
    /\ body     = [m \in Migrator |-> 0]
    /\ disturbed = {} /\ edited = {}

GoTo(m, p) == phase' = [phase EXCEPT ![m] = p]

\* migrations=("$MIGRATIONS_DIR"/*.sql), which are there, in the order of their names
Begin(m) ==
    /\ phase[m] = "absent"
    /\ listed' = [listed EXCEPT ![m] = released]
    /\ \E f \in released :
          /\ \A g \in released : f <= g
          /\ at' = [at EXCEPT ![m] = f]
    /\ GoTo(m, "checksum")
    /\ UNCHANGED <<repository, database, checksum, body, disturbed, edited>>

Checksum(m) ==
    /\ phase[m] = "checksum"
    /\ checksum' = [checksum EXCEPT ![m] = disk[at[m]]]
    /\ GoTo(m, "ask")
    /\ UNCHANGED <<repository, database, at, listed, body, disturbed, edited>>

\* The next file, or "database migrations are current".
Advance(m) ==
    LET rest == {f \in listed[m] : at[m] < f}
    IN  \/ \E f \in rest :
              /\ \A g \in rest : f <= g
              /\ at' = [at EXCEPT ![m] = f]
              /\ GoTo(m, "checksum")
        \/ rest = {} /\ GoTo(m, "current") /\ UNCHANGED at

\* SELECT checksum ... WHERE version: apply, refuse, or go on.
Ask(m) ==
    /\ phase[m] = "ask"
    /\ \/ rows[at[m]] = 0 /\ GoTo(m, "pipe") /\ UNCHANGED at
       \/ rows[at[m]] \notin {0, checksum[m]} /\ GoTo(m, "failed") /\ UNCHANGED at
       \/ rows[at[m]] = checksum[m] /\ Advance(m)
    /\ UNCHANGED <<repository, database, listed, checksum, body, disturbed, edited>>

\* no BEGIN: the file's statements commit as they are executed
BadPipe(m) ==
    /\ phase[m] = "pipe"
    /\ body' = [body EXCEPT ![m] = disk[at[m]]]
    /\ effect' = [effect EXCEPT ![at[m]] = Append(@, disk[at[m]])]
    /\ GoTo(m, "insert")
    /\ UNCHANGED <<repository, rows, at, listed, checksum, disturbed, edited>>

\* BEGIN, and the file, which is read again, in a transaction of its own.
Pipe(m) ==
    /\ phase[m] = "pipe"
    /\ body' = [body EXCEPT ![m] = disk[at[m]]]
    /\ GoTo(m, "insert")
    /\ UNCHANGED <<repository, database, at, listed, checksum, disturbed, edited>>

\* INSERT waits for another transaction that has inserted the version, and fails
\* when the version is there: ON_ERROR_STOP ends psql, and the run.
Insert(m) ==
    /\ phase[m] = "insert"
    /\ \A n \in Migrator \ {m} : ~(phase[n] = "commit" /\ at[n] = at[m])
    /\ GoTo(m, IF rows[at[m]] = 0 THEN "commit" ELSE "failed")
    /\ UNCHANGED <<repository, database, at, listed, checksum, body, disturbed, edited>>

\* COMMIT, whose answer may be lost.
Commit(m) ==
    /\ phase[m] = "commit"
    /\ rows'   = [rows EXCEPT ![at[m]] = checksum[m]]
    /\ effect' = [effect EXCEPT ![at[m]] = Append(@, body[m])]
    /\ \/ Advance(m)
       \/ GoTo(m, "failed") /\ UNCHANGED at
    /\ UNCHANGED <<repository, listed, checksum, body, disturbed, edited>>

\* A command fails or the run is killed: psql reads no COMMIT and rolls back.
Fail(m) ==
    /\ m \in Active
    /\ GoTo(m, "failed")
    /\ UNCHANGED <<repository, database, at, listed, checksum, body, disturbed, edited>>

\* The checkout changes: a file gets another text, or one comes, which may have a
\* lower number than those that are there.
Deploy ==
    \/ \E f \in released : \E t \in Text \ {disk[f]} :
          /\ disk' = [disk EXCEPT ![f] = t]
          /\ disturbed' = disturbed \cup
                {<<m, f>> : m \in {n \in Migrator : at[n] = f /\ phase[n] \in {"ask", "pipe"}}}
          /\ edited' = edited \cup {<<m, f>> : m \in {n \in Migrator : phase[n] # "absent"}}
          /\ UNCHANGED <<released, database, run>>
    \/ \E f \in File \ released :
          /\ released' = released \cup {f}
          /\ UNCHANGED <<disk, database, run, disturbed, edited>>

MigrationsNext ==
    \/ \E m \in Migrator :
          \/ Begin(m) \/ Checksum(m) \/ Ask(m) \/ Pipe(m) \/ Insert(m)
          \/ Commit(m) \/ Fail(m)
    \/ Deploy

MigrationsSpec == MigrationsInit /\ [][MigrationsNext]_migrationsVars
----------------------------------------------------------------------------
(* Type invariant. *)
MigrationsTypeOK ==
    /\ released \in (SUBSET File) \ {{}} /\ disk \in [File -> Text]
    /\ rows \in [File -> 0..Texts] /\ effect \in [File -> Seq(Text)]
    /\ at \in [Migrator -> 0..Files] /\ listed \in [Migrator -> SUBSET File]
    /\ phase \in [Migrator -> Over \cup {"checksum", "ask", "pipe", "insert", "commit"}]
    /\ checksum \in [Migrator -> 0..Texts] /\ body \in [Migrator -> 0..Texts]
    /\ edited \subseteq Migrator \X File /\ disturbed \subseteq edited
    /\ \A m \in Active :
          /\ at[m] \in listed[m]
          /\ phase[m] # "checksum" => checksum[m] \in Text
          /\ phase[m] \in {"insert", "commit"} => body[m] \in Text

\* However runs overlap, fail or are repeated, a version's statements are in the
\* database exactly once if it has an entry, and not at all if it has none.
AppliedOnce == \A f \in File : Len(effect[f]) = IF rows[f] = 0 THEN 0 ELSE 1

\* Versions are applied in order: none before one that it may build on, if that was
\* there when the run that applied it began.
AppliedInOrder ==
    \A f \in File : rows[f] # 0 =>
        \E m \in Migrator : f \in listed[m] /\ \A g \in listed[m] : g < f => rows[g] # 0

\* The checksum of an entry is that of the text that was executed, unless the file
\* was edited between the two times that a run reads it: for its checksum, and to
\* be executed.
EntryIsTrue ==
    \A f \in File : rows[f] # 0 =>
        effect[f] = <<rows[f]>> \/ \E m \in Migrator : <<m, f>> \in disturbed

\* A run that ends with "database migrations are current" leaves the checksum of
\* every file it found in the database, also when another run applied it, unless
\* the file was edited since.
CurrentIsTrue ==
    \A m \in Migrator : phase[m] = "current" =>
        \A f \in listed[m] : rows[f] = disk[f] \/ <<m, f>> \in edited

\* What overlapping, failing, killed and repeated runs leave: versions are
\* applied once, whole and in order, and entries and reports are true of them.
MigrationsAreSound ==
    AppliedOnce /\ AppliedInOrder /\ EntryIsTrue /\ CurrentIsTrue

\* An applied version is never applied again, changed or removed.
NeverReapplied ==
    [][\A f \in File : rows[f] # 0 => rows'[f] = rows[f] /\ effect'[f] = effect[f]
      ]_migrationsVars
=============================================================================
