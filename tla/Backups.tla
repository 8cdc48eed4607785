------------------------------- MODULE Backups -------------------------------
(***************************************************************************)
(* scripts/postgres/backup.sh and restore-test.sh.  Files are named after    *)
(* the second in which the backup began; all restore tests use one           *)
(* disposable container.                                                     *)
(***************************************************************************)
EXTENDS Integers, FiniteSets

CONSTANTS
    Backups,    \* number of runs of backup.sh
    Tests,      \* number of runs of restore-test.sh
    Seconds     \* seconds in which backups may begin

ASSUME BackupsAssumption == Backups \in Nat /\ Tests \in Nat /\ Seconds \in Nat \ {0}

Backup == 1..Backups
Test   == 1..Tests
Second == 1..Seconds

\* What is in a file or database: the dump of a run, or one of these.
None    == 0
Nothing == -1
Torn    == -2
Altered == -3
Content == Backup \cup {None, Nothing, Torn, Altered}

VARIABLES
    now,        \* the second it is
    migrated,   \* whether the database has its migrations
    stage,      \* where each backup is
    stamp,      \* the second it is named after
    file,       \* the inode it writes; an inode is named after the run that made it
    snapshot,   \* whether the database that it dumped was migrated
    partial,    \* inode of each second's .partial name, or 0
    final,      \* inode of each second's dump, or 0
    content,    \* what is in each inode
    digest,     \* what each second's .sha256 file is the digest of; None if absent
    test,       \* where each restore test is
    target,     \* the second whose dump it restores
    container,  \* what the disposable database holds, or None if it is not there
    found,      \* what was in it when a test took its counts
    mixed,      \* history: tests that ran beside another, whose dump changed, or
                \*          that could not remove the container of an earlier one
    stuck       \* history: since the container was last removed a test was killed,
                \*          or could not remove it when it ended

backup      == <<stage, stamp, file, snapshot>>
directory   == <<partial, final, content, digest>>
restoreTest == <<test, target, container, found, mixed, stuck>>
backupsVars == <<now, migrated, backup, directory, restoreTest>>

Writing    == {"open", "dump", "validate", "promote"}
Unfinished == Writing \cup {"digest", "sum"}
Testing    == {"remove", "up", "restore", "count"}
ActiveTest == {t \in Test : test[t] \in Testing}

\* the second is a run's own
Alone(s) == Cardinality({r \in Backup : stamp[r] = s}) = 1
----------------------------------------------------------------------------
BackupsInit ==
    /\ now = 1 /\ migrated = FALSE
    /\ stage = [r \in Backup |-> "absent"] /\ stamp = [r \in Backup |-> 0]
    /\ file = [r \in Backup |-> 0] /\ snapshot = [r \in Backup |-> FALSE]
    /\ partial = [s \in Second |-> 0] /\ final = [s \in Second |-> 0]
    /\ content = [i \in Backup |-> Nothing]
    /\ digest = [s \in Second |-> None]
    /\ test = [t \in Test |-> "absent"] /\ target = [t \in Test |-> 0]
    /\ container = None /\ found = [t \in Test |-> None]
    /\ mixed = {} /\ stuck = FALSE

BeginBackup(r) ==
    /\ stage[r] = "absent" /\ \A q \in 1..(r - 1) : stage[q] # "absent"
    /\ stamp' = [stamp EXCEPT ![r] = now]
    /\ stage' = [stage EXCEPT ![r] = "open"]
    /\ UNCHANGED <<now, migrated, file, snapshot, directory, restoreTest>>

\* the dump is written under its final name
BadOpen(r) ==
    /\ stage[r] = "open"
    /\ LET inode == IF final[stamp[r]] = 0 THEN r ELSE final[stamp[r]]
       IN  /\ final'   = [final EXCEPT ![stamp[r]] = inode]
           /\ partial' = [partial EXCEPT ![stamp[r]] = inode]
           /\ file'    = [file EXCEPT ![r] = inode]
           /\ content' = [content EXCEPT ![inode] = Nothing]
    /\ stage' = [stage EXCEPT ![r] = "dump"]
    /\ UNCHANGED <<now, migrated, stamp, snapshot, digest, restoreTest>>

\* > "$tmp" makes the file, or empties the one that is there.
Open(r) ==
    /\ stage[r] = "open"
    /\ LET inode == IF partial[stamp[r]] = 0 THEN r ELSE partial[stamp[r]]
       IN  /\ partial' = [partial EXCEPT ![stamp[r]] = inode]
           /\ file'    = [file EXCEPT ![r] = inode]
           /\ content' = [content EXCEPT ![inode] = Nothing]
    /\ stage' = [stage EXCEPT ![r] = "dump"]
    /\ UNCHANGED <<now, migrated, stamp, snapshot, final, digest, restoreTest>>

\* pg_dump; over what another run writes the two may mix.
Dump(r) ==
    /\ stage[r] = "dump"
    /\ snapshot' = [snapshot EXCEPT ![r] = migrated]
    /\ \E c \in IF content[file[r]] = Nothing THEN {r} ELSE {r, Torn} :
          content' = [content EXCEPT ![file[r]] = c]
    /\ stage' = [stage EXCEPT ![r] = "validate"]
    /\ UNCHANGED <<now, migrated, stamp, file, partial, final, digest, restoreTest>>

\* -s and pg_restore --list, which need not notice a torn file.
Validate(r) ==
    /\ stage[r] = "validate"
    /\ partial[stamp[r]] # 0 /\ content[partial[stamp[r]]] # Nothing
    /\ stage' = [stage EXCEPT ![r] = "promote"]
    /\ UNCHANGED <<now, migrated, stamp, file, snapshot, directory, restoreTest>>

\* mv "$tmp" "$final"
Promote(r) ==
    /\ stage[r] = "promote" /\ partial[stamp[r]] # 0
    /\ final'   = [final EXCEPT ![stamp[r]] = partial[stamp[r]]]
    /\ partial' = [partial EXCEPT ![stamp[r]] = 0]
    /\ stage' = [stage EXCEPT ![r] = "digest"]
    /\ mixed' = mixed \cup {t \in ActiveTest : target[t] = stamp[r]}
    /\ UNCHANGED <<now, migrated, stamp, file, snapshot, content, digest, test,
                   target, container, found, stuck>>

\* sha256sum "$final" > "$final.sha256": the file is there before the digest.
Digest(r) ==
    /\ \/ /\ stage[r] = "digest"
          /\ digest' = [digest EXCEPT ![stamp[r]] = Nothing]
          /\ stage' = [stage EXCEPT ![r] = "sum"]
       \/ /\ stage[r] = "sum"
          /\ digest' = [digest EXCEPT ![stamp[r]] = content[final[stamp[r]]]]
          /\ stage' = [stage EXCEPT ![r] = "done"]
    /\ UNCHANGED <<now, migrated, stamp, file, snapshot, partial, final, content, restoreTest>>

\* the trap removes both names
BadFailBackup(r) ==
    /\ stage[r] \in Unfinished
    /\ partial' = [partial EXCEPT ![stamp[r]] = 0]
    /\ final'   = [final EXCEPT ![stamp[r]] = 0]
    /\ stage' = [stage EXCEPT ![r] = "failed"]
    /\ UNCHANGED <<now, migrated, stamp, file, snapshot, content, digest,
                   restoreTest>>

\* A command fails: until the rename the trap removes the temporary name.  Or the
\* run is killed, and it stays.
FailBackup(r) ==
    /\ stage[r] \in Unfinished
    /\ \/ stage[r] \in Writing /\ partial' = [partial EXCEPT ![stamp[r]] = 0]
       \/ UNCHANGED partial
    /\ stage' = [stage EXCEPT ![r] = "failed"]
    /\ UNCHANGED <<now, migrated, stamp, file, snapshot, final, content, digest,
                   restoreTest>>
----------------------------------------------------------------------------
\* restore-test.sh: a dump that does not have the digest beside it is refused;
\* one without a digest is not looked at.
BeginTest(t) ==
    /\ test[t] = "absent" /\ \A u \in 1..(t - 1) : test[u] # "absent"
    /\ \E s \in Second :
          /\ final[s] # 0
          /\ target' = [target EXCEPT ![t] = s]
          /\ test' = [test EXCEPT ![t] =
                IF digest[s] \in {None, content[final[s]]} THEN "remove" ELSE "failed"]
    /\ mixed' = IF ActiveTest = {} THEN mixed
                                       ELSE mixed \cup ActiveTest \cup {t}
    /\ UNCHANGED <<now, migrated, backup, directory, container, found, stuck>>

\* compose rm -sf ... || true removes the container, or fails before or after it
\* has stopped it; what it holds is in a tmpfs, and gone with the process.
Removed     == container' = None /\ stuck' = FALSE
Stays(held) == held # None /\ container' \in {held, Nothing}

\* compose rm -sf, then compose up -d, which leaves one that is there alone, or
\* starts it again.
Container(t) ==
    /\ \/ /\ test[t] = "remove" /\ test' = [test EXCEPT ![t] = "up"]
          /\ \/ Removed /\ UNCHANGED mixed
             \/ /\ Stays(container) /\ UNCHANGED stuck
                /\ mixed' = IF container' = Nothing THEN mixed ELSE mixed \cup {t}
       \/ /\ test[t] = "up" /\ test' = [test EXCEPT ![t] = "restore"]
          /\ container' = IF container = None THEN Nothing ELSE container
          /\ UNCHANGED <<mixed, stuck>>
    /\ UNCHANGED <<now, migrated, backup, directory, target, found>>

\* pg_restore --clean --exit-on-error; over another dump the two may mix.
Restore(t) ==
    /\ test[t] = "restore" /\ container # None
    /\ \E c \in IF container = Nothing THEN {content[final[target[t]]]}
                                       ELSE {content[final[target[t]]], Torn} :
          c # Nothing /\ container' = c
    /\ test' = [test EXCEPT ![t] = "count"]
    /\ UNCHANGED <<now, migrated, backup, directory, target, found, mixed, stuck>>

\* The counts are as they should be, and the trap removes the container or ignores
\* that it cannot.
Count(t) ==
    /\ test[t] = "count"
    /\ container \in {Torn, Altered} \cup {r \in Backup : snapshot[r]}
    /\ found' = [found EXCEPT ![t] = container]
    /\ Removed \/ (Stays(container) /\ stuck' = TRUE)
    /\ test' = [test EXCEPT ![t] = "passed"]
    /\ UNCHANGED <<now, migrated, backup, directory, target, mixed>>

\* What is there when up -d or pg_restore is broken off.
Halfway(t) ==
    {container} \cup {c \in {Nothing} : test[t] = "up" /\ container = None}
                \cup {c \in {Torn} : test[t] = "restore" /\ container # None}

\* A command fails, and the trap does the same; or the test is killed.
FailTest(t) ==
    /\ test[t] \in Testing
    /\ test' = [test EXCEPT ![t] = "failed"]
    /\ \/ Removed
       \/ /\ \E there \in Halfway(t) : Stays(there) \/ container' = there
          /\ stuck' = TRUE
    /\ UNCHANGED <<now, migrated, backup, directory, target, found, mixed>>
----------------------------------------------------------------------------
\* Time passes, the migrations are applied, or a dump is altered on the disk.
Environment ==
    \/ /\ now < Seconds /\ now' = now + 1
       /\ UNCHANGED <<migrated, backup, directory, restoreTest>>
    \/ /\ ~migrated /\ migrated' = TRUE
       /\ UNCHANGED <<now, backup, directory, restoreTest>>
    \/ \E s \in Second :
          /\ final[s] # 0
          /\ content' = [content EXCEPT ![final[s]] = Altered]
          /\ mixed' = mixed \cup {t \in ActiveTest : target[t] = s}
          /\ UNCHANGED <<now, migrated, backup, partial, final, digest, test,
                         target, container, found, stuck>>

BackupsNext ==
    \/ \E r \in Backup :
          \/ BeginBackup(r) \/ Open(r) \/ Dump(r) \/ Validate(r) \/ Promote(r)
          \/ Digest(r) \/ FailBackup(r)
    \/ \E t \in Test :
          BeginTest(t) \/ Container(t) \/ Restore(t) \/ Count(t) \/ FailTest(t)
    \/ Environment

BackupsSpec == BackupsInit /\ [][BackupsNext]_backupsVars
----------------------------------------------------------------------------
(* Type invariant. *)
BackupsTypeOK ==
    /\ now \in Second /\ migrated \in BOOLEAN
    /\ stage \in [Backup -> Unfinished \cup {"absent", "done", "failed"}]
    /\ stamp \in [Backup -> 0..Seconds] /\ file \in [Backup -> 0..Backups]
    /\ snapshot \in [Backup -> BOOLEAN]
    /\ partial \in [Second -> 0..Backups] /\ final \in [Second -> 0..Backups]
    /\ content \in [Backup -> Content \ {None}]
    /\ digest \in [Second -> Content]
    /\ test \in [Test -> Testing \cup {"absent", "passed", "failed"}]
    /\ target \in [Test -> 0..Seconds]
    /\ container \in Content /\ found \in [Test -> Content]
    /\ mixed \subseteq Test /\ stuck \in BOOLEAN

\* A dump is the whole dump of the run that is named after its second, also when
\* earlier runs were killed or failed at any point, unless two runs began in that
\* second or the file was altered on the disk.
DumpIsWhole ==
    \A s \in Second : (final[s] # 0 /\ Alone(s)) =>
        content[final[s]] \in {Altered} \cup {r \in Backup : stamp[r] = s}

\* A restore test that passes, and is not mixed, has restored the very dump
\* its target's digest was taken of, and of a migrated database.
RestoreTestIsEarned ==
    \A t \in Test : (test[t] = "passed" /\ t \notin mixed) =>
        LET s == target[t]
        IN  (Alone(s) /\ digest[s] \in Backup) =>
                found[t] = digest[s] /\ snapshot[digest[s]]

\* The disposable database does not outlive the tests, unless one was killed or
\* could not remove it, and then only until a later one removes it.
ContainerIsRemoved == container # None => ActiveTest # {} \/ stuck

\* What runs that fail or are killed at any point leave: whole dumps, a container
\* only where its removal failed, and restore tests that say what they did.
BackupsAreSound ==
    BackupsTypeOK /\ DumpIsWhole /\ RestoreTestIsEarned /\ ContainerIsRemoved

\* What a run does never takes a dump away, or puts another in its place, unless
\* the two runs began in one second.
DumpsAreKept ==
    [][\A s \in Second : (final[s] # 0 /\ Alone(s))
          => final'[s] = final[s]]_backupsVars
=============================================================================
