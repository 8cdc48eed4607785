------------------------------ MODULE MCPostgres ------------------------------
(* What writes to the database beside the stages, each part on its own: a       *)
(* behaviour has the steps of one of them.  Two runs of migrate.sh over two     *)
(* files with two texts; two backups in up to two seconds, and two restore      *)
(* tests; two captures of model evidence and two imports; three evaluations of  *)
(* two candidates.                                                              *)
EXTENDS Migrations, Backups, ModelEvidence, ModelRegistry
CONSTANTS m1, m2
VARIABLE part

TwoMigrators == {m1, m2}

(* The first capture finds the machine 1, which is not synthetic, and output 1 for *)
(* every use case: the other cases are the same with other names.                  *)
PostgresInit ==
    /\ MigrationsInit /\ BackupsInit /\ EvidenceInit /\ RegistryInit
    /\ part \in {"migrations", "backups", "evidence", "registry"}
    /\ given[1].system = 1 /\ ~given[1].synthetic
    /\ part # "evidence" => given[2] = given[1]
    /\ part # "migrations" => released = File

(* The runs of migrate.sh are alike, so m1 is the first; and no run reads a change  *)
(* of the files that comes when both are over.                                      *)
MigrationsMatter ==
    /\ phase'[m2] # "absent" => phase'[m1] # "absent"
    /\ repository' # repository => \E m \in Migrator : phase[m] \notin {"current", "failed"}

(* Only a backup that begins reads the second, and only a dump sees whether the    *)
(* database was migrated: no other step can tell when these change.  Backups do not  *)
(* see the tests; so they go on as long as a test that is not mixed may look at what *)
(* they do, and to their digests while one that has passed is compared with these.   *)
(* One dump is altered on the disk.                                                 *)
BackupsMatter ==
    /\ now' # now => stage[1] = "open" /\ stage[2] = "absent"
    /\ migrated' # migrated => \E r \in Backup : stage[r] = "dump"
    /\ <<now, migrated, backup, directory>>' # <<now, migrated, backup, directory>> =>
          \E t \in Test \ mixed :
             \/ test[t] \notin {"passed", "failed"}
             \/ /\ test[t] = "passed"
                /\ \E r \in Backup : stage'[r] # stage[r] /\ stage'[r] \in {"sum", "done"}
    /\ Cardinality({i \in Backup : content'[i] = Altered}) <= 1

FirstOutputs == \A u \in UseCase : given'[1].recommend[u] \in {0, 1}

(* The first capture and the first import to begin are those with the number 1.    *)
InTurn ==
    /\ captured'[2] # -1 => captured'[1] # -1
    /\ step'[2] # "absent" => step'[1] # "absent"

(* Of captures that overlap, what is claimed is about an import that comes after    *)
(* them: only one, and only after them.                                             *)
OverlapMatters ==
    /\ mingled' # mingled => \A i \in Import : step[i] = "absent"
    /\ mingled # {} /\ step' # step => Running = {} /\ step'[2] = "absent"

(* The first evaluation is one that counts: others come after it.                   *)
FirstCounts == evaluations = {} => \A r \in evaluations' : Valid(r)

PostgresNext ==
    /\ \/ part = "migrations" /\ MigrationsNext /\ MigrationsMatter
          /\ UNCHANGED <<backupsVars, evidenceVars, registryVars>>
       \/ part = "backups"    /\ BackupsNext /\ BackupsMatter
          /\ UNCHANGED <<migrationsVars, evidenceVars, registryVars>>
       \/ part = "evidence"   /\ EvidenceNext /\ FirstOutputs /\ InTurn /\ OverlapMatters
          /\ UNCHANGED <<migrationsVars, backupsVars, registryVars>>
       \/ part = "registry"   /\ RegistryNext /\ FirstCounts
          /\ UNCHANGED <<migrationsVars, backupsVars, evidenceVars>>
    /\ UNCHANGED part

PostgresSpec ==
    PostgresInit
    /\ [][PostgresNext]_<<migrationsVars, backupsVars, evidenceVars, registryVars, part>>
=============================================================================
