---------------------------- MODULE ModelEvidence ----------------------------
(***************************************************************************)
(* B025 and B026, scripts/models/: capture-llmfit-evidence.sh with          *)
(* build-llmfit-report.py writes a bundle of files into a directory named   *)
(* after a second or by the operator; import-llmfit-evidence.sh with        *)
(* prepare-llmfit-evidence-import.py checks a bundle and puts its rows in   *)
(* fzh.model_candidate_evidence.  All runs here use one directory.          *)
(***************************************************************************)
EXTENDS Integers

CONSTANTS
    Captures,   \* runs of capture-llmfit-evidence.sh
    Imports,    \* runs of import-llmfit-evidence.sh
    UseCases,   \* number of use cases
    Outputs,    \* number of outputs that llmfit may give for a use case
    Systems     \* number of hardware descriptions

ASSUME EvidenceAssumption ==
    /\ Captures \in Nat /\ Imports \in Nat
    /\ UseCases \in Nat \ {0} /\ Outputs \in Nat /\ Systems \in Nat

Capture == 1..Captures
Import  == 1..Imports
UseCase == 1..UseCases
Output  == 1..Outputs    \* an output and its digest are one value
System  == 1..Systems    \* and so are system.json and its fingerprint

VARIABLES
    captured,   \* the file that each capture has to write next, Complete or CutShort
    open,       \* whether it has opened it, which empties it
    built,      \* the report and the manifest that it has in memory
    given,      \* history: system, synthetic flag and outputs of each capture
    system,     \* system.json, 0 when it is not there or empty
    recommend,  \* recommend-<use case>.json, likewise
    report,     \* candidate-report.json
    manifest,   \* manifest.json
    step,       \* where each import is
    useCase,    \* the use case that it checks
    loaded,     \* the report, the manifest and the outputs that it has read
    inbox,      \* model_candidate_evidence
    shared,     \* captures whose open file another capture has open as well
    raced,      \* history: imports beside which a capture has run
    mingled     \* history: imports that were not done when two captures overlapped

bundle       == <<system, recommend, report, manifest>>
capture      == <<captured, open, built, given>>
importing    == <<step, useCase, loaded>>
evidenceVars == <<bundle, capture, importing, inbox, shared, raced, mingled>>

Unread  == [u \in UseCase |-> 0]
Absent  == [system |-> 0, synthetic |-> FALSE]
NoSums  == [synthetic |-> FALSE, sha256 |-> Unread]
NoFiles == [report |-> Absent, manifest |-> NoSums, payload |-> Unread]

\* The files in the order in which a capture writes them: system.json is 0.
ReportFile   == UseCases + 1
ManifestFile == UseCases + 2
Complete     == UseCases + 3
CutShort     == UseCases + 4
Running      == {c \in Capture : captured[c] \in 0..ManifestFile}
Checking     == {i \in Import : step[i] \in {"report", "manifest", "digest", "load", "insert"}}
----------------------------------------------------------------------------
EvidenceInit ==
    /\ captured = [c \in Capture |-> -1] /\ open = [c \in Capture |-> FALSE]
    /\ built = [c \in Capture |-> [report |-> Absent, manifest |-> NoSums]]
    /\ given \in [Capture -> [system : System, synthetic : BOOLEAN, recommend : {Unread}]]
    /\ system = 0 /\ recommend = Unread /\ report = Absent /\ manifest = NoSums
    /\ step = [i \in Import |-> "absent"] /\ useCase = [i \in Import |-> 1]
    /\ loaded = [i \in Import |-> NoFiles]
    /\ inbox = {} /\ shared = {} /\ raced = {} /\ mingled = {}

\* mkdir -p: the directory may be there, with another capture's files in it and with
\* another capture at work in it; nothing locks it.
BeginCapture(c) ==
    /\ captured[c] = -1
    /\ captured' = [captured EXCEPT ![c] = 0]
    /\ raced' = raced \cup Checking
    /\ mingled' = mingled \cup {i \in Import : Running # {} /\ step[i] # "done"}
    /\ UNCHANGED <<bundle, open, built, given, importing, inbox, shared>>

\* Capture c empties its next file and writes from its start; so does each capture
\* that has the file open.
OpenFile(c) ==
    /\ c \in Running /\ ~open[c]
    /\ open' = [open EXCEPT ![c] = TRUE]
    /\ LET others == {d \in Running : open[d] /\ captured[d] = captured[c]}
       IN shared' = IF others = {} THEN shared ELSE shared \cup others \cup {c}

\* The shell opens the file before it starts llmfit.
OpenOutput(c) ==
    /\ OpenFile(c)
    /\ \/ captured[c] = 0 /\ system' = 0 /\ UNCHANGED recommend
       \/ /\ captured[c] \in UseCase
          /\ recommend' = [recommend EXCEPT ![captured[c]] = 0] /\ UNCHANGED system
    /\ UNCHANGED <<captured, built, given, report, manifest, importing, inbox, raced, mingled>>

\* llmfit ends with exit code 0; what it found is in the file.
WriteOutput(c) ==
    /\ open[c] /\ c \notin shared
    /\ \/ captured[c] = 0 /\ system' = given[c].system /\ UNCHANGED <<recommend, given>>
       \/ /\ captured[c] \in UseCase
          /\ \E t \in Output :
                /\ recommend' = [recommend EXCEPT ![captured[c]] = t]
                /\ given' = [given EXCEPT ![c].recommend[captured[c]] = t]
          /\ UNCHANGED system
    /\ captured' = [captured EXCEPT ![c] = @ + 1]
    /\ open' = [open EXCEPT ![c] = FALSE]
    /\ UNCHANGED <<built, report, manifest, importing, inbox, shared, raced, mingled>>

\* load_json takes no empty file.
Readable == system # 0 /\ \A u \in UseCase : recommend[u] # 0

\* The report is built from the files that were read back, then written.
OpenReport(c) ==
    /\ captured[c] = ReportFile /\ OpenFile(c) /\ Readable
    /\ built' = [built EXCEPT ![c].report = [system |-> system, synthetic |-> given[c].synthetic]]
    /\ report' = Absent
    /\ UNCHANGED <<captured, given, system, recommend, manifest, importing, inbox, raced, mingled>>

OpenManifest(c) ==
    /\ captured[c] = ManifestFile /\ OpenFile(c)
    /\ built' = [built EXCEPT ![c].manifest =
                    [synthetic |-> given[c].synthetic, sha256 |-> recommend]]
    /\ manifest' = NoSums
    /\ UNCHANGED <<captured, given, system, recommend, report, importing, inbox, raced, mingled>>

WriteReport(c) ==
    /\ captured[c] = ReportFile /\ open[c] /\ c \notin shared
    /\ report' = built[c].report
    /\ captured' = [captured EXCEPT ![c] = @ + 1]
    /\ open' = [open EXCEPT ![c] = FALSE]
    /\ UNCHANGED <<built, given, system, recommend, manifest, importing, inbox, shared, raced,
                   mingled>>

WriteManifest(c) ==
    /\ captured[c] = ManifestFile /\ open[c] /\ c \notin shared
    /\ manifest' = built[c].manifest
    /\ captured' = [captured EXCEPT ![c] = @ + 1]
    /\ open' = [open EXCEPT ![c] = FALSE]
    /\ UNCHANGED <<built, given, system, recommend, report, importing, inbox, shared, raced,
                   mingled>>

\* What is in the file of capture c when several have written to it: the text of one,
\* or of none, which no reader takes, or whatever the pieces of several make.
Mixture(c) ==
    \/ /\ captured[c] = 0 /\ system' \in 0..Systems
       /\ UNCHANGED <<recommend, report, manifest>>
    \/ /\ captured[c] \in UseCase
       /\ \E t \in 0..Outputs : recommend' = [recommend EXCEPT ![captured[c]] = t]
       /\ UNCHANGED <<system, report, manifest>>
    \/ /\ captured[c] = ReportFile
       /\ report' \in {Absent} \cup [system : System, synthetic : BOOLEAN]
       /\ UNCHANGED <<system, recommend, manifest>>
    \/ /\ captured[c] = ManifestFile
       /\ manifest' \in {NoSums} \cup [synthetic : BOOLEAN, sha256 : [UseCase -> Output]]
       /\ UNCHANGED <<system, recommend, report>>

\* A capture ends with a file that it has not had to itself.
WriteShared(c) ==
    /\ c \in shared /\ Mixture(c)
    /\ captured' = [captured EXCEPT ![c] = @ + 1]
    /\ open' = [open EXCEPT ![c] = FALSE] /\ shared' = shared \ {c}
    /\ UNCHANGED <<built, given, importing, inbox, raced, mingled>>

\* set -e, a signal, a reboot: nothing is cleaned up.
FailCapture(c) ==
    /\ c \in Running
    /\ IF c \in shared THEN Mixture(c) ELSE UNCHANGED bundle
    /\ captured' = [captured EXCEPT ![c] = CutShort]
    /\ open' = [open EXCEPT ![c] = FALSE] /\ shared' = shared \ {c}
    /\ UNCHANGED <<built, given, importing, inbox, raced, mingled>>
----------------------------------------------------------------------------
BeginImport(i) ==
    /\ step[i] = "absent" /\ \E c \in Capture : captured[c] # -1   \* -d "$BUNDLE"
    /\ step' = [step EXCEPT ![i] = "report"]
    /\ raced' = IF Running = {} THEN raced ELSE raced \cup {i}
    /\ UNCHANGED <<bundle, capture, useCase, loaded, inbox, shared, mingled>>

LoadReport(i) ==
    /\ step[i] = "report" /\ report # Absent
    /\ loaded' = [loaded EXCEPT ![i].report = report]
    /\ step' = [step EXCEPT ![i] = "manifest"]
    /\ UNCHANGED <<bundle, capture, useCase, inbox, shared, raced, mingled>>

LoadManifest(i) ==
    /\ step[i] = "manifest" /\ manifest # NoSums
    /\ manifest.synthetic = loaded[i].report.synthetic
    /\ loaded' = [loaded EXCEPT ![i].manifest = manifest]
    /\ step' = [step EXCEPT ![i] = "digest"]
    /\ UNCHANGED <<bundle, capture, useCase, inbox, shared, raced, mingled>>

\* Mutant of CheckDigest: the file is not compared with the manifest.
BadCheckDigest(i) ==
    /\ step[i] = "digest"
    /\ step' = [step EXCEPT ![i] = "load"]
    /\ UNCHANGED <<bundle, capture, useCase, loaded, inbox, shared, raced, mingled>>

CheckDigest(i) ==
    /\ step[i] = "digest"
    /\ recommend[useCase[i]] = loaded[i].manifest.sha256[useCase[i]]
    /\ step' = [step EXCEPT ![i] = "load"]
    /\ UNCHANGED <<bundle, capture, useCase, loaded, inbox, shared, raced, mingled>>

\* The rows come from the file as it is read again, after its digest.
LoadOutput(i) ==
    /\ step[i] = "load" /\ recommend[useCase[i]] # 0
    /\ loaded' = [loaded EXCEPT ![i].payload[useCase[i]] = recommend[useCase[i]]]
    /\ step' = [step EXCEPT ![i] = IF useCase[i] = UseCases THEN "insert" ELSE "digest"]
    /\ useCase' = [useCase EXCEPT ![i] = IF @ = UseCases THEN @ ELSE @ + 1]
    /\ UNCHANGED <<bundle, capture, inbox, shared, raced, mingled>>

EvidenceRow(i, u) ==
    [use_case             |-> u,
     hardware_fingerprint |-> loaded[i].report.system,
     synthetic            |-> loaded[i].report.synthetic,
     evidence_sha256      |-> loaded[i].manifest.sha256[u],
     source_payload       |-> loaded[i].payload[u],
     import               |-> i]

SameKey(r, q) == r.use_case = q.use_case /\ r.evidence_sha256 = q.evidence_sha256

\* One transaction; ON CONFLICT DO NOTHING leaves a row with the same key alone.
InsertRows(i) ==
    /\ step[i] = "insert"
    /\ inbox' = inbox \cup {r \in {EvidenceRow(i, u) : u \in UseCase} : ~\E q \in inbox : SameKey(r, q)}
    /\ step' = [step EXCEPT ![i] = "done"]
    /\ UNCHANGED <<bundle, capture, useCase, loaded, shared, raced, mingled>>

\* A file that is not as it should be, a signal, a reboot, an error of psql.
FailImport(i) ==
    /\ i \in Checking
    /\ step' = [step EXCEPT ![i] = "failed"]
    /\ UNCHANGED <<bundle, capture, useCase, loaded, inbox, shared, raced, mingled>>

EvidenceNext ==
    \/ \E c \in Capture :
          \/ BeginCapture(c) \/ OpenOutput(c) \/ WriteOutput(c) \/ OpenReport(c) \/ WriteReport(c)
          \/ OpenManifest(c) \/ WriteManifest(c) \/ WriteShared(c) \/ FailCapture(c)
    \/ \E i \in Import :
          \/ BeginImport(i) \/ LoadReport(i) \/ LoadManifest(i) \/ CheckDigest(i) \/ LoadOutput(i)
          \/ InsertRows(i) \/ FailImport(i)

EvidenceSpec == EvidenceInit /\ [][EvidenceNext]_evidenceVars
----------------------------------------------------------------------------
\* The states of the evidence tools are of these shapes.
EvidenceTypeOK ==
    /\ captured \in [Capture -> -1..CutShort] /\ open \in [Capture -> BOOLEAN]
    /\ system \in 0..Systems /\ recommend \in [UseCase -> 0..Outputs]
    /\ report.system \in 0..Systems /\ manifest.sha256 \in [UseCase -> 0..Outputs]
    /\ step \in [Import -> {"absent", "report", "manifest", "digest", "load", "insert",
                           "done", "failed"}]
    /\ useCase \in [Import -> UseCase]
    /\ \A c \in Capture : open[c] => c \in Running
    /\ \A c \in shared : c \in Capture /\ open[c]
    /\ \A r, q \in inbox : SameKey(r, q) => r = q
    /\ raced \subseteq Import /\ mingled \subseteq Import

RowsOf(i) == {r \in inbox : r.import = i}

\* These rows are of the outputs that capture c got, under their own digests, and
\* of the hardware that capture d found; the two agree whether it is synthetic.
Observed(rows, c, d) ==
    \A r \in rows :
        /\ r.source_payload = given[c].recommend[r.use_case]
        /\ r.evidence_sha256 = r.source_payload
        /\ r.hardware_fingerprint = given[d].system
        /\ r.synthetic = given[c].synthetic /\ r.synthetic = given[d].synthetic

\* What an import of a bundle at rest puts in the inbox is what one capture has
\* observed: the outputs that llmfit gave to it, under their own digests, with its
\* hardware.  One capture that broke off half-way through the files of another is
\* no exception.  After two of them the outputs may be of one capture and the
\* hardware of another: nothing compares the report with the system.json of the
\* manifest.  Where captures have overlapped, the rows still come under the digests
\* of what they were made from, and that is all.
RowsAreObserved ==
    /\ EvidenceTypeOK
    /\ \A i \in Import \ raced :
        /\ \A r \in RowsOf(i) : r.evidence_sha256 = r.source_payload
        /\ RowsOf(i) # {} /\ i \notin mingled =>
            \E c, d \in Capture :
                /\ Observed(RowsOf(i), c, d)
                /\ \/ c = d
                   \/ \E a, b \in Capture :
                         a # b /\ captured[a] = CutShort /\ captured[b] = CutShort
=============================================================================
