------------------------------ MODULE AtomicFile ------------------------------
(***************************************************************************)
(* One JSON file as lib/atomic.py writes and reads it: a temporary file,   *)
(* flushed; the old content copied aside; an atomic rename; the directory  *)
(* flushed.  Any step of a write can fail, the process can be killed and   *)
(* the power can go between any two of them.  One process writes (its      *)
(* stores hold a lock); another (the Streamlit pages) may read at any time. *)
(***************************************************************************)
EXTENDS Naturals

CONSTANTS
    Values,         \* whole contents
    Absent, Torn,   \* no file; a file json.load refuses
    Default,        \* what a reader is given when there is nothing to read
    Damage,         \* whether something else may mangle the file
    NoAnswer

ASSUME FileAssumption ==
    /\ Absent \notin Values /\ Torn \notin Values /\ Absent # Torn
    /\ Default \notin Values \cup {Absent} /\ NoAnswer \notin Values \cup {Default}
    /\ Damage \in BOOLEAN

VARIABLES
    file,       \* the path itself
    reverts,    \* what the path may be again after a power loss
    bak,        \* the .bak copy
    bakFlushed, \* whether a power loss leaves the copy as it is
    tmp,        \* the temporary file
    pc,         \* where the writer is
    new,        \* what it is writing
    saved,      \* history: what the file may hold when nobody writes it: what the
                \* last write wrote, or what a crash in the middle of one leaves open
    mangled,    \* history: something else has mangled the file
    reader,     \* "idle", or "quarantine" with the damaged file read
    recovered,  \* what it found in the copy
    answer      \* what the last read returned

disk == <<file, reverts, bak, bakFlushed, tmp>>
writing == <<pc, new, saved, mangled>>
reading == <<reader, recovered, answer>>
fileVars == <<disk, writing, reading>>

Contents == Values \cup {Absent, Torn}

-----------------------------------------------------------------------------
FileInit ==
    /\ file \in Values \cup {Absent} /\ saved = {file} /\ mangled = FALSE
    /\ reverts = {} /\ bak = Absent /\ bakFlushed = TRUE /\ tmp = Absent
    /\ pc = "idle" /\ new = Absent
    /\ reader = "idle" /\ recovered = Absent /\ answer = NoAnswer

\* write_json_atomic(path, v): mkstemp.
WriteBegin(v) ==
    /\ pc = "idle"
    /\ pc' = "dump" /\ new' = v /\ tmp' = Torn
    /\ UNCHANGED <<file, reverts, bak, bakFlushed, saved, mangled, reading>>

\* A dump whose error is swallowed.
WriteDataTorn ==
    /\ pc = "dump"
    /\ pc' = IF file = Absent THEN "replace" ELSE "backup"
    /\ tmp' \in {new, Torn}
    /\ UNCHANGED <<file, reverts, bak, bakFlushed, new, saved, mangled, reading>>

\* json.dump, flush, fsync of the data.
WriteData ==
    /\ pc = "dump"
    /\ pc' = IF file = Absent THEN "replace" ELSE "backup"
    /\ tmp' = new
    /\ UNCHANGED <<file, reverts, bak, bakFlushed, new, saved, mangled, reading>>

\* shutil.copy2 truncates the old copy, then fills it; it is not flushed, and
\* an error is ignored.
BackupBegin ==
    /\ pc = "backup"
    /\ pc' = "copy"
    /\ bak' = Torn /\ bakFlushed' = FALSE
    /\ UNCHANGED <<file, reverts, tmp, new, saved, mangled, reading>>

BackupEnd ==
    /\ pc = "copy"
    /\ pc' = "replace"
    /\ bak' \in {file, Torn}
    /\ UNCHANGED <<file, reverts, bakFlushed, tmp, new, saved, mangled, reading>>

BackupRefused ==
    /\ pc = "backup"
    /\ pc' = "replace"
    /\ UNCHANGED <<disk, new, saved, mangled, reading>>

\* A rename before the data is on disk.
ReplaceEarly ==
    /\ pc \in {"dump", "replace"}
    /\ pc' = "sync"
    /\ file' = tmp /\ tmp' = Absent
    /\ reverts' = reverts \cup {file}
    /\ UNCHANGED <<bak, bakFlushed, new, saved, mangled, reading>>

\* os.replace: atomic, and not yet durable.
Replace ==
    /\ pc = "replace"
    /\ pc' = "sync"
    /\ file' = tmp /\ tmp' = Absent
    /\ reverts' = reverts \cup {file}
    /\ UNCHANGED <<bak, bakFlushed, new, saved, mangled, reading>>

\* A write that returns with the directory not flushed.
SyncDirSkipped ==
    /\ pc = "sync"
    /\ pc' = "idle" /\ saved' = {new} /\ new' = Absent
    /\ UNCHANGED <<disk, mangled, reading>>

\* fsync of the directory: the rename is durable, the write returns.
SyncDir ==
    /\ pc = "sync"
    /\ reverts' = {}
    /\ pc' = "idle" /\ saved' = {new} /\ new' = Absent
    /\ UNCHANGED <<file, bak, bakFlushed, tmp, mangled, reading>>

\* A filesystem that cannot flush a directory: the error is ignored, and the
\* write returns with the rename still open.
SyncDirRefused ==
    /\ pc = "sync"
    /\ pc' = "idle" /\ saved' = {new} \cup reverts /\ new' = Absent
    /\ UNCHANGED <<disk, mangled, reading>>

\* The data cannot be written (a full disk) or the rename fails: the temporary
\* file goes, the caller gets the error.
WriteFails ==
    /\ pc \in {"dump", "replace"}
    /\ pc' = "idle" /\ new' = Absent /\ tmp' = Absent
    /\ UNCHANGED <<file, reverts, bak, bakFlushed, saved, mangled, reading>>

\* The processes end, in the middle of whatever they did.
Stop ==
    /\ pc' = "idle" /\ new' = Absent /\ tmp' = Absent
    /\ reader' = "idle" /\ recovered' = Absent
    /\ saved' = {file'} \cup reverts'
    /\ UNCHANGED <<mangled, answer>>

Kill ==
    /\ UNCHANGED <<file, reverts, bak, bakFlushed>>
    /\ Stop

\* The power goes: what was not flushed may be lost.
PowerLoss ==
    /\ file' \in {file} \cup reverts /\ reverts' = {}
    /\ (bak' = bak \/ (~bakFlushed /\ bak' = Torn))
    /\ bakFlushed' = TRUE
    /\ Stop

\* Something outside the program mangles the file.
Mangle ==
    /\ Damage /\ file \in Values
    /\ file' = Torn /\ mangled' = TRUE
    /\ UNCHANGED <<reverts, bak, bakFlushed, tmp, pc, new, saved, reading>>

-----------------------------------------------------------------------------
\* read_json_resilient: the file, if it is whole; the default, if there is
\* none.
Read ==
    /\ reader = "idle" /\ file # Torn
    /\ answer' = IF file = Absent THEN Default ELSE file
    /\ UNCHANGED <<disk, writing, reader, recovered>>

\* An unreadable file: what the copy holds, then the file put out of the way.
ReadDamaged ==
    /\ reader = "idle" /\ file = Torn
    /\ reader' = "quarantine"
    /\ recovered' = IF bak \in Values THEN bak ELSE Default
    /\ UNCHANGED <<disk, writing, answer>>

Quarantine ==
    /\ reader = "quarantine"
    /\ file' = Absent /\ reverts' = reverts \cup {file}
    /\ reader' = "idle" /\ recovered' = Absent
    /\ answer' = recovered
    /\ UNCHANGED <<bak, bakFlushed, tmp, writing>>

FileNext ==
    \/ \E v \in Values : WriteBegin(v)
    \/ WriteData \/ BackupBegin \/ BackupEnd \/ BackupRefused
    \/ Replace \/ SyncDir \/ SyncDirRefused \/ WriteFails
    \/ Kill \/ PowerLoss \/ Mangle
    \/ Read \/ ReadDamaged \/ Quarantine

FileSpec == FileInit /\ [][FileNext]_fileVars

-----------------------------------------------------------------------------
FileTypeOK ==
    /\ {file, bak, tmp} \subseteq Contents /\ reverts \subseteq Contents
    /\ pc \in {"idle", "dump", "backup", "copy", "replace", "sync"}
    /\ pc = "idle" <=> new = Absent
    /\ pc \in {"backup", "copy", "replace"} => tmp = new
    /\ reader = "idle" <=> recovered = Absent
    /\ answer \in Values \cup {Default, NoAnswer}

\* Unless something else mangles it, the file is always the whole old content
\* or the whole new one, at every step of a write, after every failure and
\* after a crash (lib/atomic.py:11-15: "a reader (and a crash) only ever sees
\* the whole old file or the whole new one").
WholeOldOrNew ==
    ~mangled =>
        /\ file \in Values \cup {Absent}
        /\ file \in saved \/ (pc = "sync" /\ file = new)

\* What is on the disk and in hand keeps its type, and the file is whole.
FileHolds == FileTypeOK /\ WholeOldOrNew

\* The file keeps the promise of SafeFile: through every failure and crash a
\* write happens in one step or not at all, what a write that returned has
\* written survives a power loss where the directory could be flushed
\* (lib/atomic.py:84 "fsync the DIRECTORY so the rename itself is durable"), and
\* a reader is given what was written last.
Safe == INSTANCE SafeFile WITH
    content <- file, mayBe <- IF pc = "sync" THEN saved \cup {new} ELSE saved, broken <- mangled
IsSafeFile == Safe!Spec

\* While there is a whole copy, no read takes the store for an empty one: a
\* damaged file is recovered from its copy (lib/atomic.py:15-16: "a corrupted or
\* externally-mangled file is still recoverable").
RecoveryLasts == [][answer # Default /\ bak \in Values => answer' # Default]_fileVars
=============================================================================
