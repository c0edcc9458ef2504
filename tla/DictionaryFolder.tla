--------------------------- MODULE DictionaryFolder ---------------------------
(***************************************************************************)
(* The folder a dictionary is imported into, over several imports of the   *)
(* same title: an update, or the same file again.  An import writes over   *)
(* what is there, file by file, and says so with a marker at the end; one  *)
(* that fails removes the folder; a process may be killed at any step.     *)
(* What a query makes of the folder is open_dict_.                         *)
(*                                                                         *)
(* A file is whether the last import wrote it or an older one, and whether *)
(* all of it is there.  A stream is flushed when it is closed, and a disk  *)
(* that is full then is not noticed: its destructor does not throw.  That  *)
(* is true of dict.zstd, scan.idx, the media, index.json and blobs.bin.    *)
(* There is no bound on the number of imports.                             *)
(***************************************************************************)
EXTENDS Naturals

Core == {"blobs.bin", "hash.table", "bloom.filter", "index.json"}
Files == Core \cup {"dict.zstd", "scan.idx", "media.bin", "media.idx"}
Absent == [by |-> "nobody", whole |-> FALSE]
\* what a source has: rows, keys longer than 16 code points, media, enough text to train on
Parts == {"rows", "long keys", "media", "trained"}

VARIABLES
    folder,     \* what each file holds
    markers,    \* the .hoshidicts_<n> files there are, by n
    at,         \* what the import is about to do; "idle" when there is none
    queued,     \* the tasks of the pool that have not begun
    running,    \* the tasks whose files are open
    source,     \* the parts of the source imported last
    over,       \* whether that import began on a folder with a marker
    outcome     \* how it ended: "success", "failure" or "killed"; or "running"
vars == <<folder, markers, at, queued, running, source, over, outcome>>

\* files of this import, opened and so emptied, or written to the end
Opened(f, files) == [g \in Files |-> IF g \in files THEN [by |-> "this", whole |-> FALSE] ELSE f[g]]
Written(f, files) == [g \in Files |-> IF g \in files THEN [by |-> "this", whole |-> TRUE] ELSE f[g]]
\* closed: what is still in the buffer is written, or lost
Closed(files) == {Written(folder, files), Opened(folder, files)}
Goto(step) == at' = step
There(f) == folder[f] # Absent

-----------------------------------------------------------------------------
(* One import.                                                             *)

\* from create_directories on; what fails before it leaves the folder alone
Begin == \E parts \in SUBSET Parts :
    /\ at = "idle"
    /\ folder' = [f \in Files |-> IF There(f) THEN [folder[f] EXCEPT !.by = "older"] ELSE Absent]
    /\ source' = parts /\ over' = (markers # {}) /\ outcome' = "running"
    /\ Goto("train")
    /\ UNCHANGED <<markers, queued, running>>

\* its stream is gone at the end of the block, with what it could not flush
WriteZstdDict ==
    /\ at = "train"
    /\ folder' \in IF "trained" \in source THEN Closed({"dict.zstd"}) ELSE {folder}
    /\ Goto("blobs")
    /\ UNCHANGED <<markers, queued, running, source, over, outcome>>

OpenBlobs ==
    /\ at = "blobs"
    /\ folder' = Opened(folder, {"blobs.bin"})
    /\ Goto("banks")
    /\ UNCHANGED <<markers, queued, running, source, over, outcome>>

\* the banks, and scan.idx when a key is long; a source without rows is no dictionary
WriteBanks ==
    /\ at = "banks"
    /\ folder' \in IF "long keys" \in source THEN Closed({"scan.idx"}) ELSE {folder}
    /\ IF "rows" \in source
       THEN Goto("tables") /\ queued' = {"blobs.bin", "hash.table", "bloom.filter"} \cup ({"media"} \cap source)
       ELSE Goto("failing") /\ UNCHANGED queued
    /\ UNCHANGED <<markers, running, source, over, outcome>>

\* the pool and the importing thread: each task opens its files, then writes
\* them to the end; the end of blobs.bin may stay in the buffer of its stream
FilesOf(task) == IF task = "media" THEN {"media.bin", "media.idx"} ELSE {task}
OpenTable == \E task \in queued :
    /\ at = "tables"
    /\ folder' = IF task = "blobs.bin" THEN folder ELSE Opened(folder, FilesOf(task))
    /\ queued' = queued \ {task} /\ running' = running \cup {task}
    /\ UNCHANGED <<markers, at, source, over, outcome>>
WriteTable == \E task \in running :
    /\ at = "tables"
    /\ \E lost \in SUBSET (FilesOf(task) \ {"hash.table", "bloom.filter"}) :
         folder' = Written(folder, FilesOf(task) \ lost)
    /\ running' = running \ {task}
    /\ UNCHANGED <<markers, at, queued, source, over, outcome>>

\* Faulty variant: the tasks are not waited for.
WriteIndexEarly ==
    /\ at = "tables"
    /\ \E flushed \in BOOLEAN :
         folder' = IF flushed THEN Written(folder, {"index.json"}) ELSE Opened(folder, {"index.json"})
    /\ Goto("mark")
    /\ UNCHANGED <<markers, queued, running, source, over, outcome>>
\* the summary may stay in the buffer of its stream
WriteIndex ==
    /\ at = "tables" /\ queued = {} /\ running = {}
    /\ \E flushed \in BOOLEAN :
         folder' = IF flushed THEN Written(folder, {"index.json"}) ELSE Opened(folder, {"index.json"})
    /\ Goto("mark")
    /\ UNCHANGED <<markers, queued, running, source, over, outcome>>

ownMarker == IF "trained" \in source THEN 6 ELSE 5
\* nobody asks whether the marker could be made
Mark ==
    /\ at = "mark"
    /\ markers' \in {markers, markers \cup {ownMarker}}
    /\ Goto("close index")
    /\ UNCHANGED <<folder, queued, running, source, over, outcome>>

\* the end of the try block: the streams close, the last one opened first
CloseIndex ==
    /\ at = "close index"
    /\ folder' \in IF folder["index.json"].whole THEN {folder} ELSE Closed({"index.json"})
    /\ Goto("close blobs")
    /\ UNCHANGED <<markers, queued, running, source, over, outcome>>
CloseBlobs ==
    /\ at = "close blobs"
    /\ folder' \in IF folder["blobs.bin"].whole THEN {folder} ELSE Closed({"blobs.bin"})
    /\ Goto("idle")
    /\ outcome' = "success"
    /\ UNCHANGED <<markers, queued, running, source, over>>

-----------------------------------------------------------------------------
(* What goes wrong.                                                        *)

\* a write, or reading the source, throws; the pool is joined on the way out
Throw ==
    /\ at \in {"train", "blobs", "banks", "tables", "mark"}
    /\ Goto("failing")
    /\ queued' = {} /\ running' = {}
    /\ UNCHANGED <<folder, markers, source, over, outcome>>

\* remove_all: one file after the other, in no order
RemoveOne ==
    /\ at = "failing"
    /\ \/ \E f \in Files : There(f) /\ folder' = [folder EXCEPT ![f] = Absent] /\ UNCHANGED markers
       \/ \E m \in markers : markers' = markers \ {m} /\ UNCHANGED folder
    /\ UNCHANGED <<at, queued, running, source, over, outcome>>
Removed ==
    /\ at = "failing" /\ markers = {} /\ \A f \in Files : ~There(f)
    /\ Goto("idle")
    /\ outcome' = "failure"
    /\ UNCHANGED <<folder, markers, queued, running, source, over>>

\* the process is killed; what is in the buffers is lost
Kill ==
    /\ at # "idle"
    /\ Goto("idle") /\ queued' = {} /\ running' = {}
    /\ outcome' = "killed"
    /\ UNCHANGED <<folder, markers, source, over>>

Init ==
    /\ folder = [f \in Files |-> Absent] /\ markers = {} /\ at = "idle" /\ queued = {} /\ running = {}
    /\ source = {} /\ over = FALSE /\ outcome = "success"
Next ==
    \/ Begin \/ WriteZstdDict \/ OpenBlobs \/ WriteBanks \/ OpenTable \/ WriteTable
    \/ WriteIndex \/ Mark \/ CloseIndex \/ CloseBlobs
    \/ Throw \/ RemoveOne \/ Removed \/ Kill
Spec == Init /\ [][Next]_vars

-----------------------------------------------------------------------------
(* What a query makes of the folder.                                       *)

\* the newest layout is looked for first
version == IF 6 \in markers THEN 6 ELSE 5
\* open_dict_; a table or a dict.zstd that is not whole may pass or not
opens ==
    /\ markers # {}
    /\ folder["index.json"].whole
    /\ There("hash.table") /\ There("bloom.filter") /\ There("blobs.bin")
    /\ version = 6 => There("dict.zstd")

\* An import began on a folder that opened, and did not end: over the older
\* dictionary there is a mixture of the two.
Interrupted == over /\ outcome # "success"

\* A folder a query opens holds one import, whichever step a process was
\* killed at and whatever earlier imports left behind: its core files are by
\* one import and whole, unless an import over an older dictionary was
\* interrupted.  The one gap is the end of blobs.bin, which is flushed after
\* the marker is made.
OpensOneImport ==
    opens /\ ~Interrupted =>
        /\ \A f \in Core : folder[f].by = "this"
        /\ \A f \in Core \ {"blobs.bin"} : folder[f].whole
        /\ folder["blobs.bin"].whole \/ at \in {"close index", "close blobs"} \/ outcome \in {"killed", "success"}

\* what an import must have brought to the disk for its dictionary to be read:
\* nobody asks whether these streams could be flushed when they were closed
Flushed ==
    \A f \in {"index.json", "blobs.bin"} \cup (IF "trained" \in source THEN {"dict.zstd"} ELSE {}) : folder[f].whole


\* README.md: get_media_file gives the bytes of the file stored at a path, or
\* none if the file does not exist: what is served after an import is of the
\* source imported.
MediaOfTheSource ==
    (at = "idle" /\ opens /\ outcome = "success" /\ There("media.bin") /\ There("media.idx")) =>
        folder["media.bin"].by = "this" /\ folder["media.idx"].by = "this"
===============================================================================
