----------------------------- MODULE IndexBuild -----------------------------
(***************************************************************************)
(* The build of the RAG index (src/app/services/rag/ingestion/service.py,  *)
(* index/sqlite_index.py), run from the command line, and the searches of  *)
(* the server, another process, in the index it replaces.                  *)
(*                                                                         *)
(* Files are told apart from their names: a process keeps the file it has  *)
(* opened when the name goes to another one.  A SQLite file in WAL mode    *)
(* holds what was committed partly in its log, which is another file and   *)
(* is not renamed with it.  A log left by a killed build is ignored, as    *)
(* SQLite deletes the log of an empty database.                            *)
(***************************************************************************)
EXTENDS Naturals

CONSTANTS Builds,    \* runs of the build command
          Files,     \* database files ever created, one per build at most
          Searches,  \* searches of the server
          None,      \* no file, no metadata
          MaxSize,   \* bound: batches of chunks in a build
          Overlap,   \* whether a build may start while another one runs
          DiskFull   \* whether the checkpoint may fail for want of space

ASSUME IndexAssumption ==
    /\ None \notin Builds \cup Files
    /\ MaxSize \in Nat /\ Overlap \in BOOLEAN /\ DiskFull \in BOOLEAN

VARIABLES temp,     \* the file named <index>.building
          live,     \* the file named <index>
          created,  \* files created so far
          all,      \* of a file: what was committed to it
          main,     \* of a file: what its main file holds, without the log
          build,    \* the state of each build
          search,   \* the state of each search
          short     \* history: files whose checkpoint failed

vars == <<temp, live, created, all, main, build, search, short>>

Content == [rows: SUBSET (Builds \X (1 .. MaxSize)), meta: Builds \cup {None}]
Empty == [rows |-> {}, meta |-> None]

Build == [at: {"new", "cleared", "write", "closing", "closed", "done", "failed", "killed"},
          size: 0 .. MaxSize, written: 0 .. MaxSize, file: Files \cup {None}]
Search == [at: {"new", "open", "embed", "done"}, file: Files \cup {None},
           meta: Builds \cup {None}, hits: SUBSET Builds]

Init ==
    /\ temp = None
    /\ live = None
    /\ created = {}
    /\ all = [f \in Files |-> Empty]
    /\ main = [f \in Files |-> Empty]
    /\ build = [b \in Builds |-> [at |-> "new", size |-> 0, written |-> 0, file |-> None]]
    /\ search = [s \in Searches |-> [at |-> "new", file |-> None, meta |-> None, hits |-> {}]]
    /\ short = {}

Working(b) == build[b].at \in {"cleared", "write", "closing", "closed"}
RowsOf(b, n) == {b} \X (1 .. n)

----------------------------------------------------------------------------
(* A build.                                                                *)

\* Mutant: the leftovers of a killed build are opened again.
StartKeepingLeftovers(b, n) ==
    /\ build[b].at = "new"
    /\ Overlap \/ \A c \in Builds : ~Working(c)
    /\ build' = [build EXCEPT ![b] = [@ EXCEPT !.at = "cleared", !.size = n]]
    /\ UNCHANGED <<temp, live, created, all, main, search, short>>

\* The documents that could be loaded make n batches; a temporary file is removed.
Start(b, n) ==
    /\ build[b].at = "new"
    /\ Overlap \/ \A c \in Builds : ~Working(c)
    /\ temp' = None
    /\ build' = [build EXCEPT ![b] = [@ EXCEPT !.at = "cleared", !.size = n]]
    /\ UNCHANGED <<live, created, all, main, search, short>>

\* Connecting creates the file unless there is one by now.
OpenTemp(b, f) ==
    /\ build[b].at = "cleared"
    /\ IF temp = None THEN f \notin created ELSE f = temp
    /\ temp' = f
    /\ created' = created \cup {f}
    /\ build' = [build EXCEPT ![b] = [@ EXCEPT !.at = "write", !.file = f]]
    /\ UNCHANGED <<live, all, main, search, short>>

\* Commits go to the log; SQLite may copy it to the main file.
Commit(f, content) ==
    /\ all' = [all EXCEPT ![f] = content]
    /\ main' \in {main, [main EXCEPT ![f] = content]}

AddChunks(b) ==
    LET f == build[b].file
        n == build[b].written + 1
    IN  /\ build[b].at = "write"
        /\ n <= build[b].size
        /\ Commit(f, [all[f] EXCEPT !.rows = @ \cup {<<b, n>>}])
        /\ build' = [build EXCEPT ![b].written = n]
        /\ UNCHANGED <<temp, live, created, search, short>>

\* Mutant: the metadata is written before the last batch.
SetMetaEarly(b) ==
    LET f == build[b].file
    IN  /\ build[b].at = "write"
        /\ build[b].written + 1 >= build[b].size
        /\ Commit(f, [all[f] EXCEPT !.meta = b])
        /\ build' = [build EXCEPT ![b].at = "closing"]
        /\ UNCHANGED <<temp, live, created, search, short>>

SetMeta(b) ==
    LET f == build[b].file
    IN  /\ build[b].at = "write"
        /\ build[b].written = build[b].size
        /\ Commit(f, [all[f] EXCEPT !.meta = b])
        /\ build' = [build EXCEPT ![b].at = "closing"]
        /\ UNCHANGED <<temp, live, created, search, short>>

\* checkpoint and close copy the log to the main file and report no failure.
CheckpointAndClose(b) ==
    LET f == build[b].file
    IN  /\ build[b].at = "closing"
        /\ \/ main' = [main EXCEPT ![f] = all[f]] /\ UNCHANGED short
           \/ DiskFull /\ short' = short \cup {f} /\ UNCHANGED main
        /\ build' = [build EXCEPT ![b].at = "closed"]
        /\ UNCHANGED <<temp, live, created, all, search>>

\* os.replace moves whatever has the temporary name by now; if nothing has, it fails.
Replace(b) ==
    /\ build[b].at = "closed"
    /\ IF temp = None
       THEN build' = [build EXCEPT ![b].at = "failed"] /\ UNCHANGED live
       ELSE build' = [build EXCEPT ![b].at = "done"] /\ live' = temp
    /\ temp' = None
    /\ UNCHANGED <<created, all, main, search, short>>

\* Mutant: the temporary file is only removed by the next build.
FailKeepingTemp(b) ==
    /\ build[b].at \in {"cleared", "write", "closing", "closed"}
    /\ build' = [build EXCEPT ![b].at = "failed"]
    /\ UNCHANGED <<temp, live, created, all, main, search, short>>

\* Embedding or writing raises, or the user interrupts: the temporary file is removed.
Fail(b) ==
    /\ build[b].at \in {"cleared", "write", "closing", "closed"}
    /\ temp' = None
    /\ build' = [build EXCEPT ![b].at = "failed"]
    /\ UNCHANGED <<live, created, all, main, search, short>>

\* The process is killed: nothing is cleaned up.
Kill(b) ==
    /\ Working(b)
    /\ build' = [build EXCEPT ![b].at = "killed"]
    /\ UNCHANGED <<temp, live, created, all, main, search, short>>

----------------------------------------------------------------------------
(* A search: one connection to the file that has the name when it starts.  *)

OpenIndex(s) ==
    /\ search[s].at = "new"
    /\ live # None
    /\ search' = [search EXCEPT ![s] = [@ EXCEPT !.at = "open", !.file = live]]
    /\ UNCHANGED <<temp, live, created, all, main, build, short>>

\* The metadata says which embedder built the index; the question is embedded with it.
GetMeta(s) ==
    /\ search[s].at = "open"
    /\ search' = [search EXCEPT ![s] = [@ EXCEPT !.at = "embed", !.meta = main[search[s].file].meta]]
    /\ UNCHANGED <<temp, live, created, all, main, build, short>>

\* Mutant: the index is opened again for the search.
FindHitsReopened(s) ==
    /\ search[s].at = "embed"
    /\ search' = [search EXCEPT ![s] =
                    [@ EXCEPT !.at = "done", !.hits = {x[1] : x \in main[live].rows}]]
    /\ UNCHANGED <<temp, live, created, all, main, build, short>>

FindHits(s) ==
    /\ search[s].at = "embed"
    /\ search' = [search EXCEPT ![s] =
                    [@ EXCEPT !.at = "done", !.hits = {x[1] : x \in main[search[s].file].rows}]]
    /\ UNCHANGED <<temp, live, created, all, main, build, short>>

Next ==
    \/ \E b \in Builds :
          \/ \E n \in 0 .. MaxSize : Start(b, n)
          \/ \E f \in Files : OpenTemp(b, f)
          \/ AddChunks(b) \/ SetMeta(b) \/ CheckpointAndClose(b) \/ Replace(b)
          \/ Fail(b) \/ Kill(b)
    \/ \E s \in Searches : OpenIndex(s) \/ GetMeta(s) \/ FindHits(s)

Spec == Init /\ [][Next]_vars

----------------------------------------------------------------------------
(* Properties.                                                             *)

TypeOK ==
    /\ temp \in Files \cup {None} /\ live \in Files \cup {None}
    /\ created \subseteq Files /\ short \subseteq Files
    /\ all \in [Files -> Content] /\ main \in [Files -> Content]
    /\ build \in [Builds -> Build]
    /\ search \in [Searches -> Search]

\* A build writes to a file that holds nothing but its own batches, whatever an
\* earlier build left behind when it failed or was killed (build, unlink).
OwnFile ==
    \A b \in Builds : build[b].at \in {"write", "closing", "closed"} =>
        all[build[b].file].rows = RowsOf(b, build[b].written)

\* The live index is one whole build with its metadata, whenever a build fails or is
\* killed; only a checkpoint that failed unnoticed may have put less in place
\* ("An obvious failure never leaves a half-built index", ingestion/service.py:6).
Whole(content) ==
    \E b \in Builds : content.meta = b /\ content.rows = RowsOf(b, build[b].size)
LiveIsWhole == live # None => Whole(main[live]) \/ live \in short

\* A search compares the question with chunks of the build whose embedder it used,
\* also when the index is replaced under it (RagService.search).
HitsMatchEmbedder ==
    \A s \in Searches : search[s].at = "done" /\ search[s].file \notin short =>
        search[s].hits \subseteq {search[s].meta}

\* A temporary file belongs to a build that is at work or was killed: one that ends by
\* itself, at whatever step, leaves none (build, except).
NoLeftovers ==
    temp # None => \E b \in Builds :
        build[b].file = temp /\ build[b].at \in {"write", "closing", "closed", "killed"}

\* "everything is written to a temporary SQLite file and only os.replaced into place
\* after it succeeds" (ingestion/service.py:5-6).
OnlyFinishedInPlace ==
    live # None => \A b \in Builds : build[b].file = live => build[b].at = "done"
=============================================================================
