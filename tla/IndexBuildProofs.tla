-------------------------- MODULE IndexBuildProofs --------------------------
(***************************************************************************)
(* The safety of IndexBuild for any builds, files and searches when no two *)
(* builds are at work at once.  The strengthening says which file has the  *)
(* temporary name at each step of a build, that the file in place and the  *)
(* files of searches are never written to again, and that a file whose log *)
(* was copied holds all that was committed to it.                          *)
(***************************************************************************)
EXTENDS IndexBuild, TLAPS

Writing(b) == build[b].at \in {"write", "closing", "closed"}

OneAtWork == \A b, c \in Builds : Working(b) /\ Working(c) => b = c

\* The temporary name is that of the build at work, and free before it writes.
TempIsMine ==
    \A b \in Builds :
        /\ build[b].at = "cleared" => temp = None
        /\ Writing(b) => temp = build[b].file /\ temp # None

\* A file that does not exist is empty; the one in place is not written to.
FilesApart ==
    /\ temp # None => temp \in created /\ temp # live
    /\ live # None => live \in created
    /\ \A f \in Files \ created : all[f] = Empty /\ main[f] = Empty

\* Metadata name a build that has begun, so that its size is known.
MetaBegun ==
    \A f \in Files :
        /\ all[f].meta # None => build[all[f].meta].at # "new"
        /\ main[f].meta # None => build[main[f].meta].at # "new"

\* Metadata come after the last batch, and all is in the main file before the move.
InOrder ==
    \A b \in Builds :
        /\ build[b].at \in {"closing", "closed"} =>
              build[b].written = build[b].size /\ all[build[b].file].meta = b
        /\ build[b].at = "closed" =>
              main[build[b].file] = all[build[b].file] \/ build[b].file \in short
        /\ build[b].at \in {"new", "cleared"} => build[b].written = 0

\* A search holds one file that is whole and stays as it is.
ReadsWhole ==
    \A s \in Searches : search[s].at # "new" =>
        /\ search[s].file \in created /\ search[s].file # temp
        /\ Whole(main[search[s].file]) \/ search[s].file \in short
        /\ search[s].at = "embed" => search[s].meta = main[search[s].file].meta

IInv ==
    /\ TypeOK /\ OwnFile /\ LiveIsWhole /\ HitsMatchEmbedder /\ NoLeftovers
    /\ OneAtWork /\ TempIsMine /\ FilesApart /\ MetaBegun /\ InOrder /\ ReadsWhole

LEMMA InitIInv == Init => IInv
BY IndexAssumption
   DEF Init, IInv, TypeOK, Content, Empty, Build, Search, OwnFile, LiveIsWhole,
       HitsMatchEmbedder, NoLeftovers, OneAtWork, Working, TempIsMine, Writing, FilesApart,
       MetaBegun, InOrder, ReadsWhole

\* What is whole stays whole while its file is left alone and begun builds keep their size.
LEMMA WholeStays ==
    ASSUME IInv, NEW f \in Files, main'[f] = main[f],
           \A b \in Builds : build[b].at # "new" => build'[b].size = build[b].size,
           Whole(main[f])
    PROVE  Whole(main[f])'
<1>1. PICK b \in Builds : main[f].meta = b /\ main[f].rows = RowsOf(b, build[b].size)
  BY DEF Whole
<1>2. build[b].at # "new"
  BY <1>1, IndexAssumption DEF IInv, MetaBegun
<1> QED
  BY <1>1, <1>2 DEF Whole, RowsOf

\* A step of a build that writes to no file but the temporary one, and gives the
\* temporary name to no file that exists, keeps what searches and the live index rest on.
LEMMA BuildKeepsReaders ==
    ASSUME IInv, short \subseteq short', live' = live, created \subseteq created',
           search' = search, temp' # None => temp' = temp \/ temp' \notin created,
           \A f \in Files : f # temp => main'[f] = main[f],
           \A b \in Builds : build[b].at # "new" => build'[b].size = build[b].size
    PROVE  LiveIsWhole' /\ HitsMatchEmbedder' /\ ReadsWhole'
<1>1. \A f \in Files : f # temp /\ Whole(main[f]) => Whole(main[f])'
  BY WholeStays
<1>2. LiveIsWhole'
  <2>1. live # None => live \in Files /\ live # temp
    BY DEF IInv, TypeOK, FilesApart
  <2> QED BY <1>1, <2>1 DEF IInv, LiveIsWhole, Whole
<1>3. HitsMatchEmbedder'
  BY DEF IInv, HitsMatchEmbedder
<1>4. ASSUME NEW s \in Searches, search'[s].at # "new"
      PROVE  /\ search'[s].file \in created' /\ search'[s].file # temp'
             /\ Whole(main[search[s].file])' \/ search'[s].file \in short'
             /\ search'[s].at = "embed" => search'[s].meta = main'[search'[s].file].meta
  <2>1. search[s].file \in Files /\ search[s].file \in created /\ search[s].file # temp
    BY <1>4 DEF IInv, ReadsWhole, TypeOK
  <2>2. search[s].file # temp'
    BY <1>4, <2>1, IndexAssumption DEF IInv, ReadsWhole
  <2>3. main'[search[s].file] = main[search[s].file]
    BY <2>1
  <2>4. Whole(main[search[s].file]) => Whole(main[search[s].file])'
    BY <1>1, <2>1
  <2> QED
    BY <1>4, <2>1, <2>2, <2>3, <2>4 DEF IInv, ReadsWhole
<1> QED
  BY <1>2, <1>3, <1>4 DEF ReadsWhole

LEMMA StartKeeps ==
    ASSUME ~Overlap, IInv, NEW b \in Builds, NEW n \in 0 .. MaxSize, Start(b, n)
    PROVE  IInv'
<1>1. /\ build' = [build EXCEPT ![b] = [@ EXCEPT !.at = "cleared", !.size = n]]
      /\ build[b].at = "new" /\ \A c \in Builds : ~Working(c)
      /\ temp' = None /\ UNCHANGED <<live, created, all, main, search, short>>
  BY DEF Start
<1>2. build[b] \in Build /\ build \in [Builds -> Build] /\ build[b].written = 0
  BY <1>1 DEF IInv, TypeOK, InOrder
<1>3. /\ build'[b].at = "cleared" /\ build'[b].size = n
      /\ build'[b].written = build[b].written /\ build'[b].file = build[b].file
      /\ \A c \in Builds \ {b} : build'[c] = build[c]
  BY <1>1, <1>2 DEF Build
<1>4. build'[b] \in Build
  <2>1. build'[b] = [at |-> "cleared", size |-> n,
                     written |-> build[b].written, file |-> build[b].file]
    BY <1>1, <1>2 DEF Build
  <2> QED BY <1>2, <2>1 DEF Build
<1>5. TypeOK'
  BY <1>1, <1>2, <1>3, <1>4 DEF IInv, TypeOK
<1>6. LiveIsWhole' /\ HitsMatchEmbedder' /\ ReadsWhole'
  BY <1>1, <1>3, BuildKeepsReaders
<1>7. OwnFile' /\ NoLeftovers' /\ OneAtWork' /\ TempIsMine'
  BY <1>1, <1>3 DEF OwnFile, NoLeftovers, OneAtWork, TempIsMine, Working, Writing
<1>8. FilesApart' /\ MetaBegun' /\ InOrder'
  BY <1>1, <1>2, <1>3, IndexAssumption DEF IInv, FilesApart, MetaBegun, InOrder, Working, TypeOK, Content
<1> QED
  BY <1>5, <1>6, <1>7, <1>8 DEF IInv

LEMMA OpenTempKeeps ==
    ASSUME IInv, NEW b \in Builds, NEW f \in Files, OpenTemp(b, f)
    PROVE  IInv'
<1>1. /\ build' = [build EXCEPT ![b] = [@ EXCEPT !.at = "write", !.file = f]]
      /\ build[b].at = "cleared" /\ temp = None /\ f \notin created
      /\ temp' = f /\ created' = created \cup {f}
      /\ UNCHANGED <<live, all, main, search, short>>
  BY DEF OpenTemp, IInv, TempIsMine
<1>2. build[b] \in Build /\ build \in [Builds -> Build] /\ build[b].written = 0
  BY <1>1 DEF IInv, TypeOK, InOrder
<1>3. /\ build'[b].at = "write" /\ build'[b].file = f
      /\ build'[b].written = 0 /\ build'[b].size = build[b].size
      /\ \A c \in Builds \ {b} : build'[c] = build[c]
  BY <1>1, <1>2 DEF Build
<1>4. build'[b] \in Build
  <2>1. build'[b] = [at |-> "write", size |-> build[b].size,
                     written |-> build[b].written, file |-> f]
    BY <1>1, <1>2 DEF Build
  <2> QED BY <1>2, <2>1 DEF Build
<1>5. TypeOK'
  BY <1>1, <1>2, <1>3, <1>4 DEF IInv, TypeOK
<1>6. LiveIsWhole' /\ HitsMatchEmbedder' /\ ReadsWhole'
  BY <1>1, <1>2, <1>3, BuildKeepsReaders
<1>7. \A c \in Builds \ {b} : ~Working(c)
  BY <1>1 DEF IInv, OneAtWork, Working
<1>8. all[f].rows = {} /\ RowsOf(b, 0) = {}
  BY <1>1 DEF IInv, FilesApart, Empty, RowsOf
<1>9. OwnFile' /\ NoLeftovers' /\ OneAtWork' /\ TempIsMine'
  <2>1. OwnFile'
    <3> SUFFICES ASSUME NEW c \in Builds, build'[c].at \in {"write", "closing", "closed"}
                 PROVE  all'[build'[c].file].rows = RowsOf(c, build'[c].written)
      BY DEF OwnFile, RowsOf
    <3>1. c = b BY <1>3, <1>7 DEF Working
    <3> QED BY <1>1, <1>3, <1>8, <3>1
  <2>2. NoLeftovers' BY <1>1, <1>3 DEF NoLeftovers
  <2>3. OneAtWork' BY <1>3, <1>7 DEF OneAtWork, Working
  <2>4. TempIsMine'
    BY <1>1, <1>3, <1>7, IndexAssumption DEF TempIsMine, Working, Writing
  <2> QED BY <2>1, <2>2, <2>3, <2>4
<1>10. FilesApart' /\ MetaBegun' /\ InOrder'
  BY <1>1, <1>2, <1>3, <1>7, IndexAssumption
     DEF IInv, FilesApart, MetaBegun, InOrder, Working, TypeOK, Content
<1> QED
  BY <1>5, <1>6, <1>9, <1>10 DEF IInv

\* What a build at work knows: the temporary file is its own, and no other build works.
LEMMA AtWork ==
    ASSUME IInv, NEW b \in Builds, Writing(b)
    PROVE  /\ build[b].file \in Files /\ build[b].file = temp /\ temp \in created /\ temp # live
           /\ \A c \in Builds \ {b} : ~Working(c)
           /\ \A s \in Searches : search[s].at # "new" => search[s].file # temp
BY IndexAssumption
   DEF IInv, TypeOK, Build, Writing, TempIsMine, FilesApart, OneAtWork, Working, ReadsWhole

LEMMA AddChunksKeeps ==
    ASSUME IInv, NEW b \in Builds, AddChunks(b)
    PROVE  IInv'
<1> DEFINE f == build[b].file
           n == build[b].written + 1
           c0 == [all[f] EXCEPT !.rows = @ \cup {<<b, n>>}]
<1>1. /\ build[b].at = "write" /\ n <= build[b].size
      /\ all' = [all EXCEPT ![f] = c0] /\ main' \in {main, [main EXCEPT ![f] = c0]}
      /\ build' = [build EXCEPT ![b].written = n]
      /\ UNCHANGED <<temp, live, created, search, short>>
  BY DEF AddChunks, Commit
<1>2. /\ f \in Files /\ f = temp /\ f \in created /\ f # live
      /\ \A c \in Builds \ {b} : ~Working(c)
  BY <1>1, AtWork DEF Writing
<1>3. build[b].written \in Nat /\ n \in 1 .. MaxSize
  BY <1>1, IndexAssumption DEF IInv, TypeOK, Build
<1>4. c0 \in Content /\ c0.meta = all[f].meta /\ c0.rows = RowsOf(b, n)
  <2>1. all[f] \in Content /\ all[f].rows = RowsOf(b, build[b].written)
    BY <1>1, <1>2 DEF IInv, TypeOK, OwnFile
  <2>2. RowsOf(b, build[b].written) \cup {<<b, n>>} = RowsOf(b, n)
    <3>1. 1 .. n = (1 .. build[b].written) \cup {n}
      BY <1>3
    <3> QED BY <3>1 DEF RowsOf
  <2>3. RowsOf(b, n) \subseteq Builds \X (1 .. MaxSize)
    BY <1>3, IndexAssumption DEF RowsOf
  <2> QED BY <2>1, <2>2, <2>3 DEF Content
<1> HIDE DEF c0
<1>5. TypeOK'
  BY <1>1, <1>2, <1>3, <1>4 DEF IInv, TypeOK, Build
<1>6. LiveIsWhole' /\ HitsMatchEmbedder' /\ ReadsWhole'
  <2>1. \A g \in Files : g # temp => main'[g] = main[g]
    BY <1>1, <1>2 DEF IInv, TypeOK
  <2>2. \A c \in Builds : build[c].at # "new" => build'[c].size = build[c].size
    BY <1>1 DEF IInv, TypeOK, Build
  <2> QED BY <1>1, <2>1, <2>2, BuildKeepsReaders
<1>7. /\ build'[b].at = "write" /\ build'[b].file = f /\ build'[b].written = n
      /\ \A c \in Builds : build'[c].at = build[c].at /\ build'[c].file = build[c].file
      /\ \A c \in Builds \ {b} : build'[c] = build[c]
  BY <1>1 DEF IInv, TypeOK, Build
<1> HIDE DEF n
<1>8. OwnFile'
  <2> SUFFICES ASSUME NEW c \in Builds, build'[c].at \in {"write", "closing", "closed"}
               PROVE  all'[build'[c].file].rows = RowsOf(c, build'[c].written)
    BY DEF OwnFile, RowsOf
  <2>1. c = b BY <1>2, <1>7 DEF Working
  <2> QED BY <1>1, <1>2, <1>4, <1>7, <2>1 DEF IInv, TypeOK
<1>9. NoLeftovers' /\ OneAtWork' /\ TempIsMine'
  BY <1>1, <1>2, <1>7 DEF IInv, NoLeftovers, OneAtWork, TempIsMine, Working, Writing
<1>10. FilesApart' /\ MetaBegun' /\ InOrder'
  <2>1. FilesApart' BY <1>1, <1>2 DEF IInv, FilesApart, TypeOK
  <2>2. MetaBegun' BY <1>1, <1>2, <1>4, <1>7 DEF IInv, MetaBegun, TypeOK
  <2>3. InOrder' BY <1>1, <1>2, <1>7 DEF IInv, InOrder, Working
  <2> QED BY <2>1, <2>2, <2>3
<1> QED
  BY <1>5, <1>6, <1>8, <1>9, <1>10 DEF IInv

LEMMA SetMetaKeeps ==
    ASSUME IInv, NEW b \in Builds, SetMeta(b)
    PROVE  IInv'
<1> DEFINE f == build[b].file
           c0 == [all[f] EXCEPT !.meta = b]
<1>1. /\ build[b].at = "write" /\ build[b].written = build[b].size
      /\ all' = [all EXCEPT ![f] = c0] /\ main' \in {main, [main EXCEPT ![f] = c0]}
      /\ build' = [build EXCEPT ![b].at = "closing"]
      /\ UNCHANGED <<temp, live, created, search, short>>
  BY DEF SetMeta, Commit
<1>2. /\ f \in Files /\ f = temp /\ f \in created /\ f # live
      /\ \A c \in Builds \ {b} : ~Working(c)
  BY <1>1, AtWork DEF Writing
<1>3. c0 \in Content /\ c0.meta = b /\ c0.rows = RowsOf(b, build[b].written)
  BY <1>1, <1>2 DEF IInv, TypeOK, OwnFile, Content
<1> HIDE DEF c0
<1>4. TypeOK'
  BY <1>1, <1>2, <1>3 DEF IInv, TypeOK, Build
<1>5. LiveIsWhole' /\ HitsMatchEmbedder' /\ ReadsWhole'
  <2>1. \A g \in Files : g # temp => main'[g] = main[g]
    BY <1>1, <1>2 DEF IInv, TypeOK
  <2>2. \A c \in Builds : build[c].at # "new" => build'[c].size = build[c].size
    BY <1>1 DEF IInv, TypeOK, Build
  <2> QED BY <1>1, <2>1, <2>2, BuildKeepsReaders
<1>6. /\ build'[b].at = "closing" /\ build'[b].file = f
      /\ build'[b].written = build[b].written /\ build'[b].size = build[b].size
      /\ \A c \in Builds \ {b} : build'[c] = build[c]
  BY <1>1 DEF IInv, TypeOK, Build
<1>7. OwnFile'
  <2> SUFFICES ASSUME NEW c \in Builds, build'[c].at \in {"write", "closing", "closed"}
               PROVE  all'[build'[c].file].rows = RowsOf(c, build'[c].written)
    BY DEF OwnFile, RowsOf
  <2>1. c = b BY <1>2, <1>6 DEF Working
  <2> QED BY <1>1, <1>2, <1>3, <1>6, <2>1 DEF IInv, TypeOK
<1>8. NoLeftovers' /\ OneAtWork' /\ TempIsMine'
  BY <1>1, <1>2, <1>6 DEF IInv, NoLeftovers, OneAtWork, TempIsMine, Working, Writing
<1>9. FilesApart' /\ MetaBegun' /\ InOrder'
  <2>1. FilesApart' BY <1>1, <1>2 DEF IInv, FilesApart, TypeOK
  <2>2. MetaBegun' BY <1>1, <1>2, <1>3, <1>6 DEF IInv, MetaBegun, TypeOK
  <2>3. InOrder' BY <1>1, <1>2, <1>3, <1>6 DEF IInv, InOrder, Working, TypeOK
  <2> QED BY <2>1, <2>2, <2>3
<1> QED
  BY <1>4, <1>5, <1>7, <1>8, <1>9 DEF IInv

LEMMA CheckpointAndCloseKeeps ==
    ASSUME IInv, NEW b \in Builds, CheckpointAndClose(b)
    PROVE  IInv'
<1> DEFINE f == build[b].file
<1>1. /\ build[b].at = "closing"
      /\ \/ main' = [main EXCEPT ![f] = all[f]] /\ short' = short
         \/ main' = main /\ short' = short \cup {f}
      /\ build' = [build EXCEPT ![b].at = "closed"]
      /\ UNCHANGED <<temp, live, created, all, search>>
  BY DEF CheckpointAndClose
<1>2. /\ f \in Files /\ f = temp /\ f \in created /\ f # live
      /\ \A c \in Builds \ {b} : ~Working(c)
  BY <1>1, AtWork DEF Writing
<1>3. TypeOK'
  BY <1>1, <1>2 DEF IInv, TypeOK, Build
<1>4. LiveIsWhole' /\ HitsMatchEmbedder' /\ ReadsWhole'
  <2>1. \A g \in Files : g # temp => main'[g] = main[g]
    BY <1>1, <1>2 DEF IInv, TypeOK
  <2>2. \A c \in Builds : build[c].at # "new" => build'[c].size = build[c].size
    BY <1>1 DEF IInv, TypeOK, Build
  <2> QED BY <1>1, <2>1, <2>2, BuildKeepsReaders
<1>5. /\ build'[b].at = "closed" /\ build'[b].file = f
      /\ build'[b].written = build[b].written /\ build'[b].size = build[b].size
      /\ \A c \in Builds \ {b} : build'[c] = build[c]
  BY <1>1 DEF IInv, TypeOK, Build
<1>6. OwnFile'
  <2> SUFFICES ASSUME NEW c \in Builds, build'[c].at \in {"write", "closing", "closed"}
               PROVE  all'[build'[c].file].rows = RowsOf(c, build'[c].written)
    BY DEF OwnFile, RowsOf
  <2>1. c = b BY <1>2, <1>5 DEF Working
  <2> QED BY <1>1, <1>2, <1>5, <2>1 DEF IInv, OwnFile
<1>7. NoLeftovers' /\ OneAtWork' /\ TempIsMine'
  BY <1>1, <1>2, <1>5 DEF IInv, NoLeftovers, OneAtWork, TempIsMine, Working, Writing
<1>8. FilesApart' /\ MetaBegun' /\ InOrder'
  <2>1. FilesApart' BY <1>1, <1>2 DEF IInv, FilesApart, TypeOK
  <2>2. MetaBegun' BY <1>1, <1>2, <1>5 DEF IInv, MetaBegun, TypeOK
  <2>3. InOrder' BY <1>1, <1>2, <1>5 DEF IInv, InOrder, Working, TypeOK
  <2> QED BY <2>1, <2>2, <2>3
<1> QED
  BY <1>3, <1>4, <1>6, <1>7, <1>8 DEF IInv

LEMMA ReplaceKeeps ==
    ASSUME IInv, NEW b \in Builds, Replace(b)
    PROVE  IInv'
<1> DEFINE f == build[b].file
<1>1. build[b].at = "closed" /\ temp = f /\ temp # None /\ f \in Files /\ f \in created
  BY IndexAssumption DEF Replace, IInv, TempIsMine, Writing, TypeOK, FilesApart
<1>2. /\ build' = [build EXCEPT ![b].at = "done"] /\ live' = f /\ temp' = None
      /\ UNCHANGED <<created, all, main, search, short>>
  BY <1>1 DEF Replace
<1>3. \A c \in Builds \ {b} : ~Working(c)
  BY <1>1, AtWork DEF Writing
<1>4. /\ build'[b].at = "done" /\ build'[b].size = build[b].size
      /\ \A c \in Builds \ {b} : build'[c] = build[c]
      /\ \A c \in Builds : build'[c].size = build[c].size
  BY <1>2 DEF IInv, TypeOK, Build
<1>5. TypeOK'
  BY <1>1, <1>2 DEF IInv, TypeOK, Build
<1>6. Whole(main[f]) \/ f \in short
  BY <1>1 DEF IInv, InOrder, OwnFile, Whole
<1>7. LiveIsWhole' /\ HitsMatchEmbedder'
  <2>1. Whole(main[f]) => Whole(main[f])'
    BY <1>1, <1>2, <1>4, WholeStays
  <2>2. LiveIsWhole'
    BY <1>2, <1>6, <2>1 DEF LiveIsWhole, Whole
  <2>3. HitsMatchEmbedder'
    BY <1>2 DEF IInv, HitsMatchEmbedder
  <2> QED BY <2>2, <2>3
<1>8. ReadsWhole'
  <2> SUFFICES ASSUME NEW s \in Searches, search[s].at # "new"
               PROVE  /\ search[s].file \in created /\ search[s].file # None
                      /\ Whole(main[search[s].file])' \/ search[s].file \in short
                      /\ search[s].at = "embed" => search[s].meta = main[search[s].file].meta
    BY <1>2 DEF ReadsWhole, Whole
  <2>1. search[s].file \in Files /\ search[s].file \in created
    BY DEF IInv, ReadsWhole, TypeOK
  <2>2. Whole(main[search[s].file]) => Whole(main[search[s].file])'
    BY <1>2, <1>4, <2>1, WholeStays
  <2> QED BY <2>1, <2>2, IndexAssumption DEF IInv, ReadsWhole
<1>9. OwnFile' /\ NoLeftovers' /\ OneAtWork' /\ TempIsMine'
  BY <1>2, <1>3, <1>4 DEF OwnFile, NoLeftovers, OneAtWork, TempIsMine, Working, Writing
<1>10. FilesApart' /\ MetaBegun' /\ InOrder'
  <2>1. FilesApart' BY <1>1, <1>2 DEF IInv, FilesApart
  <2>2. MetaBegun'
    <3>1. \A c \in Builds : build[c].at # "new" => build'[c].at # "new"
      BY <1>1, <1>4
    <3> QED BY <1>2, <3>1 DEF IInv, MetaBegun, TypeOK, Content
  <2>3. InOrder' BY <1>2, <1>4 DEF IInv, InOrder
  <2> QED BY <2>1, <2>2, <2>3
<1> QED
  BY <1>5, <1>7, <1>8, <1>9, <1>10 DEF IInv

\* A build that fails or is killed stops working and touches no content.
LEMMA EndKeeps ==
    ASSUME IInv, NEW b \in Builds, Fail(b) \/ Kill(b)
    PROVE  IInv'
<1>1. /\ Working(b)
      /\ \/ build' = [build EXCEPT ![b].at = "failed"] /\ temp' = None
         \/ build' = [build EXCEPT ![b].at = "killed"] /\ temp' = temp
      /\ UNCHANGED <<live, created, all, main, search, short>>
  BY DEF Fail, Kill, Working
<1>2. \A c \in Builds \ {b} : ~Working(c)
  BY <1>1 DEF IInv, OneAtWork
<1>3. /\ build'[b].at \in {"failed", "killed"} /\ build'[b].file = build[b].file
      /\ \A c \in Builds \ {b} : build'[c] = build[c]
      /\ \A c \in Builds : build'[c].size = build[c].size
      /\ temp' # None => temp' = temp /\ build'[b].at = "killed"
  BY <1>1 DEF IInv, TypeOK, Build
<1>4. TypeOK'
  BY <1>1 DEF IInv, TypeOK, Build
<1>5. LiveIsWhole' /\ HitsMatchEmbedder' /\ ReadsWhole'
  BY <1>1, <1>3, BuildKeepsReaders
<1>6. OwnFile' /\ OneAtWork' /\ TempIsMine'
  BY <1>1, <1>2, <1>3 DEF IInv, OwnFile, OneAtWork, TempIsMine, Working, Writing
<1>7. NoLeftovers'
  BY <1>1, <1>2, <1>3 DEF IInv, NoLeftovers, Working
<1>8. FilesApart' /\ MetaBegun' /\ InOrder'
  <2>1. FilesApart' BY <1>1, <1>3 DEF IInv, FilesApart
  <2>2. MetaBegun'
    <3>1. \A c \in Builds : build[c].at # "new" => build'[c].at # "new"
      BY <1>3
    <3> QED BY <1>1, <3>1 DEF IInv, MetaBegun, TypeOK, Content
  <2>3. InOrder' BY <1>1, <1>3 DEF IInv, InOrder
  <2> QED BY <2>1, <2>2, <2>3
<1> QED
  BY <1>4, <1>5, <1>6, <1>7, <1>8 DEF IInv

\* A step of a search changes that search only.
LEMMA SearchKeeps ==
    ASSUME IInv, NEW s \in Searches, OpenIndex(s) \/ GetMeta(s) \/ FindHits(s)
    PROVE  IInv'
<1> DEFINE q == search[s]
<1>1. search \in [Searches -> Search] /\ q \in Search
  BY DEF IInv, TypeOK
<1>2. UNCHANGED <<temp, live, created, all, main, build, short>>
  BY DEF OpenIndex, GetMeta, FindHits
<1>3. \A t \in Searches \ {s} : search'[t] = search[t]
  BY <1>1 DEF OpenIndex, GetMeta, FindHits
<1>4. \/ /\ search'[s] = [at |-> "open", file |-> live, meta |-> q.meta, hits |-> q.hits]
         /\ live # None
      \/ /\ search'[s] = [at |-> "embed", file |-> q.file,
                          meta |-> main[q.file].meta, hits |-> q.hits]
         /\ q.at = "open"
      \/ /\ search'[s] = [at |-> "done", file |-> q.file, meta |-> q.meta,
                          hits |-> {x[1] : x \in main[q.file].rows}]
         /\ q.at = "embed"
  BY <1>1 DEF OpenIndex, GetMeta, FindHits, Search
<1>5. /\ search' \in [Searches -> Search]
      /\ q.at # "new" => main[q.file] \in Content
  <2>1. q.at # "new" => q.file \in Files
    BY DEF IInv, ReadsWhole, TypeOK
  <2>2. q.at # "new" => main[q.file] \in Content
    BY <2>1 DEF IInv, TypeOK
  <2>3. q.at # "new" => main[q.file].meta \in Builds \cup {None}
                        /\ main[q.file].rows \subseteq Builds \X (1 .. MaxSize)
    BY <2>2 DEF Content
  <2>4. q.at # "new" => {x[1] : x \in main[q.file].rows} \subseteq Builds
    BY <2>3
  <2>5. search'[s] \in Search
    BY <1>1, <1>4, <2>3, <2>4 DEF IInv, TypeOK, Search
  <2>6. search' = [search EXCEPT ![s] = search'[s]]
    BY <1>1 DEF OpenIndex, GetMeta, FindHits
  <2> QED BY <1>1, <2>2, <2>5, <2>6
<1>6. TypeOK'
  BY <1>2, <1>5 DEF IInv, TypeOK
<1>8. LiveIsWhole' /\ OwnFile' /\ NoLeftovers' /\ OneAtWork' /\ TempIsMine' /\ FilesApart'
      /\ MetaBegun' /\ InOrder'
  BY <1>2 DEF IInv, LiveIsWhole, Whole, OwnFile, NoLeftovers, OneAtWork, Working, TempIsMine,
              Writing, FilesApart, MetaBegun, InOrder
<1>9. ReadsWhole'
  <2>1. live # None => live \in created /\ live # temp
    BY DEF IInv, FilesApart
  <2>2. live # None => Whole(main[live]) \/ live \in short
    BY DEF IInv, LiveIsWhole
  <2>3. /\ search'[s].file \in created /\ search'[s].file # temp
        /\ Whole(main[search'[s].file]) \/ search'[s].file \in short
        /\ search'[s].at = "embed" => search'[s].meta = main[search'[s].file].meta
    BY <1>4, <2>1, <2>2 DEF IInv, ReadsWhole
  <2> QED
    BY <1>2, <1>3, <2>3 DEF IInv, ReadsWhole, Whole
<1>10. HitsMatchEmbedder'
  <2>1. ASSUME search'[s].at = "done", search'[s].file \notin short
        PROVE  search'[s].hits \subseteq {search'[s].meta}
    <3>1. /\ q.at = "embed" /\ search'[s].file = q.file /\ search'[s].meta = q.meta
          /\ search'[s].hits = {x[1] : x \in main[q.file].rows}
      BY <1>4, <2>1
    <3>2. PICK b \in Builds : /\ main[q.file].meta = b
                              /\ main[q.file].rows = RowsOf(b, build[b].size)
      BY <2>1, <3>1 DEF IInv, ReadsWhole, Whole
    <3>3. q.meta = b
      BY <3>1, <3>2 DEF IInv, ReadsWhole
    <3> QED BY <3>1, <3>2, <3>3 DEF RowsOf
  <2> QED BY <1>2, <1>3, <2>1 DEF IInv, HitsMatchEmbedder
<1> QED
  BY <1>6, <1>8, <1>9, <1>10 DEF IInv

LEMMA StepKeepsIInv ==
    ASSUME ~Overlap, IInv, [Next]_vars
    PROVE  IInv'
<1>1. CASE UNCHANGED vars
  BY <1>1 DEF vars, IInv, TypeOK, OwnFile, LiveIsWhole, Whole, HitsMatchEmbedder, NoLeftovers,
              OneAtWork, Working, TempIsMine, Writing, FilesApart, MetaBegun, InOrder, ReadsWhole
<1>2. CASE Next
  BY <1>2, StartKeeps, OpenTempKeeps, AddChunksKeeps, SetMetaKeeps, CheckpointAndCloseKeeps,
     ReplaceKeeps, EndKeeps, SearchKeeps DEF Next
<1> QED BY <1>1, <1>2

\* The strengthening holds of every run with one build at a time.
THEOREM IndexInvariant ==
    ASSUME ~Overlap
    PROVE  Spec => []IInv
<1>1. Init => IInv BY InitIInv
<1>2. IInv /\ [Next]_vars => IInv' BY StepKeepsIInv
<1> QED BY <1>1, <1>2, PTL DEF Spec

\* A build never adds to what an earlier one left behind (IngestionService.build, unlink).
THEOREM BuildsApart ==
    ASSUME ~Overlap
    PROVE  Spec => []OwnFile
<1>1. IInv => OwnFile BY DEF IInv
<1> QED BY <1>1, IndexInvariant, PTL

\* The file in place is one whole build unless its checkpoint failed, whatever step a
\* build fails at or is killed at (IngestionService.build, os.replace).
THEOREM LiveWhole ==
    ASSUME ~Overlap
    PROVE  Spec => []LiveIsWhole
<1>1. IInv => LiveIsWhole BY DEF IInv
<1> QED BY <1>1, IndexInvariant, PTL

\* A search finds chunks of the build whose embedder it used (RagService.search).
THEOREM SearchInOneBuild ==
    ASSUME ~Overlap
    PROVE  Spec => []HitsMatchEmbedder
<1>1. IInv => HitsMatchEmbedder BY DEF IInv
<1> QED BY <1>1, IndexInvariant, PTL

\* A build that ends by itself leaves no temporary file (IngestionService.build, except).
THEOREM NothingLeftBehind ==
    ASSUME ~Overlap
    PROVE  Spec => []NoLeftovers
<1>1. IInv => NoLeftovers BY DEF IInv
<1> QED BY <1>1, IndexInvariant, PTL
=============================================================================
