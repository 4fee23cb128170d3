------------------------------ MODULE SongSync ------------------------------
(***************************************************************************)
(* services/songsService.ts and songMetadataService.ts: the list of songs  *)
(* is fetched from the game, kept in memory and in jpSongs.json; from it   *)
(* the levels of the charts are brought up to date, in memory and in two   *)
(* more files: songs.json, the list the levels were last compared with,    *)
(* and songMetadata.json.  A list is known by its number in Catalogue, its *)
(* hash is its content; a song has one chart, whose level is the song's    *)
(* version.  What Bestdori supplements, the raw charts on disk and the     *)
(* chart count (which is only logged) are left out.                        *)
(***************************************************************************)
EXTENDS Naturals, Sequences

CONSTANTS
  Songs,
  Catalogue,     \* the lists the game publishes one after the other: version of each song, 0 absent
  Callers,       \* requests of the metadata
  MaxFaults      \* bound: failed writes and restarts

VARIABLES
  published,   \* the game's list
  snapshot,    \* the list in memory, 0 when none
  listFile,    \* jpSongs.json
  load,        \* pending: "no", "fetch" or "write" and the list it got
  given,       \* history: the last list given out
  songsFile,   \* songs.json
  metaFile,    \* songMetadata.json
  state,       \* what the metadata service holds
  reading,     \* loadState of each caller: the dataset it read
  sync,        \* syncPromise: where performSync stands, and its local variables
  torn,        \* history: songs.json belongs to a synchronisation whose levels were lost
  faults

vars == <<published, snapshot, listFile, load, given, songsFile, metaFile, state, reading, sync,
          torn, faults>>
lists == <<snapshot, listFile, load, given>>

Content(list) == IF list = 0 THEN [s \in Songs |-> 0] ELSE Catalogue[list]

\* The levels of the songs: NoSong is not in chartMeta, a song of level Failed has no chart.
Failed == 0
NoSong == [known |-> FALSE, level |-> 0]
Song(level) == [known |-> TRUE, level |-> level]
NoState == [meta |-> [s \in Songs |-> NoSong], hash |-> 0]
NotReading == [pc |-> "no", dataset |-> NoState]
NoLoad == [pc |-> "no", list |-> 0]
NoSync == [pc |-> "no", old |-> 0, list |-> 0, meta |-> NoState.meta, changed |-> {},
           written |-> NoState]

\* A first start, or the files of version 1: levels without a hash.
Init ==
  /\ published = 1 /\ snapshot = 0 /\ listFile = 0 /\ load = NoLoad /\ given = 0
  /\ \/ songsFile = 0 /\ metaFile = NoState
     \/ songsFile = 1
        /\ metaFile = [hash |-> 0, meta |-> [s \in Songs |-> IF Content(1)[s] = 0 THEN NoSong ELSE Song(Content(1)[s])]]
  /\ state = NoState /\ reading = [c \in Callers |-> NotReading] /\ sync = NoSync
  /\ torn = FALSE /\ faults = 0

Publish ==
  /\ published < Len(Catalogue) /\ published' = published + 1
  /\ UNCHANGED <<lists, songsFile, metaFile, state, reading, sync, torn, faults>>

-----------------------------------------------------------------------------
\* getSongsList is answered: a synchronisation that awaits it goes on.  0 is a rejection.
Deliver(list) ==
  /\ load' = NoLoad /\ given' = IF list = 0 THEN given ELSE list
  /\ sync' = IF sync.pc # "list" THEN sync
             ELSE IF list = 0 THEN NoSync ELSE [sync EXCEPT !.pc = "hash", !.list = list]

\* load: the file when memory is empty, and what is there while it is fresh.
LoadSongs ==
  LET found == IF snapshot = 0 THEN listFile ELSE snapshot
  IN  /\ load.pc = "no" /\ snapshot' = found
      /\ \/ load' = [load EXCEPT !.pc = "fetch"] /\ UNCHANGED <<given, sync>>
         \/ found # 0 /\ Deliver(found)
      /\ UNCHANGED <<published, listFile, songsFile, metaFile, state, reading, torn, faults>>

FetchJp ==
  /\ load.pc = "fetch" /\ load' = [pc |-> "write", list |-> published]
  /\ UNCHANGED <<published, snapshot, listFile, given, songsFile, metaFile, state, reading, sync,
                 torn, faults>>

FetchJpFails ==
  /\ load.pc = "fetch" /\ Deliver(snapshot)
  /\ UNCHANGED <<published, snapshot, listFile, songsFile, metaFile, state, reading, torn, faults>>

\* Faulty variant: the list in memory is written before the new one.
FaultyStored == snapshot

\* The list that is written: the new one, before it becomes the snapshot.
Stored == load.list

StoreList ==
  /\ load.pc = "write" /\ listFile' = Stored /\ snapshot' = load.list /\ Deliver(load.list)
  /\ UNCHANGED <<published, songsFile, metaFile, state, reading, torn, faults>>

\* The new list could not be stored and is not given out.
StoreListFails ==
  /\ load.pc = "write" /\ faults < MaxFaults /\ faults' = faults + 1
  /\ Deliver(snapshot)
  /\ UNCHANGED <<published, snapshot, listFile, songsFile, metaFile, state, reading, torn>>

-----------------------------------------------------------------------------
\* syncSongMetadata: joins the synchronisation under way or starts one, which reads songs.json.
SyncSongMetadata ==
  sync' = IF sync.pc = "no" THEN [NoSync EXCEPT !.pc = "list", !.old = songsFile] ELSE sync

\* getSongMetadata when the state is in memory and past the check interval.
GetSongMetadata ==
  /\ state # NoState /\ SyncSongMetadata
  /\ UNCHANGED <<published, lists, songsFile, metaFile, state, reading, torn, faults>>

\* loadState: every caller reads the file until the state is there.
ReadState(c) ==
  /\ state = NoState /\ reading[c].pc = "no"
  /\ reading' = [reading EXCEPT ![c] = [pc |-> "read", dataset |-> metaFile]]
  /\ UNCHANGED <<published, lists, songsFile, metaFile, state, sync, torn, faults>>

\* What it read replaces the state, whatever was done meanwhile.  A state without hash is refreshed.
LoadState(c) ==
  LET dataset == reading[c].dataset
  IN  /\ reading[c].pc = "read" /\ reading' = [reading EXCEPT ![c] = NotReading]
      /\ state' = dataset /\ torn' = (torn \/ (dataset.hash # state.hash /\ state # NoState))
      /\ \/ SyncSongMetadata
         \/ dataset.hash # 0 /\ UNCHANGED sync
      /\ UNCHANGED <<published, lists, songsFile, metaFile, faults>>

\* performSync has the list: nothing changed, or songs.json is replaced.
CompareHash ==
  /\ sync.pc = "hash"
  /\ sync' = IF state.hash # 0 /\ Content(state.hash) = Content(sync.list)
             THEN [sync EXCEPT !.pc = "persist", !.written = state] ELSE [sync EXCEPT !.pc = "songs"]
  /\ UNCHANGED <<published, lists, songsFile, metaFile, state, reading, torn, faults>>

\* Faulty variant: a song that is known is not compared.
FaultyChanged(s) ==
  Content(sync.list)[s] > 0 /\ (Content(sync.old)[s] = 0 \/ ~state.meta[s].known \/ state.hash = 0)

\* A song of the new list is new, without levels, or differs from the old list.
Changed(s) ==
  /\ Content(sync.list)[s] > 0
  /\ \/ Content(sync.old)[s] = 0 \/ ~state.meta[s].known \/ state.hash = 0
     \/ Content(sync.old)[s] # Content(sync.list)[s]

Removed(s) == Content(sync.old)[s] > 0 /\ Content(sync.list)[s] = 0

WriteSongs ==
  /\ sync.pc = "songs" /\ songsFile' = sync.list
  /\ sync' = [sync EXCEPT !.pc = "charts", !.changed = {s \in Songs : Changed(s)},
                          !.meta = [s \in Songs |-> IF Removed(s) THEN NoSong ELSE state.meta[s]]]
  /\ UNCHANGED <<published, lists, metaFile, state, reading, torn, faults>>

\* buildSongSummary: a chart that is known gets the new level, one that is not is fetched or fails.
SummaryOf(s, fetched) ==
  Song(IF state.meta[s].level # Failed \/ s \in fetched THEN Content(sync.list)[s] ELSE Failed)

BuildSummaries == \E fetched \in SUBSET sync.changed :
  LET built == [hash |-> sync.list,
                meta |-> [s \in Songs |-> IF s \in sync.changed THEN SummaryOf(s, fetched) ELSE sync.meta[s]]]
  IN  /\ sync.pc = "charts" /\ state' = built
      /\ sync' = [sync EXCEPT !.pc = "persist", !.written = built]
      /\ UNCHANGED <<published, lists, songsFile, metaFile, reading, torn, faults>>

\* A chart that was fetched has not six skill triggers: buildLevelSummary is called outside the try,
\* and performSync rejects with songs.json replaced and the levels of before in memory.
ChartThrows ==
  /\ sync.pc = "charts" /\ (\E s \in sync.changed : state.meta[s].level = Failed)
  /\ sync' = NoSync /\ torn' = (torn \/ state # NoState)
  /\ UNCHANGED <<published, lists, songsFile, metaFile, state, reading, faults>>

\* persistState: the dataset was put together before its first await.
PersistState ==
  /\ sync.pc = "persist" /\ metaFile' = sync.written /\ sync' = NoSync
  /\ UNCHANGED <<published, lists, songsFile, state, reading, torn, faults>>

\* writeJson gives up: performSync rejects.
WriteFails ==
  /\ sync.pc \in {"songs", "persist"} /\ faults < MaxFaults /\ faults' = faults + 1
  /\ sync' = NoSync
  /\ UNCHANGED <<published, lists, songsFile, metaFile, state, reading, torn>>

Restart ==
  /\ faults < MaxFaults /\ faults' = faults + 1
  /\ snapshot' = 0 /\ load' = NoLoad /\ state' = NoState /\ sync' = NoSync
  /\ reading' = [c \in Callers |-> NotReading]
  /\ torn' = (torn \/ IF metaFile.hash = 0 THEN songsFile # 0 ELSE Content(songsFile) # Content(metaFile.hash))
  /\ UNCHANGED <<published, listFile, given, songsFile, metaFile>>

Next ==
  \/ Publish \/ LoadSongs \/ FetchJp \/ FetchJpFails \/ StoreList \/ StoreListFails
  \/ GetSongMetadata \/ CompareHash \/ WriteSongs \/ BuildSummaries \/ ChartThrows \/ PersistState
  \/ WriteFails \/ Restart \/ \E c \in Callers : ReadState(c) \/ LoadState(c)

Spec == Init /\ [][Next]_vars

-----------------------------------------------------------------------------
\* A list of songs is never followed by an older one, over failed writes, restarts and the game's
\* refusals: what was given out has been stored.
ListNeverGoesBack == [][given' >= given]_vars

Follows(levels, list) == \A s \in Songs :
  IF Content(list)[s] = 0 THEN ~levels[s].known
  ELSE levels[s].known /\ levels[s].level \in {Failed, Content(list)[s]}

\* The levels are those of the list whose hash is kept with them: a changed song is not missed and
\* a removed one is dropped.
LevelsFollowSource == state.hash # 0 => Follows(state.meta, state.hash)

\* The same, but for synchronisations that lost their levels between the two files, in a restart or
\* to a chart that throws, or to a caller that was still reading the old ones.
LevelsFollowSourceUnlessTorn == ~torn => LevelsFollowSource
=============================================================================
