--------------------------- MODULE Services_proofs ----------------------------
(***************************************************************************)
(* For every value of the constants, what some of the services promise in  *)
(* any behaviour of all of them: the database that is down is being        *)
(* recovered, the information of events keeps what it knows, the list of   *)
(* songs never goes back, what is given out as fresh is, no player is lost,*)
(* the levels follow their list, the polling keeps one history and the     *)
(* form what was typed.  The calculations are in Calculations_proofs.      *)
(*                                                                         *)
(* Faults and restarts are counted together, so that a step of one service *)
(* is no stuttering step of another: every invariant is shown to survive   *)
(* whatever leaves its own service alone.                                  *)
(***************************************************************************)
EXTENDS Services, TLAPS, WellFoundedInduction

-----------------------------------------------------------------------------
\* The list of songs.  What was given out is in the file before it is given out, so that neither a
\* failed fetch nor a restart falls behind it.
SongsTyped ==
  /\ published \in Nat /\ snapshot \in Nat /\ listFile \in Nat /\ given \in Nat
  /\ load \in [pc : {"no", "fetch", "write"}, list : Nat]

\* The lists are known in the order: given out, in memory, in the file, just fetched, published.
SongsOrdered ==
  /\ given <= listFile /\ snapshot <= listFile /\ listFile <= published
  /\ snapshot # 0 => given <= snapshot
  /\ load.pc = "write" => listFile <= load.list /\ load.list <= published

SongsInv == SongsTyped /\ SongsOrdered

-----------------------------------------------------------------------------
LEMMA SongsInitHolds == ASSUME Song!Init PROVE SongsInv
BY DEF Song!Init, SongsInv, SongsTyped, SongsOrdered, Song!NoLoad

\* A list of songs is delivered that is in the file and not older than the last one.
LEMMA DeliverKeeps ==
  ASSUME SongsTyped, NEW list \in Nat, Song!Deliver(list), list # 0 => given <= list
  PROVE  given' \in Nat /\ given' \in {given, list} /\ given <= given' /\ load' = Song!NoLoad
BY DEF Song!Deliver, SongsTyped

LEMMA LoadSongsHolds == ASSUME SongsInv, Song!LoadSongs PROVE SongsInv' /\ given' >= given
<1> DEFINE found == IF snapshot = 0 THEN listFile ELSE snapshot
<1> USE DEF SongsInv, SongsTyped, SongsOrdered
<1>1. found \in Nat /\ found <= listFile /\ (found # 0 => given <= found) /\ snapshot' = found
  BY DEF Song!LoadSongs
<1>2. UNCHANGED <<published, listFile>>
  BY DEF Song!LoadSongs
<1>3. CASE load' = [load EXCEPT !.pc = "fetch"] /\ UNCHANGED given
  BY <1>1, <1>2, <1>3
<1>4. CASE found # 0 /\ Song!Deliver(found)
  <2>1. given' = found /\ load' = Song!NoLoad
    BY <1>1, <1>4 DEF Song!Deliver
  <2> QED BY <1>1, <1>2, <2>1 DEF Song!NoLoad
<1> QED BY <1>3, <1>4 DEF Song!LoadSongs

LEMMA FetchJpHolds == ASSUME SongsInv, Song!FetchJp PROVE SongsInv' /\ given' >= given
BY DEF Song!FetchJp, SongsInv, SongsTyped, SongsOrdered

LEMMA FetchJpFailsHolds == ASSUME SongsInv, Song!FetchJpFails PROVE SongsInv' /\ given' >= given
BY DeliverKeeps DEF Song!FetchJpFails, SongsInv, SongsTyped, SongsOrdered, Song!NoLoad

LEMMA StoreListHolds == ASSUME SongsInv, Song!StoreList PROVE SongsInv' /\ given' >= given
<1>1. given <= load.list /\ load.list \in Nat
  BY DEF SongsInv, SongsTyped, SongsOrdered, Song!StoreList
<1>2. given' \in {given, load.list} /\ given <= given' /\ load' = Song!NoLoad
  BY <1>1, DeliverKeeps DEF Song!StoreList, SongsInv
<1> QED BY <1>1, <1>2 DEF Song!StoreList, Song!Stored, Song!Deliver, SongsInv, SongsTyped, SongsOrdered,
                          Song!NoLoad

LEMMA StoreListFailsHolds == ASSUME SongsInv, Song!StoreListFails PROVE SongsInv' /\ given' >= given
BY DeliverKeeps DEF Song!StoreListFails, SongsInv, SongsTyped, SongsOrdered, Song!NoLoad

LEMMA SongsRestartHolds == ASSUME SongsInv, Song!Restart PROVE SongsInv' /\ given' >= given
BY DEF Song!Restart, SongsInv, SongsTyped, SongsOrdered, Song!NoLoad

\* The levels are brought up to date beside all this.
LEMMA SongsOthersHold ==
  ASSUME SongsInv, UNCHANGED Song!lists, published' \in Nat, published <= published'
  PROVE  SongsInv' /\ given' >= given
BY DEF Song!lists, SongsInv, SongsTyped, SongsOrdered

LEMMA SongsStepHolds == ASSUME SongsInv, Song!Next PROVE SongsInv' /\ given' >= given
<1>1. CASE Song!Publish
  BY <1>1, SongsOthersHold DEF Song!Publish, SongsInv, SongsTyped
<1>2. CASE \/ Song!GetSongMetadata \/ Song!CompareHash \/ Song!WriteSongs \/ Song!BuildSummaries
           \/ Song!ChartThrows \/ Song!PersistState \/ Song!WriteFails \/ \E c \in Callers : Song!ReadState(c) \/ Song!LoadState(c)
  <2>1. UNCHANGED <<published, Song!lists>>
    BY <1>2 DEF Song!GetSongMetadata, Song!CompareHash, Song!WriteSongs, Song!BuildSummaries,
                Song!ChartThrows, Song!PersistState, Song!WriteFails, Song!ReadState, Song!LoadState,
                Song!lists
  <2> QED BY <2>1, SongsOthersHold DEF SongsInv, SongsTyped
<1> QED BY <1>1, <1>2, LoadSongsHolds, FetchJpHolds, FetchJpFailsHolds, StoreListHolds,
           StoreListFailsHolds, SongsRestartHolds DEF Song!Next

-----------------------------------------------------------------------------
\* The levels of the songs.  Unless a synchronisation was torn, the levels follow the list they
\* were made for, wherever they are kept; and the list of the levels in memory is that of songs.json
\* but while a synchronisation stands between the two.
FollowsAt(s, levels, list) ==
  IF Song!Content(list)[s] = 0 THEN ~levels[s].known
  ELSE levels[s].known /\ levels[s].level \in {0, Song!Content(list)[s]}

Good(d) == d.hash # 0 => \A s \in Songs : FollowsAt(s, d.meta, d.hash)

\* The levels that are kept may be loaded: a version without a hash knows songs of songs.json only.
Loadable ==
  IF metaFile.hash = 0 THEN \A s \in Songs : metaFile.meta[s].known => Song!Content(songsFile)[s] # 0
  ELSE Song!Content(songsFile) = Song!Content(metaFile.hash)

\* The levels in memory are those of songs.json.
Settled == IF state.hash = 0 THEN Loadable ELSE Song!Content(state.hash) = Song!Content(songsFile)

\* What a caller read is what it would read now, as long as there are no levels in memory.
ReadsGood(r, levels, file) ==
  r.pc = "read" => Good(r.dataset) /\ (levels.hash = 0 => r.dataset = file)

FilesHold ==
  ~torn =>
    /\ Good(state) /\ Good(metaFile)
    /\ songsFile = 0 => metaFile = Song!NoState /\ state = Song!NoState
    /\ state.hash = 0 => state \in {Song!NoState, metaFile}
    /\ \A c \in Callers : ReadsGood(reading[c], state, metaFile)

\* A synchronisation, from where it starts to where its levels are kept.
IsSync(y) ==
  /\ y = [pc |-> y.pc, old |-> y.old, list |-> y.list, meta |-> y.meta, changed |-> y.changed,
          written |-> y.written]
  /\ y.pc \in {"no", "list", "hash", "songs", "charts", "persist"}
  /\ y.pc \in {"list", "hash", "songs"} => y.old = songsFile
  /\ y.pc \in {"hash", "songs", "charts"} => y.list \in 1..Len(Catalogue)

SyncHolds(y) ==
  ~torn =>
    /\ y.pc = "persist" => y.written.hash # 0 /\ Good(y.written) /\ state.hash # 0
    /\ y.pc # "charts" => Settled
    /\ y.pc = "charts" =>
         /\ songsFile = y.list
         /\ \A s \in Songs : IF s \in y.changed THEN Song!Content(y.list)[s] # 0 ELSE FollowsAt(s, y.meta, y.list)
    /\ y.pc # "no" /\ state.hash = 0 => state = metaFile

LevelsInv ==
  /\ published \in 1..Len(Catalogue) /\ songsFile \in 0..Len(Catalogue) /\ torn \in BOOLEAN
  /\ reading = [c \in Callers |-> reading[c]]
  /\ FilesHold /\ IsSync(sync) /\ SyncHolds(sync)

LEMMA ContentTyped ==
  ASSUME NEW list \in 0..Len(Catalogue) PROVE Song!Content(list) \in [Songs -> Nat]
BY CatalogueAssumption DEF Song!Content

LEMMA NothingKnown ==
  Song!NoState.hash = 0 /\ \A s \in Songs : ~Song!NoState.meta[s].known
BY DEF Song!NoState, Song!NoSong

LEMMA LevelsFrameHolds == ASSUME LevelsInv, UNCHANGED songs PROVE LevelsInv'
<1>1. UNCHANGED <<published, songsFile, metaFile, state, reading, sync, torn>>
  BY DEF songs
<1>2. FilesHold'
  BY <1>1 DEF LevelsInv, FilesHold, ReadsGood, Good, FollowsAt, Song!Content, Song!NoState
<1>3. (IsSync(sync))' /\ (SyncHolds(sync))'
  BY <1>1 DEF LevelsInv, IsSync, SyncHolds, Settled, Loadable, Good, FollowsAt, Song!Content
<1> QED BY <1>1, <1>2, <1>3 DEF LevelsInv

LEMMA LevelsInitHolds == ASSUME Song!Init PROVE LevelsInv
<1>1. Len(Catalogue) \in Nat /\ 1 \in 1..Len(Catalogue) /\ Song!Content(1) \in [Songs -> Nat]
  <2>1. Len(Catalogue) \in Nat /\ 1 \in 1..Len(Catalogue) /\ 1 \in 0..Len(Catalogue)
    BY CatalogueAssumption
  <2> QED BY <2>1, ContentTyped
<1>2. IsSync(sync) /\ sync.pc = "no"
  BY DEF Song!Init, Song!NoSync, IsSync
<1>3. state = Song!NoState /\ metaFile.hash = 0 /\ torn = FALSE /\ published = 1 /\ songsFile \in {0, 1}
      /\ reading = [c \in Callers |-> Song!NotReading]
  BY NothingKnown DEF Song!Init
<1>4. \A c \in Callers : reading[c].pc # "read"
  BY <1>3 DEF Song!NotReading
<1>5. Loadable /\ (songsFile = 0 => metaFile = Song!NoState)
  <2>1. CASE songsFile = 0 /\ metaFile = Song!NoState
    BY <2>1, NothingKnown DEF Loadable
  <2>2. CASE /\ songsFile = 1
             /\ metaFile = [hash |-> 0, meta |-> [s \in Songs |-> IF Song!Content(1)[s] = 0 THEN Song!NoSong
                                                                  ELSE Song!Song(Song!Content(1)[s])]]
    <3>1. \A s \in Songs : metaFile.meta[s].known => Song!Content(1)[s] # 0
      <4>1. ASSUME NEW s \in Songs, Song!Content(1)[s] = 0 PROVE metaFile.meta[s] = Song!NoSong
        BY <2>2, <4>1
      <4>2. Song!NoSong.known = FALSE
        BY DEF Song!NoSong
      <4> QED BY <4>1, <4>2
    <3> QED BY <1>3, <2>2, <3>1 DEF Loadable
  <2> QED BY <2>1, <2>2 DEF Song!Init
<1>6. FilesHold
  BY <1>3, <1>4, <1>5, NothingKnown DEF FilesHold, Good, ReadsGood
<1>7. SyncHolds(sync)
  BY <1>2, <1>3, <1>5, NothingKnown DEF SyncHolds, Settled
<1>8. reading = [c \in Callers |-> reading[c]]
  BY <1>3
<1>9. torn \in BOOLEAN
  BY <1>3
<1>10. published \in 1..Len(Catalogue) /\ songsFile \in 0..Len(Catalogue)
  BY <1>1, <1>3
<1> QED BY <1>2, <1>6, <1>7, <1>8, <1>9, <1>10 DEF LevelsInv

\* What changes nothing but the place where the synchronisation stands.
LEMMA SyncOnly ==
  ASSUME LevelsInv, UNCHANGED <<songsFile, metaFile, state, reading, torn>>, published' \in 1..Len(Catalogue),
         NEW y, y = sync', IsSync(y), SyncHolds(y)
  PROVE  LevelsInv'
<1>1. FilesHold'
  BY DEF LevelsInv, FilesHold, ReadsGood, Good, FollowsAt, Song!Content, Song!NoState
<1>2. (IsSync(sync))'
  BY DEF IsSync
<1>3. (SyncHolds(sync))'
  BY DEF SyncHolds, Settled, Loadable, Good, FollowsAt, Song!Content
<1> QED BY <1>1, <1>2, <1>3 DEF LevelsInv

\* getSongsList is answered.
LEMMA DeliverHolds ==
  ASSUME LevelsInv, UNCHANGED <<songsFile, metaFile, state, reading, torn, published>>,
         NEW list \in 0..Len(Catalogue), Song!Deliver(list)
  PROVE  LevelsInv'
<1>1. PICK y : y = sync'
  OBVIOUS
<1>2. IsSync(sync) /\ SyncHolds(sync) /\ Len(Catalogue) \in Nat
  BY CatalogueAssumption DEF LevelsInv
<1>3. CASE sync.pc # "list"
  <2>1. y = sync
    BY <1>1, <1>3 DEF Song!Deliver
  <2> QED BY <1>1, <1>2, <2>1, SyncOnly DEF LevelsInv
<1>4. CASE sync.pc = "list" /\ list = 0
  <2>1. y = Song!NoSync
    BY <1>1, <1>4 DEF Song!Deliver
  <2>2. IsSync(y) /\ y.pc = "no"
    BY <2>1 DEF Song!NoSync, IsSync
  <2>3. SyncHolds(y)
    BY <1>2, <1>4, <2>2 DEF SyncHolds
  <2> QED BY <1>1, <2>2, <2>3, SyncOnly DEF LevelsInv
<1>5. CASE sync.pc = "list" /\ list # 0
  <2>1. y = [sync EXCEPT !.pc = "hash", !.list = list]
    BY <1>1, <1>5 DEF Song!Deliver
  <2>2. y = [pc |-> "hash", old |-> sync.old, list |-> list, meta |-> sync.meta, changed |-> sync.changed,
             written |-> sync.written]
    BY <1>2, <2>1 DEF IsSync
  <2>3. IsSync(y)
    BY <1>2, <1>5, <2>2 DEF IsSync
  <2>4. SyncHolds(y)
    BY <1>2, <1>5, <2>2 DEF SyncHolds
  <2> QED BY <1>1, <2>3, <2>4, SyncOnly DEF LevelsInv
<1> QED BY <1>3, <1>4, <1>5

\* The list of the songs, and its file.
LEMMA ListsHold ==
  ASSUME LevelsInv, SongsInv,
         \/ Song!Publish \/ Song!LoadSongs \/ Song!FetchJp \/ Song!FetchJpFails \/ Song!StoreList
         \/ Song!StoreListFails
  PROVE  LevelsInv'
<1>1. Len(Catalogue) \in Nat /\ published \in 1..Len(Catalogue) /\ published \in Nat
  BY CatalogueAssumption DEF LevelsInv
<1>2. /\ snapshot \in 0..Len(Catalogue) /\ listFile \in 0..Len(Catalogue)
      /\ load.pc = "write" => load.list \in 0..Len(Catalogue)
  BY <1>1 DEF SongsInv, SongsTyped, SongsOrdered
<1>3. ASSUME UNCHANGED <<songsFile, metaFile, state, reading, torn, sync>>, published' \in 1..Len(Catalogue)
      PROVE  LevelsInv'
  <2>1. PICK y : y = sync /\ y = sync'
    BY <1>3
  <2>2. IsSync(y) /\ SyncHolds(y)
    BY <2>1 DEF LevelsInv
  <2> QED BY <1>3, <2>1, <2>2, SyncOnly
<1>4. CASE Song!Publish
  <2>1. published' \in 1..Len(Catalogue)
    BY <1>1, <1>4 DEF Song!Publish
  <2> QED BY <1>3, <1>4, <2>1 DEF Song!Publish
<1>5. CASE Song!FetchJp
  BY <1>1, <1>3, <1>5 DEF Song!FetchJp
<1>6. CASE Song!LoadSongs
  <2>1. PICK found \in 0..Len(Catalogue) : UNCHANGED sync \/ Song!Deliver(found)
    BY <1>2, <1>6 DEF Song!LoadSongs
  <2>2. UNCHANGED <<songsFile, metaFile, state, reading, torn, published>>
    BY <1>6 DEF Song!LoadSongs
  <2> QED BY <1>1, <1>3, <2>1, <2>2, DeliverHolds
<1>7. CASE Song!FetchJpFails
  BY <1>2, <1>7, DeliverHolds DEF Song!FetchJpFails
<1>8. CASE Song!StoreList
  BY <1>2, <1>8, DeliverHolds DEF Song!StoreList
<1>9. CASE Song!StoreListFails
  BY <1>2, <1>9, DeliverHolds DEF Song!StoreListFails
<1> QED BY <1>4, <1>5, <1>6, <1>7, <1>8, <1>9

-----------------------------------------------------------------------------
\* A synchronisation starts, or is under way.
LEMMA StartHolds ==
  ASSUME Song!SyncSongMetadata, IsSync(sync), SyncHolds(sync), NEW y, y = sync',
         ~torn /\ sync.pc = "no" /\ state.hash = 0 => state = metaFile
  PROVE  IsSync(y) /\ SyncHolds(y)
<1>1. CASE sync.pc # "no"
  BY <1>1 DEF Song!SyncSongMetadata
<1>2. CASE sync.pc = "no"
  <2>1. y = [Song!NoSync EXCEPT !.pc = "list", !.old = songsFile]
    BY <1>2 DEF Song!SyncSongMetadata
  <2>2. y = [pc |-> "list", old |-> songsFile, list |-> 0, meta |-> Song!NoState.meta, changed |-> {},
             written |-> Song!NoState]
    BY <2>1 DEF Song!NoSync
  <2>3. IsSync(y)
    BY <2>2 DEF IsSync
  <2>4. SyncHolds(y)
    BY <1>2, <2>2 DEF SyncHolds
  <2> QED BY <2>3, <2>4
<1> QED BY <1>1, <1>2

LEMMA GetSongMetadataHolds == ASSUME LevelsInv, Song!GetSongMetadata PROVE LevelsInv'
<1>1. PICK y : y = sync'
  OBVIOUS
<1>2. /\ state # Song!NoState /\ Song!SyncSongMetadata /\ published' = published
      /\ UNCHANGED <<songsFile, metaFile, state, reading, torn>>
  BY DEF Song!GetSongMetadata
<1>3. ~torn /\ sync.pc = "no" /\ state.hash = 0 => state = metaFile
  BY <1>2 DEF LevelsInv, FilesHold
<1>4. IsSync(y) /\ SyncHolds(y)
  BY <1>1, <1>2, <1>3, StartHolds DEF LevelsInv
<1> QED BY <1>1, <1>2, <1>4, SyncOnly DEF LevelsInv

LEMMA ReadStateHolds == ASSUME LevelsInv, NEW c \in Callers, Song!ReadState(c) PROVE LevelsInv'
<1>1. /\ state = Song!NoState /\ reading' = [reading EXCEPT ![c] = [pc |-> "read", dataset |-> metaFile]]
      /\ UNCHANGED <<published, songsFile, metaFile, state, sync, torn>>
  BY DEF Song!ReadState
<1>2. /\ reading' = [r \in Callers |-> reading'[r]]
      /\ \A r \in Callers : reading'[r] = IF r = c THEN [pc |-> "read", dataset |-> metaFile] ELSE reading[r]
  BY <1>1 DEF LevelsInv
<1>3. FilesHold'
  <2>1. ASSUME ~torn, NEW r \in Callers PROVE ReadsGood(reading'[r], state, metaFile)
    <3>1. ReadsGood(reading[r], state, metaFile) /\ Good(metaFile)
      BY <2>1 DEF LevelsInv, FilesHold
    <3> QED BY <1>2, <3>1 DEF ReadsGood
  <2>2. ASSUME ~torn, NEW r \in Callers PROVE (ReadsGood(reading[r], state, metaFile))'
    BY <1>1, <2>1, <2>2 DEF ReadsGood, Good, FollowsAt, Song!Content
  <2>3. ASSUME ~torn
        PROVE  (/\ Good(state) /\ Good(metaFile)
                /\ songsFile = 0 => metaFile = Song!NoState /\ state = Song!NoState
                /\ state.hash = 0 => state \in {Song!NoState, metaFile})'
    BY <1>1, <2>3 DEF LevelsInv, FilesHold, Good, FollowsAt, Song!Content, Song!NoState
  <2> QED BY <1>1, <2>2, <2>3 DEF FilesHold
<1>4. (IsSync(sync))' /\ (SyncHolds(sync))'
  BY <1>1 DEF LevelsInv, IsSync, SyncHolds, Settled, Loadable, Good, FollowsAt, Song!Content
<1> QED BY <1>1, <1>2, <1>3, <1>4 DEF LevelsInv

\* loadState: what was read replaces the state, which was the same, or was not there.
LEMMA LoadStateHolds == ASSUME LevelsInv, NEW c \in Callers, Song!LoadState(c) PROVE LevelsInv'
<1>1. PICK d, y : d = reading[c].dataset /\ y = sync'
  OBVIOUS
<1>2. /\ reading[c].pc = "read" /\ reading' = [reading EXCEPT ![c] = Song!NotReading]
      /\ state' = d /\ torn' = (torn \/ (d.hash # state.hash /\ state # Song!NoState))
      /\ Song!SyncSongMetadata \/ (d.hash # 0 /\ UNCHANGED sync)
      /\ UNCHANGED <<published, songsFile, metaFile>>
  BY <1>1 DEF Song!LoadState
<1>3. /\ torn \in BOOLEAN /\ FilesHold /\ IsSync(sync) /\ SyncHolds(sync) /\ reading = [r \in Callers |-> reading[r]]
      /\ published \in 1..Len(Catalogue) /\ songsFile \in 0..Len(Catalogue)
  BY DEF LevelsInv
<1>4. /\ reading' = [r \in Callers |-> reading'[r]]
      /\ \A r \in Callers : reading'[r] = IF r = c THEN Song!NotReading ELSE reading[r]
  BY <1>2, <1>3
<1>5. Song!NotReading.pc # "read"
  BY DEF Song!NotReading
<1>6. torn' \in BOOLEAN /\ (torn => torn')
  BY <1>2, <1>3
<1>7. ASSUME ~torn'
      PROVE  /\ Good(d)
             /\ d.hash = 0 => d = metaFile
             /\ state.hash = 0 => d = metaFile
             /\ state.hash # 0 => d.hash = state.hash
             /\ songsFile = 0 => d = Song!NoState
             /\ state.hash = 0 /\ sync.pc # "no" => d = state
  <2>1. ~torn /\ (d.hash = state.hash \/ state = Song!NoState)
    BY <1>2, <1>6, <1>7
  <2>2. Good(d) /\ (state.hash = 0 => d = metaFile)
    BY <1>1, <1>2, <1>3, <2>1 DEF FilesHold, ReadsGood
  <2>3. state = Song!NoState => state.hash = 0
    BY NothingKnown
  <2>4. songsFile = 0 => metaFile = Song!NoState /\ state = Song!NoState
    BY <1>3, <2>1 DEF FilesHold
  <2>5. sync.pc # "no" /\ state.hash = 0 => state = metaFile
    BY <1>3, <2>1 DEF SyncHolds
  <2> QED BY <2>1, <2>2, <2>3, <2>4, <2>5
<1>8. FilesHold'
  <2>1. ASSUME ~torn' PROVE Good(d) /\ Good(metaFile) /\ (songsFile = 0 => metaFile = Song!NoState)
    BY <1>3, <1>6, <1>7, <2>1 DEF FilesHold
  <2>2. ASSUME ~torn', NEW r \in Callers, r # c, reading[r].pc = "read"
        PROVE  Good(reading[r].dataset) /\ (d.hash = 0 => reading[r].dataset = metaFile)
    <3>1. Good(reading[r].dataset) /\ (state.hash = 0 => reading[r].dataset = metaFile)
      BY <1>3, <1>6, <2>2 DEF FilesHold, ReadsGood
    <3>2. d.hash = 0 => state.hash = 0
      BY <1>7, <2>2, NothingKnown
    <3> QED BY <3>1, <3>2
  <2>3. ASSUME ~torn', NEW r \in Callers PROVE ReadsGood(reading'[r], d, metaFile)
    BY <1>4, <1>5, <2>2, <2>3 DEF ReadsGood
  <2>4. ASSUME ~torn', NEW r \in Callers PROVE (ReadsGood(reading[r], state, metaFile))'
    BY <1>2, <2>3, <2>4 DEF ReadsGood, Good, FollowsAt, Song!Content
  <2>5. ASSUME ~torn'
        PROVE  (/\ Good(state) /\ Good(metaFile)
                /\ songsFile = 0 => metaFile = Song!NoState /\ state = Song!NoState
                /\ state.hash = 0 => state \in {Song!NoState, metaFile})'
    BY <1>2, <1>7, <2>1, <2>5 DEF Good, FollowsAt, Song!Content, Song!NoState
  <2> QED BY <2>4, <2>5 DEF FilesHold
<1>9. ASSUME ~torn' PROVE sync.pc # "charts" => (Settled)'
  <2>1. SUFFICES ASSUME sync.pc # "charts" PROVE (Settled)'
    OBVIOUS
  <2>2. Settled
    BY <1>3, <1>6, <1>9, <2>1 DEF SyncHolds
  <2>3. IF d.hash = 0 THEN Loadable ELSE Song!Content(d.hash) = Song!Content(songsFile)
    <3>1. CASE state.hash # 0
      BY <1>7, <1>9, <2>2, <3>1, NothingKnown DEF Settled
    <3>2. CASE state.hash = 0
      BY <1>7, <1>9, <2>2, <3>2 DEF Settled, Loadable
    <3> QED BY <3>1, <3>2
  <2> QED BY <1>2, <2>3 DEF Settled, Loadable, Song!Content
<1>10. (IsSync(sync))' /\ (SyncHolds(sync))'
  <2>1. CASE sync.pc # "no"
    <3>1. y = sync
      BY <1>1, <1>2, <2>1 DEF Song!SyncSongMetadata
    <3>2. ASSUME ~torn' PROVE (sync.pc = "persist" => d.hash # 0) /\ (d.hash = 0 => d = metaFile)
      BY <1>3, <1>6, <1>7, <2>1, <3>2 DEF SyncHolds
    <3>3. IsSync(sync)' 
      BY <1>1, <1>2, <1>3, <3>1 DEF IsSync
    <3>4. (SyncHolds(sync))'
      <4>1. ASSUME ~torn' PROVE sync.pc = "persist" => sync.written.hash # 0 /\ Good(sync.written)
        BY <1>3, <1>6, <4>1 DEF SyncHolds
      <4>2. ASSUME ~torn', sync.pc = "charts"
            PROVE  /\ songsFile = sync.list
                   /\ \A s \in Songs : IF s \in sync.changed THEN Song!Content(sync.list)[s] # 0
                                      ELSE FollowsAt(s, sync.meta, sync.list)
        BY <1>3, <1>6, <4>2 DEF SyncHolds
      <4>3. ASSUME ~torn', sync.pc = "charts"
            PROVE  (/\ songsFile = sync.list
                    /\ \A s \in Songs : IF s \in sync.changed THEN Song!Content(sync.list)[s] # 0
                                       ELSE FollowsAt(s, sync.meta, sync.list))'
        BY <1>1, <1>2, <3>1, <4>2, <4>3 DEF FollowsAt, Song!Content
      <4>4. ASSUME ~torn' PROVE (sync.pc = "persist" => sync.written.hash # 0 /\ Good(sync.written) /\ state.hash # 0)'
        BY <1>1, <1>2, <3>1, <3>2, <4>1, <4>4 DEF Good, FollowsAt, Song!Content
      <4>5. sync' = sync /\ state' = d /\ metaFile' = metaFile
        BY <1>1, <1>2, <3>1
      <4>6. ASSUME ~torn' PROVE sync'.pc # "no" /\ state'.hash = 0 => state' = metaFile'
        BY <3>2, <4>5, <4>6
      <4> QED BY <1>9, <4>3, <4>4, <4>5, <4>6 DEF SyncHolds
    <3> QED BY <3>3, <3>4
  <2>2. CASE sync.pc = "no"
    <3>1. ASSUME ~torn' PROVE d.hash = 0 => d = metaFile
      BY <1>7, <3>1
    <3>2. CASE y = sync
      <4>1. (IsSync(sync))'
        BY <1>1, <1>2, <1>3, <3>2 DEF IsSync
      <4>2. (SyncHolds(sync))'
        BY <1>1, <1>2, <1>9, <2>2, <3>2 DEF SyncHolds
      <4> QED BY <4>1, <4>2
    <3>3. CASE y # sync
      <4>1. y = [Song!NoSync EXCEPT !.pc = "list", !.old = songsFile]
        BY <1>1, <1>2, <2>2, <3>3 DEF Song!SyncSongMetadata
      <4>2. y = [pc |-> "list", old |-> songsFile, list |-> 0, meta |-> Song!NoState.meta, changed |-> {},
                 written |-> Song!NoState]
        BY <4>1 DEF Song!NoSync
      <4>3. (IsSync(sync))'
        BY <1>1, <1>2, <4>2 DEF IsSync
      <4>4. (SyncHolds(sync))'
        BY <1>1, <1>2, <1>9, <2>2, <3>1, <4>2 DEF SyncHolds
      <4> QED BY <4>3, <4>4
    <3> QED BY <3>2, <3>3
  <2> QED BY <2>1, <2>2
<1> QED BY <1>2, <1>3, <1>4, <1>6, <1>8, <1>10 DEF LevelsInv

\* The hash is compared.
LEMMA CompareHashHolds == ASSUME LevelsInv, Song!CompareHash PROVE LevelsInv'
<1>1. PICK y : y = sync'
  OBVIOUS
<1>2. /\ sync.pc = "hash" /\ published' = published /\ UNCHANGED <<songsFile, metaFile, state, reading, torn>>
      /\ y = IF state.hash # 0 /\ Song!Content(state.hash) = Song!Content(sync.list)
             THEN [sync EXCEPT !.pc = "persist", !.written = state] ELSE [sync EXCEPT !.pc = "songs"]
  BY <1>1 DEF Song!CompareHash
<1>3. IsSync(sync) /\ SyncHolds(sync) /\ FilesHold
  BY DEF LevelsInv
<1>4. CASE state.hash # 0 /\ Song!Content(state.hash) = Song!Content(sync.list)
  <2>1. y = [pc |-> "persist", old |-> sync.old, list |-> sync.list, meta |-> sync.meta, changed |-> sync.changed,
             written |-> state]
    BY <1>2, <1>3, <1>4 DEF IsSync
  <2>2. IsSync(y)
    BY <1>3, <2>1 DEF IsSync
  <2>3. SyncHolds(y)
    BY <1>2, <1>3, <1>4, <2>1 DEF SyncHolds, FilesHold
  <2> QED BY <1>1, <1>2, <2>2, <2>3, SyncOnly DEF LevelsInv
<1>5. CASE y = [sync EXCEPT !.pc = "songs"]
  <2>1. y = [pc |-> "songs", old |-> sync.old, list |-> sync.list, meta |-> sync.meta, changed |-> sync.changed,
             written |-> sync.written]
    BY <1>3, <1>5 DEF IsSync
  <2>2. IsSync(y)
    BY <1>2, <1>3, <2>1 DEF IsSync
  <2>3. SyncHolds(y)
    <3>1. y.pc = "songs"
      BY <2>1
    <3>2. sync.pc = "hash"
      BY DEF Song!CompareHash
    <3> QED BY <1>3, <3>1, <3>2 DEF SyncHolds
  <2> QED BY <1>1, <1>2, <2>2, <2>3, SyncOnly DEF LevelsInv
<1> QED BY <1>2, <1>4, <1>5

\* songs.json is replaced: a song that is not to be summarised has kept its level.
LEMMA WriteSongsHolds == ASSUME LevelsInv, Song!WriteSongs PROVE LevelsInv'
<1>1. PICK y : y = sync'
  OBVIOUS
<1>2. /\ IsSync(sync) /\ SyncHolds(sync) /\ FilesHold /\ torn \in BOOLEAN
      /\ published \in 1..Len(Catalogue) /\ songsFile \in 0..Len(Catalogue) /\ Len(Catalogue) \in Nat
      /\ reading = [c \in Callers |-> reading[c]]
  BY CatalogueAssumption DEF LevelsInv
<1>3. /\ sync.pc = "songs" /\ songsFile' = sync.list /\ UNCHANGED <<published, metaFile, state, reading, torn>>
      /\ y = [sync EXCEPT !.pc = "charts", !.changed = {s \in Songs : Song!Changed(s)},
                          !.meta = [s \in Songs |-> IF Song!Removed(s) THEN Song!NoSong ELSE state.meta[s]]]
  BY <1>1 DEF Song!WriteSongs
<1>4. PICK changed, meta : /\ changed = {s \in Songs : Song!Changed(s)}
                           /\ meta = [s \in Songs |-> IF Song!Removed(s) THEN Song!NoSong ELSE state.meta[s]]
  OBVIOUS
<1>5. y = [pc |-> "charts", old |-> sync.old, list |-> sync.list, meta |-> meta, changed |-> changed,
           written |-> sync.written]
  BY <1>2, <1>3, <1>4 DEF IsSync
<1>6. /\ sync.list \in 1..Len(Catalogue) /\ sync.list \in 0..Len(Catalogue) /\ sync.list # 0 /\ sync.old = songsFile
      /\ Song!Content(sync.list) \in [Songs -> Nat] /\ Song!Content(songsFile) \in [Songs -> Nat]
  <2>1. sync.list \in 1..Len(Catalogue) /\ sync.old = songsFile
    BY <1>2, <1>3 DEF IsSync
  <2>2. sync.list \in 0..Len(Catalogue) /\ sync.list # 0
    BY <1>2, <2>1
  <2> QED BY <1>2, <2>1, <2>2, ContentTyped
<1>7. ASSUME ~torn, NEW s \in Songs
      PROVE  IF s \in changed THEN Song!Content(sync.list)[s] # 0 ELSE FollowsAt(s, meta, sync.list)
  <2>1. PICK old, new : old = Song!Content(songsFile)[s] /\ new = Song!Content(sync.list)[s]
    OBVIOUS
  <2>2. old \in Nat /\ new \in Nat
    BY <1>6, <2>1
  <2>3. Settled /\ Good(state) /\ (state.hash = 0 => state \in {Song!NoState, metaFile})
    BY <1>2, <1>3, <1>7 DEF SyncHolds, FilesHold
  <2>4. s \in changed <=> /\ new > 0
                          /\ old = 0 \/ ~state.meta[s].known \/ state.hash = 0 \/ old # new
    BY <1>4, <1>6, <2>1 DEF Song!Changed
  <2>5. meta[s] = IF old > 0 /\ new = 0 THEN Song!NoSong ELSE state.meta[s]
    BY <1>4, <1>6, <2>1 DEF Song!Removed
  <2>6. CASE s \in changed
    BY <2>1, <2>2, <2>4, <2>6
  <2>7. CASE new = 0 /\ old > 0
    <3>1. ~meta[s].known
      BY <2>5, <2>7 DEF Song!NoSong
    <3> QED BY <2>1, <2>2, <2>4, <2>7, <3>1 DEF FollowsAt
  <2>8. CASE new = 0 /\ old = 0
    <3>1. ~state.meta[s].known
      <4>1. CASE state.hash = 0
        <5>1. CASE state = Song!NoState
          BY <5>1, NothingKnown
        <5>2. CASE state = metaFile
          <6>1. \A z \in Songs : metaFile.meta[z].known => Song!Content(songsFile)[z] # 0
            BY <2>3, <4>1, <5>2 DEF Settled, Loadable
          <6> QED BY <2>1, <2>8, <5>2, <6>1
        <5> QED BY <2>3, <4>1, <5>1, <5>2
      <4>2. CASE state.hash # 0
        <5>1. Song!Content(state.hash) = Song!Content(songsFile) /\ FollowsAt(s, state.meta, state.hash)
          BY <2>3, <4>2 DEF Settled, Good
        <5> QED BY <2>1, <2>8, <5>1 DEF FollowsAt
      <4> QED BY <4>1, <4>2
    <3> QED BY <2>1, <2>4, <2>5, <2>8, <3>1 DEF FollowsAt
  <2>9. CASE new > 0 /\ s \notin changed
    <3>1. state.hash # 0 /\ old = new /\ state.meta[s].known
      BY <2>4, <2>9
    <3>2. Song!Content(state.hash) = Song!Content(songsFile) /\ FollowsAt(s, state.meta, state.hash)
      BY <2>3, <3>1 DEF Settled, Good
    <3>3. meta[s] = state.meta[s]
      BY <2>5, <2>9
    <3> QED BY <2>1, <2>2, <2>9, <3>1, <3>2, <3>3 DEF FollowsAt
  <2> QED BY <2>2, <2>6, <2>7, <2>8, <2>9
<1>8. FilesHold'
  BY <1>2, <1>3, <1>6 DEF FilesHold, ReadsGood, Good, FollowsAt, Song!Content, Song!NoState
<1>9. (IsSync(sync))'
  BY <1>1, <1>5, <1>6 DEF IsSync
<1>10. ASSUME ~torn, sync.pc # "no", state.hash = 0 PROVE state = metaFile
  BY <1>2, <1>10 DEF SyncHolds
<1>11. (SyncHolds(sync))'
  <2>1. y.pc = "charts" /\ y.list = sync.list /\ y.changed = changed /\ y.meta = meta
    BY <1>5
  <2>2. ASSUME ~torn
        PROVE  \A s \in Songs : IF s \in y.changed THEN Song!Content(y.list)[s] # 0 ELSE FollowsAt(s, y.meta, y.list)
    BY <1>7, <2>1, <2>2
  <2>3. ~torn /\ state.hash = 0 => state = metaFile
    BY <1>3, <1>10
  <2> QED BY <1>1, <1>3, <2>1, <2>2, <2>3 DEF SyncHolds, FollowsAt, Song!Content
<1> QED BY <1>2, <1>3, <1>6, <1>8, <1>9, <1>11 DEF LevelsInv

\* The levels are those of the new list.
LEMMA BuildSummariesHolds == ASSUME LevelsInv, Song!BuildSummaries PROVE LevelsInv'
<1>1. PICK y, d : y = sync' /\ d = state'
  OBVIOUS
<1>2. /\ IsSync(sync) /\ SyncHolds(sync) /\ FilesHold /\ torn \in BOOLEAN
      /\ published \in 1..Len(Catalogue) /\ songsFile \in 0..Len(Catalogue) /\ Len(Catalogue) \in Nat
      /\ reading = [c \in Callers |-> reading[c]]
  BY CatalogueAssumption DEF LevelsInv
<1>3. PICK fetched \in SUBSET sync.changed :
        /\ d = [hash |-> sync.list,
                meta |-> [s \in Songs |-> IF s \in sync.changed THEN Song!SummaryOf(s, fetched) ELSE sync.meta[s]]]
        /\ sync.pc = "charts" /\ y = [sync EXCEPT !.pc = "persist", !.written = d]
        /\ UNCHANGED <<published, songsFile, metaFile, reading, torn>>
  BY <1>1 DEF Song!BuildSummaries
<1>4. y = [pc |-> "persist", old |-> sync.old, list |-> sync.list, meta |-> sync.meta, changed |-> sync.changed,
           written |-> d]
  BY <1>2, <1>3 DEF IsSync
<1>5. d.hash = sync.list /\ sync.list # 0
  <2>1. sync.list \in 1..Len(Catalogue)
    BY <1>2, <1>3 DEF IsSync
  <2> QED BY <1>2, <1>3, <2>1
<1>6. ASSUME ~torn, NEW s \in Songs PROVE FollowsAt(s, d.meta, d.hash)
  <2>1. IF s \in sync.changed THEN Song!Content(sync.list)[s] # 0 ELSE FollowsAt(s, sync.meta, sync.list)
    BY <1>2, <1>3, <1>6 DEF SyncHolds
  <2>2. CASE s \in sync.changed
    <3>1. d.meta[s] = Song!SummaryOf(s, fetched)
      BY <1>3, <2>2
    <3>2. PICK level : /\ level \in {0, Song!Content(sync.list)[s]}
                       /\ d.meta[s] = [known |-> TRUE, level |-> level]
      BY <3>1 DEF Song!SummaryOf, Song!Song, Song!Failed
    <3> QED BY <1>5, <2>1, <2>2, <3>2 DEF FollowsAt
  <2>3. CASE s \notin sync.changed
    <3>1. d.meta[s] = sync.meta[s]
      BY <1>3, <2>3
    <3> QED BY <1>5, <2>1, <2>3, <3>1 DEF FollowsAt
  <2> QED BY <2>2, <2>3
<1>7. ~torn => Good(d)
  BY <1>6 DEF Good
<1>8. ASSUME ~torn PROVE songsFile = sync.list /\ songsFile # 0
  BY <1>2, <1>3, <1>5, <1>8 DEF SyncHolds
<1>9. FilesHold'
  <2>1. ASSUME ~torn, NEW c \in Callers PROVE ReadsGood(reading[c], d, metaFile)
    BY <1>2, <1>5, <2>1 DEF FilesHold, ReadsGood
  <2>2. ASSUME ~torn, NEW c \in Callers PROVE (ReadsGood(reading[c], state, metaFile))'
    BY <1>1, <1>3, <2>1, <2>2 DEF ReadsGood, Good, FollowsAt, Song!Content
  <2>3. ASSUME ~torn
        PROVE  (/\ Good(state) /\ Good(metaFile)
                /\ songsFile = 0 => metaFile = Song!NoState /\ state = Song!NoState
                /\ state.hash = 0 => state \in {Song!NoState, metaFile})'
    <3>1. Good(d) /\ Good(metaFile) /\ songsFile # 0 /\ d.hash # 0
      BY <1>2, <1>5, <1>7, <1>8, <2>3 DEF FilesHold
    <3>2. state' = d /\ metaFile' = metaFile /\ songsFile' = songsFile
      BY <1>1, <1>2, <1>3
    <3>3. Good(state)' /\ Good(metaFile)'
      BY <3>1, <3>2 DEF Good, FollowsAt, Song!Content
    <3> QED BY <3>1, <3>2, <3>3
  <2> QED BY <1>3, <2>2, <2>3 DEF FilesHold
<1>10. (IsSync(sync))'
  BY <1>1, <1>4 DEF IsSync
<1>11. (SyncHolds(sync))'
  <2>1. y.pc = "persist" /\ y.written = d
    BY <1>4
  <2> QED BY <1>1, <1>3, <1>5, <1>7, <1>8, <2>1 DEF SyncHolds, Settled, Good, FollowsAt, Song!Content
<1> QED BY <1>2, <1>3, <1>9, <1>10, <1>11 DEF LevelsInv

\* The levels are kept.
LEMMA PersistStateHolds == ASSUME LevelsInv, Song!PersistState PROVE LevelsInv'
<1>1. PICK y : y = sync'
  OBVIOUS
<1>2. /\ IsSync(sync) /\ SyncHolds(sync) /\ FilesHold /\ torn \in BOOLEAN
      /\ published \in 1..Len(Catalogue) /\ songsFile \in 0..Len(Catalogue)
      /\ reading = [c \in Callers |-> reading[c]]
  BY DEF LevelsInv
<1>3. /\ sync.pc = "persist" /\ metaFile' = sync.written /\ y = Song!NoSync
      /\ UNCHANGED <<published, songsFile, state, reading, torn>>
  BY <1>1 DEF Song!PersistState
<1>4. ASSUME ~torn PROVE state.hash # 0 /\ Good(sync.written) /\ songsFile # 0 /\ Good(state) /\ Settled
  BY <1>2, <1>3, <1>4, NothingKnown DEF SyncHolds, FilesHold
<1>5. FilesHold'
  <2>1. ASSUME ~torn, NEW c \in Callers PROVE (ReadsGood(reading[c], state, metaFile))'
    BY <1>2, <1>3, <1>4, <2>1 DEF FilesHold, ReadsGood, Good, FollowsAt, Song!Content
  <2>2. ASSUME ~torn
        PROVE  (/\ Good(state) /\ Good(metaFile)
                /\ songsFile = 0 => metaFile = Song!NoState /\ state = Song!NoState
                /\ state.hash = 0 => state \in {Song!NoState, metaFile})'
    BY <1>3, <1>4, <2>2 DEF Good, FollowsAt, Song!Content
  <2> QED BY <1>3, <2>1, <2>2 DEF FilesHold
<1>6. (IsSync(sync))'
  BY <1>1, <1>3 DEF IsSync, Song!NoSync
<1>7. (SyncHolds(sync))'
  <2>1. y.pc = "no"
    BY <1>3 DEF Song!NoSync
  <2> QED BY <1>1, <1>3, <1>4, <2>1 DEF SyncHolds, Settled, Song!Content
<1> QED BY <1>2, <1>3, <1>5, <1>6, <1>7 DEF LevelsInv

LEMMA WriteFailsHolds == ASSUME LevelsInv, Song!WriteFails PROVE LevelsInv'
<1>1. PICK y : y = sync'
  OBVIOUS
<1>2. /\ y = Song!NoSync /\ UNCHANGED <<published, songsFile, metaFile, state, reading, torn>>
      /\ sync.pc # "charts"
  BY <1>1 DEF Song!WriteFails
<1>3. IsSync(y) /\ y.pc = "no"
  BY <1>2 DEF IsSync, Song!NoSync
<1>4. SyncHolds(y)
  BY <1>2, <1>3 DEF LevelsInv, SyncHolds
<1> QED BY <1>1, <1>2, <1>3, <1>4, SyncOnly DEF LevelsInv

\* A chart that throws before there were levels loses none.
LEMMA ChartThrowsHolds == ASSUME LevelsInv, Song!ChartThrows PROVE LevelsInv'
<1>1. PICK y : y = sync'
  OBVIOUS
<1>2. /\ IsSync(sync) /\ SyncHolds(sync) /\ FilesHold /\ torn \in BOOLEAN
      /\ published \in 1..Len(Catalogue) /\ songsFile \in 0..Len(Catalogue)
      /\ reading = [c \in Callers |-> reading[c]]
  BY DEF LevelsInv
<1>3. /\ sync.pc = "charts" /\ y = Song!NoSync /\ torn' = (torn \/ state # Song!NoState)
      /\ UNCHANGED <<published, songsFile, metaFile, state, reading>>
  BY <1>1 DEF Song!ChartThrows
<1>4. ASSUME ~torn' PROVE ~torn /\ state = Song!NoState /\ metaFile = Song!NoState
  BY <1>2, <1>3, <1>4, NothingKnown DEF SyncHolds
<1>5. FilesHold'
  BY <1>2, <1>3, <1>4 DEF FilesHold, ReadsGood, Good, FollowsAt, Song!Content
<1>6. (IsSync(sync))'
  BY <1>1, <1>3 DEF IsSync, Song!NoSync
<1>7. (SyncHolds(sync))'
  <2>1. y.pc = "no"
    BY <1>3 DEF Song!NoSync
  <2>2. ASSUME ~torn' PROVE (Settled)'
    BY <1>3, <1>4, <2>2, NothingKnown DEF Settled, Loadable
  <2> QED BY <1>1, <2>1, <2>2 DEF SyncHolds
<1> QED BY <1>2, <1>3, <1>5, <1>6, <1>7 DEF LevelsInv

\* A restart finds levels of another list: torn.
LEMMA LevelsRestartHolds == ASSUME LevelsInv, Song!Restart PROVE LevelsInv'
<1>1. PICK y : y = sync'
  OBVIOUS
<1>2. /\ FilesHold /\ torn \in BOOLEAN
      /\ published \in 1..Len(Catalogue) /\ songsFile \in 0..Len(Catalogue)
  BY DEF LevelsInv
<1>3. /\ state' = Song!NoState /\ y = Song!NoSync /\ reading' = [c \in Callers |-> Song!NotReading]
      /\ torn' = (torn \/ IF metaFile.hash = 0 THEN songsFile # 0
                          ELSE Song!Content(songsFile) # Song!Content(metaFile.hash))
      /\ UNCHANGED <<published, songsFile, metaFile>>
  BY <1>1 DEF Song!Restart
<1>4. ASSUME ~torn' PROVE ~torn /\ Loadable /\ Good(metaFile) /\ (songsFile = 0 => metaFile = Song!NoState)
  <2>1. ~torn /\ IF metaFile.hash = 0 THEN songsFile = 0 ELSE Song!Content(songsFile) = Song!Content(metaFile.hash)
    BY <1>2, <1>3, <1>4
  <2>2. Good(metaFile) /\ (songsFile = 0 => metaFile = Song!NoState)
    BY <1>2, <2>1 DEF FilesHold
  <2>3. Loadable
    BY <2>1, <2>2, NothingKnown DEF Loadable
  <2> QED BY <2>1, <2>2, <2>3
<1>5. \A c \in Callers : reading'[c].pc # "read"
  BY <1>3 DEF Song!NotReading
<1>6. FilesHold'
  <2>1. Good(Song!NoState) /\ Song!NoState.hash = 0
    BY NothingKnown DEF Good
  <2>2. ASSUME ~torn', NEW c \in Callers PROVE (ReadsGood(reading[c], state, metaFile))'
    BY <1>5 DEF ReadsGood
  <2>3. ASSUME ~torn'
        PROVE  (/\ Good(state) /\ Good(metaFile)
                /\ songsFile = 0 => metaFile = Song!NoState /\ state = Song!NoState
                /\ state.hash = 0 => state \in {Song!NoState, metaFile})'
    BY <1>3, <1>4, <2>1, <2>3 DEF Good, FollowsAt, Song!Content, Song!NoState
  <2> QED BY <2>2, <2>3 DEF FilesHold
<1>7. (IsSync(sync))'
  BY <1>1, <1>3 DEF IsSync, Song!NoSync
<1>8. (SyncHolds(sync))'
  <2>1. y.pc = "no" /\ Song!NoState.hash = 0
    BY <1>3, NothingKnown DEF Song!NoSync
  <2> QED BY <1>1, <1>3, <1>4, <2>1 DEF SyncHolds, Settled, Loadable, Song!Content
<1>9. reading' = [c \in Callers |-> reading'[c]] /\ torn' \in BOOLEAN
  BY <1>2, <1>3
<1> QED BY <1>2, <1>3, <1>6, <1>7, <1>8, <1>9 DEF LevelsInv

LEMMA LevelsHold == ASSUME LevelsInv, SongsInv, Song!Next PROVE LevelsInv'
BY ListsHold, GetSongMetadataHolds, ReadStateHolds, LoadStateHolds, CompareHashHolds, WriteSongsHolds,
   BuildSummariesHolds, ChartThrowsHolds, PersistStateHolds, WriteFailsHolds, LevelsRestartHolds DEF Song!Next

LEMMA LevelsTell == ASSUME LevelsInv PROVE LevelsFollowSourceUnlessTorn
BY DEF LevelsInv, FilesHold, Good, FollowsAt, LevelsFollowSourceUnlessTorn, Song!LevelsFollowSourceUnlessTorn,
       Song!LevelsFollowSource, Song!Follows, Song!Failed

-----------------------------------------------------------------------------
\* The database.
LEMMA MongoStepHolds == ASSUME DownIsRecovering, Mongo!Next PROVE DownIsRecovering'
<1> USE DEF DownIsRecovering, Mongo!DownIsRecovering, Mongo!StartRecovery
<1>1. CASE Mongo!HeartbeatSucceeded \/ Mongo!HeartbeatFailed \/ Mongo!InitClient
  BY <1>1 DEF Mongo!HeartbeatSucceeded, Mongo!HeartbeatFailed, Mongo!InitClient
<1>2. CASE Mongo!Recovery
  BY <1>2 DEF Mongo!Recovery, Mongo!Probe, Mongo!Connect, Mongo!Ping, Mongo!Retry, Mongo!Recovered
<1>3. CASE Mongo!Outage \/ Mongo!Return
  BY <1>3 DEF Mongo!Outage, Mongo!Return
<1>4. CASE \E w \in Waiters : Mongo!Ready(w) \/ Mongo!Resume(w)
  BY <1>4 DEF Mongo!Ready, Mongo!Resume
<1> QED BY <1>1, <1>2, <1>3, <1>4 DEF Mongo!Next

-----------------------------------------------------------------------------
\* The information of events.  Before it is loaded nothing is refreshed, so that what is read is
\* what is stored; afterwards a merge brings what the server says now, no less than ever before.
InfoTyped ==
  /\ announced \in [Servers -> Nat] /\ stored \in [Servers -> Nat] /\ cache \in [Servers -> Nat]
  /\ done \in [Servers -> Nat] /\ loaded \in BOOLEAN /\ overlapped \in BOOLEAN
  /\ find \in [Info!Loaders -> [pc : {"none", "asked", "answer"}, answer : [Servers -> Nat]]]
  /\ server \in [Servers -> [pc : {"idle", "fetch", "write"}, document : [Servers -> Nat], value : Nat]]

InfoInv ==
  /\ InfoTyped
  /\ \A s \in Servers : done[s] <= announced[s] /\ server[s].value <= announced[s]
  /\ ~loaded => /\ \A s \in Servers : server[s].pc = "idle" /\ done[s] <= stored[s]
                /\ cache = Info!Nothing
                /\ \A c \in Info!Loaders : find[c].pc = "answer" => find[c].answer = stored
  /\ loaded /\ ~overlapped =>
       \A s \in Servers : done[s] <= cache[s] /\ (server[s].pc = "write" => server[s].value <= cache[s])

LEMMA InfoInitHolds == ASSUME Info!Init PROVE InfoInv
<1> USE DEF Info!Init, Info!NoQuery, Info!Resting
<1>1. Info!Nothing \in [Servers -> Nat] /\ \A s \in Servers : Info!Nothing[s] = 0
  BY DEF Info!Nothing
<1>2. InfoTyped
  BY <1>1 DEF InfoTyped
<1> QED BY <1>1, <1>2 DEF InfoInv

\* The parts of the invariant that hold whether or not the cache is loaded.
LEMMA InfoParts ==
  ASSUME InfoTyped',
         \A s \in Servers : done'[s] <= announced'[s] /\ server'[s].value <= announced'[s],
         ~loaded' => /\ \A s \in Servers : server'[s].pc = "idle" /\ done'[s] <= stored'[s]
                     /\ cache' = Info!Nothing
                     /\ \A c \in Info!Loaders : find'[c].pc = "answer" => find'[c].answer = stored',
         loaded' /\ ~overlapped' =>
           \A s \in Servers : done'[s] <= cache'[s] /\ (server'[s].pc = "write" => server'[s].value <= cache'[s])
  PROVE  InfoInv'
BY DEF InfoInv, Info!Nothing

LEMMA InfoStepHolds == ASSUME InfoInv, Info!Next PROVE InfoInv'
<1> USE DEF InfoInv, InfoTyped
<1>1. CASE Info!RefreshAll
  <2> USE DEF Info!RefreshAll, Info!bounds
  <2>1. Info!Resting \in [pc : {"idle", "fetch", "write"}, document : [Servers -> Nat], value : Nat]
    BY DEF Info!Resting, Info!Nothing
  <2>2. server' \in [Servers -> [pc : {"idle", "fetch", "write"}, document : [Servers -> Nat], value : Nat]]
    BY <1>1, <2>1
  <2>3. \A s \in Servers : server'[s].pc # "write" /\ server'[s].value = 0
    BY <1>1 DEF Info!Resting
  <2>4. loaded /\ UNCHANGED <<announced, stored, cache, loaded, find, done, overlapped>>
    BY <1>1
  <2>5. InfoTyped'
    BY <2>2, <2>4
  <2> HIDE DEF InfoInv, InfoTyped, Info!RefreshAll, Info!bounds
  <2>6. \A s \in Servers : done[s] <= announced[s] /\ announced[s] \in Nat /\ (~overlapped => done[s] <= cache[s])
    BY <2>4 DEF InfoInv, InfoTyped
  <2> QED BY <2>3, <2>4, <2>5, <2>6, InfoParts
<1>2. CASE Info!Restart
  <2> USE DEF Info!Restart, Info!Started, Info!Resting, Info!NoQuery
  <2>1. Info!Nothing \in [Servers -> Nat]
    BY DEF Info!Nothing
  <2>2. done' \in [Servers -> Nat] /\ \A s \in Servers : done'[s] <= done[s] /\ done'[s] <= stored[s]
    BY <1>2
  <2>3. find' \in [Info!Loaders -> [pc : {"none", "asked", "answer"}, answer : [Servers -> Nat]]]
    BY <1>2, <2>1
  <2>4. server' \in [Servers -> [pc : {"idle", "fetch", "write"}, document : [Servers -> Nat], value : Nat]]
    BY <1>2, <2>1
  <2>5. InfoTyped'
    BY <1>2, <2>1, <2>2, <2>3, <2>4
  <2>6. \A s \in Servers : server'[s].pc = "idle" /\ server'[s].value = 0
    BY <1>2
  <2>7. \A c \in Info!Loaders : find'[c].pc = "none"
    BY <1>2
  <2>8. cache' = Info!Nothing /\ ~loaded' /\ UNCHANGED <<announced, stored>>
    BY <1>2
  <2>9. \A s \in Servers : done'[s] \in Nat /\ done[s] \in Nat /\ announced[s] \in Nat /\ done[s] <= announced[s]
    BY <2>2
  <2> HIDE DEF InfoInv, InfoTyped, Info!Restart, Info!Started
  <2> QED BY <2>2, <2>5, <2>6, <2>7, <2>8, <2>9, InfoParts
<1>3. ASSUME NEW c \in Info!Loaders, Info!Ask(c) PROVE InfoInv'
  <2>1. ~loaded /\ UNCHANGED <<announced, stored, cache, loaded, server, done, overlapped>>
    BY <1>3 DEF Info!Ask
  <2>2. /\ find' \in [Info!Loaders -> [pc : {"none", "asked", "answer"}, answer : [Servers -> Nat]]]
        /\ \A d \in Info!Loaders : find'[d].pc = "answer" => find'[d] = find[d]
    <3>1. find \in [Info!Loaders -> [pc : {"none", "asked", "answer"}, answer : [Servers -> Nat]]]
      OBVIOUS
    <3>2. find' = [find EXCEPT ![c].pc = "asked"]
      BY <1>3 DEF Info!Ask
    <3> HIDE DEF InfoInv, InfoTyped
    <3> QED BY <3>1, <3>2
  <2>3. InfoTyped'
    BY <2>1, <2>2
  <2> QED BY <2>1, <2>2, <2>3
<1>4. ASSUME NEW c \in Info!Loaders, Info!AnswerFind(c) PROVE InfoInv'
  BY <1>4 DEF Info!AnswerFind, Info!bounds
<1>5. ASSUME NEW c \in Info!Loaders, Info!Hydrate(c) PROVE InfoInv'
  BY <1>5 DEF Info!Hydrate, Info!NoQuery, Info!Nothing, Info!bounds
<1>6. ASSUME NEW s \in Servers, Info!Announce(s) PROVE InfoInv'
  BY <1>6 DEF Info!Announce, Info!bounds
<1>7. ASSUME NEW s \in Servers, Info!Merge(s) PROVE InfoInv'
  BY <1>7 DEF Info!Merge, Info!MergeDetail, Info!bounds
<1>8. ASSUME NEW s \in Servers, Info!Persist(s) PROVE InfoInv'
  BY <1>8 DEF Info!Persist, Info!Ended, Info!Resting, Info!Nothing, Info!bounds
<1>9. ASSUME NEW s \in Servers, Info!PersistFails(s) PROVE InfoInv'
  BY <1>9 DEF Info!PersistFails, Info!Ended, Info!Resting, Info!Nothing
<1>10. ASSUME NEW s \in Servers, Info!FetchedNothing(s) PROVE InfoInv'
  BY <1>10 DEF Info!FetchedNothing, Info!Ended, Info!Resting, Info!Nothing, Info!bounds
<1>11. ASSUME NEW s \in Servers, Info!PollDue(s) PROVE InfoInv'
  BY <1>11 DEF Info!PollDue, Info!bounds
<1> QED BY <1>1, <1>2, <1>3, <1>4, <1>5, <1>6, <1>7, <1>8, <1>9, <1>10, <1>11 DEF Info!Next

LEMMA InfoFrameHolds ==
  ASSUME InfoInv, UNCHANGED <<announced, stored, cache, loaded, find, server, done, overlapped>> PROVE InfoInv'
BY DEF InfoInv, InfoTyped

-----------------------------------------------------------------------------
\* The download cache.  The two files of an entry are never replaced together; what makes every pair
\* of them that a reader can see harmless is that a body is never older than a meta file read before
\* it, since one download at a time replaces first the body, then the meta.
Time == Nat \union {Downloads!Absent}
Slots == 1..2
Arrived(r) == requests[r].pc \in {"body", "meta", "first", "second"}

CacheTyped ==
  /\ now \in Nat /\ oldest \in Int
  /\ memory \in [body : Time, cachedAt : Time]
  /\ disk \in [body : Time, meta : Time] /\ temp \in [body : Time, meta : Time]
  /\ requests \in [Slots -> [pc : {"over", "net", "body", "meta", "first", "second"}, body : Time]]
  /\ inFlight \in {0} \union Slots
  /\ call \in [Callers -> [pc : {"idle", "await", "miss", "body", "unlink"}, meta : Time]]

\* One download at a time: the one that the others join.
Single ==
  \A r \in Slots : /\ (requests[r].pc # "over") <=> (inFlight = r)
                   /\ requests[r].pc = "over" => requests[r] = Downloads!Over

\* A meta file is not newer than the body beside it, nor is one that a reader holds.
Files ==
  /\ disk.body <= now /\ disk.meta <= now
  /\ disk.body # Downloads!Absent => disk.meta <= disk.body
  /\ \A c \in Callers : call[c].pc = "body" =>
       call[c].meta <= now /\ (disk.body # Downloads!Absent => call[c].meta <= disk.body)

\* A download that has arrived is not older than what lies on the disk or was read from it.
Download ==
  \A r \in Slots : Arrived(r) =>
    /\ requests[r].body \in Nat /\ requests[r].body <= now
    /\ disk.body <= requests[r].body /\ disk.meta <= requests[r].body
    /\ \A c \in Callers : call[c].pc = "body" => call[c].meta <= requests[r].body

\* The temporary files are those of the download; its body is in place before its meta file.
Temporary ==
  \A r \in Slots :
    /\ requests[r].pc \in {"meta", "first"} => temp.body = requests[r].body
    /\ requests[r].pc \in {"first", "second"} => temp.meta = requests[r].body
    /\ requests[r].pc = "second" => disk.body \in {Downloads!Absent, requests[r].body}

Memory == memory.cachedAt <= memory.body

CacheInv == CacheTyped /\ Single /\ Files /\ Download /\ Temporary /\ Memory /\ Downloads!FreshIsFresh

-----------------------------------------------------------------------------
LEMMA CacheInitHolds == ASSUME Downloads!Init PROVE CacheInv
<1> USE DEF Downloads!Init, Downloads!NoEntry, Downloads!NoFiles, Downloads!Absent, Downloads!Over, Downloads!Returned, Slots
<1>1. CacheTyped
  BY DEF CacheTyped, Time
<1>2. Single /\ Download /\ Temporary
  BY DEF Single, Download, Temporary, Arrived
<1>3. Files /\ Memory /\ Downloads!FreshIsFresh
  BY TtlAssumption DEF Files, Memory, Downloads!FreshIsFresh
<1> QED BY <1>1, <1>2, <1>3 DEF CacheInv

\* fetchAndStore leaves the downloads alone, or starts one that has not arrived.
LEMMA FetchStarts ==
  ASSUME CacheTyped, Single, Downloads!FetchAndStore
  PROVE  /\ requests' \in [Slots -> [pc : {"over", "net", "body", "meta", "first", "second"}, body : Time]]
         /\ inFlight' \in {0} \union Slots /\ Single'
         /\ \A r \in Slots : requests'[r] = requests[r] \/ requests'[r].pc = "net"
<1>1. CASE inFlight # 0
  BY <1>1 DEF Downloads!FetchAndStore, CacheTyped, Single
<1>2. CASE inFlight = 0
  <2> DEFINE r == CHOOSE r \in DOMAIN requests : requests[r] = Downloads!Over
  <2>1. DOMAIN requests = Slots /\ requests[1] = Downloads!Over
    BY <1>2 DEF CacheTyped, Single, Slots
  <2>2. r \in Slots
    BY <2>1 DEF Slots
  <2>3. requests' = [requests EXCEPT ![r] = [pc |-> "net", body |-> Downloads!Absent]] /\ inFlight' = r
    BY <1>2 DEF Downloads!FetchAndStore
  <2> HIDE DEF r
  <2> QED BY <1>2, <2>2, <2>3 DEF CacheTyped, Single, Time, Slots
<1> QED BY <1>1, <1>2

\* A call that is served leaves the downloads alone, too, and gives out only what is fresh.
LEMMA ServeServes ==
  ASSUME CacheInv, NEW c \in Callers, NEW entry \in [body : Time, cachedAt : Time],
         entry.cachedAt <= entry.body, Downloads!Serve(c, entry)
  PROVE  /\ requests' \in [Slots -> [pc : {"over", "net", "body", "meta", "first", "second"}, body : Time]]
         /\ inFlight' \in {0} \union Slots /\ Single'
         /\ \A r \in Slots : requests'[r] = requests[r] \/ requests'[r].pc = "net"
         /\ oldest' \in Int /\ Downloads!FreshIsFresh'
         /\ call' \in [Callers -> [pc : {"idle", "await", "miss", "body", "unlink"}, meta : Time]]
         /\ \A d \in Callers : call'[d] = call[d] \/ call'[d].pc \in {"idle", "await"}
<1>1. /\ requests' \in [Slots -> [pc : {"over", "net", "body", "meta", "first", "second"}, body : Time]]
      /\ inFlight' \in {0} \union Slots /\ Single'
      /\ \A r \in Slots : requests'[r] = requests[r] \/ requests'[r].pc = "net"
  <2>1. CASE Downloads!FetchAndStore
    BY <2>1, FetchStarts DEF CacheInv
  <2>2. CASE UNCHANGED <<requests, inFlight>>
    BY <2>2 DEF CacheInv, CacheTyped, Single
  <2> QED BY <2>1, <2>2 DEF Downloads!Serve
<1>2. oldest' \in Int /\ Downloads!FreshIsFresh'
  <2>1. entry.body \in Int /\ entry.cachedAt \in Int
    BY DEF Time, Downloads!Absent
  <2> QED BY <2>1, TtlAssumption DEF Downloads!Serve, Downloads!IsExpired, Downloads!Later, CacheInv, CacheTyped, Downloads!FreshIsFresh
<1>3. /\ call' \in [Callers -> [pc : {"idle", "await", "miss", "body", "unlink"}, meta : Time]]
      /\ \A d \in Callers : call'[d] = call[d] \/ call'[d].pc \in {"idle", "await"}
  <2>1. PICK pc \in {"idle", "await"} : call' = [call EXCEPT ![c] = [Downloads!Returned EXCEPT !.pc = pc]]
    BY DEF Downloads!Serve, Downloads!Returned
  <2> QED BY <2>1 DEF CacheInv, CacheTyped, Downloads!Returned, Time
<1> QED BY <1>1, <1>2, <1>3

LEMMA ForceUpdateHolds ==
  ASSUME CacheInv, NEW c \in Callers, Downloads!ForceUpdate(c) PROVE CacheInv'
<1> USE DEF Downloads!ForceUpdate, CacheInv
<1>0. /\ requests' \in [Slots -> [pc : {"over", "net", "body", "meta", "first", "second"}, body : Time]]
      /\ inFlight' \in {0} \union Slots /\ Single'
      /\ \A r \in Slots : requests'[r] = requests[r] \/ requests'[r].pc = "net"
  BY FetchStarts
<1>1. CacheTyped'
  BY <1>0 DEF CacheTyped, Downloads!Absent, Time
<1>2. Single'
  BY <1>0 DEF Single, CacheTyped
<1>3. Files'
  BY <1>0 DEF Files, CacheTyped, Downloads!Absent, Time
<1>4. Download'
  BY <1>0 DEF Download, Arrived, Files, CacheTyped, Downloads!Absent, Time
<1>5. Temporary'
  BY <1>0 DEF Temporary, Download, Arrived, Single, CacheTyped, Downloads!Absent, Time
<1>6. Memory'
  BY <1>0 DEF Memory, Files, Download, CacheTyped, Downloads!Absent, Time
<1>7. Downloads!FreshIsFresh'
  BY <1>0 DEF Downloads!FreshIsFresh, CacheTyped
<1> QED BY <1>1, <1>2, <1>3, <1>4, <1>5, <1>6, <1>7

LEMMA ReadMemoryHolds ==
  ASSUME CacheInv, NEW c \in Callers, Downloads!ReadMemory(c) PROVE CacheInv'
<1> USE DEF Downloads!ReadMemory, CacheInv
<1>0. /\ requests' \in [Slots -> [pc : {"over", "net", "body", "meta", "first", "second"}, body : Time]]
      /\ inFlight' \in {0} \union Slots /\ Single'
      /\ \A r \in Slots : requests'[r] = requests[r] \/ requests'[r].pc = "net"
      /\ oldest' \in Int /\ Downloads!FreshIsFresh'
      /\ call' \in [Callers -> [pc : {"idle", "await", "miss", "body", "unlink"}, meta : Time]]
      /\ \A d \in Callers : call'[d] = call[d] \/ call'[d].pc \in {"idle", "await"}
  BY ServeServes DEF Memory, CacheTyped
<1>1. CacheTyped'
  BY <1>0 DEF CacheTyped
<1>2. Single'
  BY <1>0 DEF Single, CacheTyped
<1>3. Files'
  <2>1. \A d \in Callers : call'[d].pc = "body" => call'[d] = call[d]
    BY <1>0
  <2> QED BY <2>1 DEF Files
<1>4. Download'
  BY <1>0 DEF Download, Arrived, Files, CacheTyped, Downloads!Absent, Time
<1>5. Temporary'
  BY <1>0 DEF Temporary, Download, Arrived, Single, CacheTyped, Downloads!Absent, Time
<1>6. Memory'
  BY <1>0 DEF Memory, Files, Download, CacheTyped, Downloads!Absent, Time
<1>7. Downloads!FreshIsFresh'
  BY <1>0
<1> QED BY <1>1, <1>2, <1>3, <1>4, <1>5, <1>6, <1>7

LEMMA ReadMetaHolds ==
  ASSUME CacheInv, NEW c \in Callers, Downloads!ReadMeta(c) PROVE CacheInv'
<1> USE DEF Downloads!ReadMeta, CacheInv
<1>1. CacheTyped'
  <2>1. DOMAIN call' = Callers /\ \A d \in Callers \ {c} : call'[d] = call[d]
    BY DEF CacheTyped
  <2>2. call' \in [Callers -> [pc : {"idle", "await", "miss", "body", "unlink"}, meta : Time]]
    <3>1. disk.meta \in Time /\ call \in [Callers -> [pc : {"idle", "await", "miss", "body", "unlink"}, meta : Time]]
      BY DEF CacheTyped
    <3> HIDE DEF CacheInv
    <3>2. call'[c] \in [pc : {"idle", "await", "miss", "body", "unlink"}, meta : Time]
      BY <3>1
    <3> QED BY <2>1, <3>1, <3>2
  <2> QED BY <2>2 DEF CacheTyped
<1>2. Single'
  BY DEF Single, CacheTyped
<1>3. Files'
  BY DEF Files, CacheTyped, Downloads!Absent, Time
<1>4. Download'
  BY DEF Download, Arrived, Files, CacheTyped, Downloads!Absent, Time
<1>5. Temporary'
  BY DEF Temporary, Download, Arrived, Single, CacheTyped, Downloads!Absent, Time
<1>6. Memory'
  BY DEF Memory, Files, Download, CacheTyped, Downloads!Absent, Time
<1>7. Downloads!FreshIsFresh'
  BY DEF Downloads!FreshIsFresh, CacheTyped
<1> QED BY <1>1, <1>2, <1>3, <1>4, <1>5, <1>6, <1>7

LEMMA ReadBodyHolds ==
  ASSUME CacheInv, NEW c \in Callers, Downloads!ReadBody(c) PROVE CacheInv'
<1> USE DEF Downloads!ReadBody, CacheInv
<1>0. /\ requests' \in [Slots -> [pc : {"over", "net", "body", "meta", "first", "second"}, body : Time]]
      /\ inFlight' \in {0} \union Slots /\ Single'
      /\ \A r \in Slots : requests'[r] = requests[r] \/ requests'[r].pc = "net"
      /\ oldest' \in Int /\ Downloads!FreshIsFresh'
      /\ call' \in [Callers -> [pc : {"idle", "await", "miss", "body", "unlink"}, meta : Time]]
      /\ \A d \in Callers : call'[d] = call[d] \/ call'[d].pc \in {"idle", "await"}
  <2> DEFINE entry == [body |-> disk.body, cachedAt |-> call[c].meta]
  <2>1. entry \in [body : Time, cachedAt : Time] /\ entry.cachedAt <= entry.body
    BY DEF Files, CacheTyped
  <2>2. Downloads!Serve(c, entry)
    BY Zenon
  <2> HIDE DEF entry
  <2> QED BY <2>1, <2>2, ServeServes
<1>1. CacheTyped'
  BY <1>0 DEF CacheTyped
<1>2. Single'
  BY <1>0 DEF Single, CacheTyped
<1>3. Files'
  <2>1. \A d \in Callers : call'[d].pc = "body" => call'[d] = call[d]
    BY <1>0
  <2> QED BY <2>1 DEF Files
<1>4. Download'
  BY <1>0 DEF Download, Arrived, Files, CacheTyped, Downloads!Absent, Time
<1>5. Temporary'
  BY <1>0 DEF Temporary, Download, Arrived, Single, CacheTyped, Downloads!Absent, Time
<1>6. Memory'
  BY <1>0 DEF Memory, Files, Download, CacheTyped, Downloads!Absent, Time
<1>7. Downloads!FreshIsFresh'
  BY <1>0
<1> QED BY <1>1, <1>2, <1>3, <1>4, <1>5, <1>6, <1>7

LEMMA BodyMissingHolds ==
  ASSUME CacheInv, NEW c \in Callers, Downloads!BodyMissing(c) PROVE CacheInv'
<1> USE DEF Downloads!BodyMissing, CacheInv, Downloads!Returned
<1>1. CacheTyped'
  BY DEF CacheTyped, Downloads!Absent, Time
<1>2. Single'
  BY DEF Single, CacheTyped
<1>3. Files'
  BY DEF Files, CacheTyped, Downloads!Absent, Time
<1>4. Download'
  BY DEF Download, Arrived, Files, CacheTyped, Downloads!Absent, Time
<1>5. Temporary'
  BY DEF Temporary, Download, Arrived, Single, CacheTyped, Downloads!Absent, Time
<1>6. Memory'
  BY DEF Memory, Files, Download, CacheTyped, Downloads!Absent, Time
<1>7. Downloads!FreshIsFresh'
  BY DEF Downloads!FreshIsFresh, CacheTyped
<1> QED BY <1>1, <1>2, <1>3, <1>4, <1>5, <1>6, <1>7

LEMMA UnlinkHolds ==
  ASSUME CacheInv, NEW c \in Callers, Downloads!Unlink(c) PROVE CacheInv'
<1> USE DEF Downloads!Unlink, CacheInv, Downloads!Returned
<1>0. /\ requests' \in [Slots -> [pc : {"over", "net", "body", "meta", "first", "second"}, body : Time]]
      /\ inFlight' \in {0} \union Slots /\ Single'
      /\ \A r \in Slots : requests'[r] = requests[r] \/ requests'[r].pc = "net"
  BY FetchStarts DEF CacheTyped, Single
<1>1. CacheTyped'
  BY <1>0 DEF CacheTyped, Downloads!Absent, Time
<1>2. Single'
  BY <1>0 DEF Single, CacheTyped
<1>3. Files'
  <2>1. now' = now /\ now \in Nat /\ disk'.body \in {disk.body, Downloads!Absent} /\ disk'.meta \in {disk.meta, Downloads!Absent}
    BY DEF CacheTyped
  <2>2. \A d \in Callers : call'[d].pc = "body" => call'[d] = call[d]
    BY DEF CacheTyped
  <2>3. disk.body \in Time /\ disk.meta \in Time /\ disk'.body \in Time /\ disk'.meta \in Time
    BY <1>1 DEF CacheTyped
  <2> QED BY <2>1, <2>2, <2>3 DEF Files, Downloads!Absent, Time
<1>4. Download'
  BY <1>0 DEF Download, Arrived, Files, CacheTyped, Downloads!Absent, Time
<1>5. Temporary'
  BY <1>0 DEF Temporary, Download, Arrived, Single, CacheTyped, Downloads!Absent, Time
<1>6. Memory'
  BY <1>0 DEF Memory, Files, Download, CacheTyped, Downloads!Absent, Time
<1>7. Downloads!FreshIsFresh'
  BY <1>0 DEF Downloads!FreshIsFresh, CacheTyped
<1> QED BY <1>1, <1>2, <1>3, <1>4, <1>5, <1>6, <1>7

LEMMA ArriveHolds ==
  ASSUME CacheInv, NEW r \in Slots, Downloads!Arrive(r) PROVE CacheInv'
<1> USE DEF Downloads!Arrive, CacheInv
<1>1. CacheTyped'
  BY DEF CacheTyped, Downloads!Absent, Time
<1>2. Single'
  BY DEF Single, CacheTyped
<1>3. Files'
  BY DEF Files, CacheTyped, Downloads!Absent, Time
<1>4. Download'
  BY DEF Download, Arrived, Files, CacheTyped, Downloads!Absent, Time
<1>5. Temporary'
  BY DEF Temporary, Download, Arrived, Single, CacheTyped, Downloads!Absent, Time
<1>6. Memory'
  BY DEF Memory, Files, Download, CacheTyped, Downloads!Absent, Time
<1>7. Downloads!FreshIsFresh'
  BY DEF Downloads!FreshIsFresh, CacheTyped
<1> QED BY <1>1, <1>2, <1>3, <1>4, <1>5, <1>6, <1>7

LEMMA WriteTempHolds ==
  ASSUME CacheInv, NEW r \in Slots, Downloads!WriteTemp(r) PROVE CacheInv'
<1> USE DEF Downloads!WriteTemp, CacheInv, Downloads!Next_
<1>1. CacheTyped'
  BY DEF CacheTyped, Downloads!Absent, Time
<1>2. Single'
  BY DEF Single, CacheTyped
<1>3. Files'
  BY DEF Files, CacheTyped, Downloads!Absent, Time
<1>4. Download'
  BY DEF Download, Arrived, Files, CacheTyped, Downloads!Absent, Time
<1>5. Temporary'
  BY DEF Temporary, Download, Arrived, Single, CacheTyped, Downloads!Absent, Time
<1>6. Memory'
  BY DEF Memory, Files, Download, CacheTyped, Downloads!Absent, Time
<1>7. Downloads!FreshIsFresh'
  BY DEF Downloads!FreshIsFresh, CacheTyped
<1> QED BY <1>1, <1>2, <1>3, <1>4, <1>5, <1>6, <1>7

LEMMA RenameFirstHolds ==
  ASSUME CacheInv, NEW r \in Slots, Downloads!RenameFirst(r) PROVE CacheInv'
<1> USE DEF Downloads!RenameFirst, CacheInv, Downloads!Next_, Downloads!Move, Downloads!Renamed
<1>1. CacheTyped'
  BY DEF CacheTyped, Downloads!Absent, Time
<1>2. Single'
  BY DEF Single, CacheTyped
<1>3. Files'
  BY DEF Files, Download, Arrived, Temporary, CacheTyped, Downloads!Absent, Time
<1>4. Download'
  BY DEF Download, Arrived, Files, Temporary, Single, CacheTyped, Downloads!Absent, Time
<1>5. Temporary'
  BY DEF Temporary, Download, Arrived, Single, CacheTyped, Downloads!Absent, Time
<1>6. Memory'
  BY DEF Memory, Files, Download, CacheTyped, Downloads!Absent, Time
<1>7. Downloads!FreshIsFresh'
  BY DEF Downloads!FreshIsFresh, CacheTyped
<1> QED BY <1>1, <1>2, <1>3, <1>4, <1>5, <1>6, <1>7

LEMMA RenameSecondHolds ==
  ASSUME CacheInv, NEW r \in Slots, Downloads!RenameSecond(r) PROVE CacheInv'
<1> USE DEF Downloads!RenameSecond, CacheInv, Downloads!Finished, Downloads!Over, Downloads!Returned, Downloads!Move, Downloads!Renamed
<1>1. CacheTyped'
  BY DEF CacheTyped, Downloads!Absent, Time
<1>2. Single'
  BY DEF Single, CacheTyped, Slots
<1>3. Files'
  BY DEF Files, Download, Arrived, Temporary, CacheTyped, Downloads!Absent, Time
<1>4. Download'
  BY DEF Download, Arrived, Files, Temporary, Single, CacheTyped, Downloads!Absent, Time
<1>5. Temporary'
  BY DEF Temporary, Download, Arrived, Single, CacheTyped, Downloads!Absent, Time
<1>6. Memory'
  BY DEF Memory, Files, Download, CacheTyped, Downloads!Absent, Time
<1>7. Downloads!FreshIsFresh'
  BY DEF Downloads!FreshIsFresh, CacheTyped
<1> QED BY <1>1, <1>2, <1>3, <1>4, <1>5, <1>6, <1>7

LEMMA RequestFailsHolds ==
  ASSUME CacheInv, NEW r \in Slots, Downloads!RequestFails(r) PROVE CacheInv'
<1> USE DEF Downloads!RequestFails, CacheInv, Downloads!Finished, Downloads!Over, Downloads!Returned
<1>1. CacheTyped'
  BY DEF CacheTyped, Downloads!Absent, Time
<1>2. Single'
  BY DEF Single, CacheTyped, Slots
<1>3. Files'
  BY DEF Files, CacheTyped, Downloads!Absent, Time
<1>4. Download'
  BY DEF Download, Arrived, Files, CacheTyped, Downloads!Absent, Time
<1>5. Temporary'
  BY DEF Temporary, Download, Arrived, Single, CacheTyped, Downloads!Absent, Time
<1>6. Memory'
  BY DEF Memory, Files, Download, CacheTyped, Downloads!Absent, Time
<1>7. Downloads!FreshIsFresh'
  BY DEF Downloads!FreshIsFresh, CacheTyped
<1> QED BY <1>1, <1>2, <1>3, <1>4, <1>5, <1>6, <1>7

LEMMA EvictHolds ==
  ASSUME CacheInv, Downloads!Evict PROVE CacheInv'
<1> USE DEF Downloads!Evict, CacheInv, Downloads!NoEntry
<1>1. CacheTyped'
  BY DEF CacheTyped, Downloads!Absent, Time
<1>2. Single'
  BY DEF Single, CacheTyped
<1>3. Files'
  BY DEF Files, CacheTyped, Downloads!Absent, Time
<1>4. Download'
  BY DEF Download, Arrived, Files, CacheTyped, Downloads!Absent, Time
<1>5. Temporary'
  BY DEF Temporary, Download, Arrived, Single, CacheTyped, Downloads!Absent, Time
<1>6. Memory'
  BY DEF Memory, Files, Download, CacheTyped, Downloads!Absent, Time
<1>7. Downloads!FreshIsFresh'
  BY DEF Downloads!FreshIsFresh, CacheTyped
<1> QED BY <1>1, <1>2, <1>3, <1>4, <1>5, <1>6, <1>7

LEMMA CleanUpHolds ==
  ASSUME CacheInv, Downloads!CleanUp PROVE CacheInv'
<1> USE DEF Downloads!CleanUp, CacheInv
<1>1. CacheTyped'
  BY DEF CacheTyped, Downloads!Absent, Time
<1>2. Single'
  BY DEF Single, CacheTyped
<1>3. Files'
  BY DEF Files, CacheTyped, Downloads!Absent, Time
<1>4. Download'
  BY DEF Download, Arrived, Files, CacheTyped, Downloads!Absent, Time
<1>5. Temporary'
  BY DEF Temporary, Download, Arrived, Single, CacheTyped, Downloads!Absent, Time
<1>6. Memory'
  BY DEF Memory, Files, Download, CacheTyped, Downloads!Absent, Time
<1>7. Downloads!FreshIsFresh'
  BY DEF Downloads!FreshIsFresh, CacheTyped
<1> QED BY <1>1, <1>2, <1>3, <1>4, <1>5, <1>6, <1>7

LEMMA CacheRestartHolds ==
  ASSUME CacheInv, Downloads!Restart PROVE CacheInv'
<1> USE DEF Downloads!Restart, CacheInv, Downloads!NoEntry, Downloads!Over, Downloads!Returned
<1>1. CacheTyped'
  BY DEF CacheTyped, Downloads!Absent, Time
<1>2. Single'
  BY DEF Single, CacheTyped, Slots
<1>3. Files'
  BY DEF Files, CacheTyped, Downloads!Absent, Time
<1>4. Download'
  BY DEF Download, Arrived, Files, CacheTyped, Downloads!Absent, Time
<1>5. Temporary'
  BY DEF Temporary, Download, Arrived, Single, CacheTyped, Downloads!Absent, Time
<1>6. Memory'
  BY DEF Memory, Files, Download, CacheTyped, Downloads!Absent, Time
<1>7. Downloads!FreshIsFresh'
  BY DEF Downloads!FreshIsFresh, CacheTyped
<1> QED BY <1>1, <1>2, <1>3, <1>4, <1>5, <1>6, <1>7

LEMMA TickHolds ==
  ASSUME CacheInv, Downloads!Tick PROVE CacheInv'
<1> USE DEF Downloads!Tick, CacheInv
<1>1. CacheTyped'
  BY DEF CacheTyped, Downloads!Absent, Time
<1>2. Single'
  BY DEF Single, CacheTyped
<1>3. Files'
  BY DEF Files, CacheTyped, Downloads!Absent, Time
<1>4. Download'
  BY DEF Download, Arrived, Files, CacheTyped, Downloads!Absent, Time
<1>5. Temporary'
  BY DEF Temporary, Download, Arrived, Single, CacheTyped, Downloads!Absent, Time
<1>6. Memory'
  BY DEF Memory, Files, Download, CacheTyped, Downloads!Absent, Time
<1>7. Downloads!FreshIsFresh'
  BY DEF Downloads!FreshIsFresh, CacheTyped
<1> QED BY <1>1, <1>2, <1>3, <1>4, <1>5, <1>6, <1>7

\* Nothing of the cache moves: the cleanup and the count of restarts are of no consequence.
LEMMA CacheFrameHolds ==
  ASSUME CacheInv, UNCHANGED <<now, memory, disk, temp, requests, inFlight, call, oldest>> PROVE CacheInv'
BY DEF CacheInv, CacheTyped, Single, Files, Download, Arrived, Temporary, Memory, Downloads!FreshIsFresh

LEMMA CacheStepHolds == ASSUME CacheInv, Downloads!Next PROVE CacheInv'
<1>1. DOMAIN requests = Slots
  BY DEF CacheInv, CacheTyped
<1> QED BY <1>1, ForceUpdateHolds, ReadMemoryHolds, ReadMetaHolds, ReadBodyHolds, BodyMissingHolds,
           UnlinkHolds, ArriveHolds, WriteTempHolds, RenameFirstHolds, RenameSecondHolds,
           RequestFailsHolds, EvictHolds, CleanUpHolds, CacheRestartHolds, TickHolds DEF Downloads!Next

\* At most one download of a URL is under way, so that its temporary files have one writer.
LEMMA CacheShares == ASSUME CacheInv PROVE Downloads!OneDownload
BY DEF CacheInv, CacheTyped, Single, Downloads!Over, Downloads!OneDownload

-----------------------------------------------------------------------------
\* The migration of the players.  Whether the documents still hold a player cannot be told from its
\* profile alone: the argument follows what the bootstrap has read, and that it cleans exactly the
\* documents whose players it has written.
All == 1..Documents
PlayersOf(docs) == UNION {users[d] : d \in docs}
PlayersReady == bootstrap.pc \in {"names", "rename", "markRename", "done"}
Migrating == bootstrap.pc \in {"write", "clean", "markPlayers"}

MigrationTyped ==
  /\ users \in [All -> SUBSET Players]
  /\ legacy \in SUBSET All
  /\ previous \in [exists : BOOLEAN, of : [Players -> Nat]]
  /\ ranked \in [exists : BOOLEAN, of : [Players -> Nat]]
  /\ bootstrap = [pc |-> bootstrap.pc, read |-> bootstrap.read, pending |-> bootstrap.pending]
  /\ bootstrap.pc \in {"find", "write", "clean", "markPlayers", "names", "rename", "markRename", "done"}
  /\ split \in BOOLEAN /\ skipped \in BOOLEAN

\* A collection that does not exist holds nobody.
Empty(collection) == ~collection.exists => \A p \in Players : collection.of[p] = 0

\* No document is newer than the profile in the collection.
Current(collection) ==
  \A p \in Players : collection.of[p] # 0 => \A d \in Migration!With(All, p) : d <= collection.of[p]

\* What is still to be written and to be cleaned.
Reading ==
  /\ bootstrap.pc \in {"write", "clean"} => bootstrap.read \subseteq All
  /\ bootstrap.pc = "write" =>
       /\ legacy = bootstrap.read /\ bootstrap.pending \subseteq PlayersOf(legacy)
       /\ \A p \in PlayersOf(legacy) \ bootstrap.pending : ranked.of[p] # 0
  /\ bootstrap.pc = "clean" =>
       /\ legacy = bootstrap.pending /\ legacy \subseteq bootstrap.read
       /\ \A p \in PlayersOf(bootstrap.read) : ranked.of[p] # 0
  /\ bootstrap.pc = "markPlayers" => legacy = {}

\* Which of the two migrations is over.
Ordered ==
  /\ Migrating => "players" \notin completed
  /\ PlayersReady => "players" \in completed
  /\ bootstrap.pc = "markRename" => skipped \/ \A p \in Players : previous.of[p] = 0

\* Unless it was interrupted there, all documents were cleaned together.
Whole ==
  ~split => /\ bootstrap.pc = "clean" => bootstrap.read = All
            /\ bootstrap.pc # "clean" => legacy \in {{}, All}

Kept ==
  \A p \in Players : Migration!With(All, p) # {} =>
    \/ ranked.of[p] # 0
    \/ "players" \notin completed /\ Migration!With(legacy, p) # {}
    \/ "rename" \notin completed /\ previous.of[p] # 0
    \/ skipped

MigrationInv ==
  /\ MigrationTyped /\ Empty(previous) /\ Empty(ranked) /\ Current(previous)
  /\ (~split => Current(ranked))
  /\ Reading /\ Ordered /\ Whole /\ Kept

-----------------------------------------------------------------------------
\* The newest of some documents is one of them.
LEMMA NewestExists ==
  ASSUME NEW docs \in SUBSET All, docs # {}
  PROVE  Migration!Max(docs) \in docs /\ \A d \in docs : d <= Migration!Max(docs)
<1> DEFINE after == {n \in Nat : Documents - n \in docs}
<1>1. \A d \in docs : d \in Nat /\ Documents - d \in after
  BY DocumentsAssumption DEF All
<1>2. after \subseteq Nat /\ after # {}
  BY <1>1
<1>3. PICK n \in after : \A k \in after : <<k, n>> \notin OpToRel(<, Nat)
  <2> HIDE DEF after
  <2> QED BY <1>2, NatLessThanWellFounded, WFMin
<1>4. \A k \in after : n <= k
  <2>1. \A j, k \in Nat : j < k => <<j, k>> \in OpToRel(<, Nat)
    BY DEF OpToRel
  <2>2. \A k \in after : ~(k < n)
    BY <1>2, <1>3, <2>1
  <2> QED BY <1>2, <2>2
<1>5. Documents - n \in docs /\ \A d \in docs : Documents - n >= d
  BY <1>1, <1>4, DocumentsAssumption
<1> QED BY <1>1, <1>5 DEF Migration!Max

\* The profile taken from some documents: there is one, and none of them holds a newer one.
LEMMA LatestIsNewest ==
  ASSUME MigrationTyped, NEW docs \in SUBSET All, NEW p \in Players
  PROVE  /\ Migration!Latest(docs, p) \in Nat
         /\ Migration!With(docs, p) # {} => Migration!Latest(docs, p) # 0
         /\ \A d \in Migration!With(docs, p) : d <= Migration!Latest(docs, p)
<1>1. CASE Migration!With(docs, p) = {}
  BY <1>1 DEF Migration!Latest
<1>2. CASE Migration!With(docs, p) # {}
  <2>1. Migration!With(docs, p) \in SUBSET All
    BY DEF Migration!With
  <2>2. Migration!Max(Migration!With(docs, p)) \in Migration!With(docs, p) /\ \A d \in Migration!With(docs, p) : d <= Migration!Max(Migration!With(docs, p))
    BY <1>2, <2>1, NewestExists
  <2> QED BY <1>2, <2>1, <2>2 DEF Migration!Latest, All
<1> QED BY <1>1, <1>2

\* Who is in one of the documents.
LEMMA PlayersOfDocuments ==
  ASSUME NEW docs, NEW p PROVE p \in PlayersOf(docs) <=> Migration!With(docs, p) # {}
BY DEF PlayersOf, Migration!With

-----------------------------------------------------------------------------
LEMMA MigrationInitHolds == ASSUME Migration!Init PROVE MigrationInv
<1> USE DEF Migration!Init
<1>1. MigrationTyped
  <2>1. users \in [All -> SUBSET Players] /\ legacy \in SUBSET All
    BY DEF All
  <2>2. previous \in [exists : BOOLEAN, of : [Players -> Nat]]
    <3>1. \A p \in Players : (IF Migration!With(All, p) = {} THEN 0 ELSE Migration!Polled) \in Nat
      BY DocumentsAssumption DEF Migration!Polled
    <3>2. \A p \in Players : Migration!Latest(All, p) \in Nat
      <4>1. \A p \in Players : Migration!With(All, p) # {} => Migration!Max(Migration!With(All, p)) \in Nat
        BY NewestExists DEF Migration!With, All
      <4> QED BY <4>1 DEF Migration!Latest
    <3>3. previous \in {Migration!Missing, [exists |-> TRUE, of |-> [p \in Players |-> IF Migration!With(All, p) = {} THEN 0 ELSE Migration!Polled]],
                        [exists |-> TRUE, of |-> [p \in Players |-> Migration!Latest(All, p)]]}
      BY Zenon DEF All
    <3>4. Migration!Missing \in [exists : BOOLEAN, of : [Players -> Nat]]
      BY DEF Migration!Missing
    <3>5. [exists |-> TRUE, of |-> [p \in Players |-> Migration!Latest(All, p)]] \in [exists : BOOLEAN, of : [Players -> Nat]]
      BY <3>2
    <3>6. [exists |-> TRUE, of |-> [p \in Players |-> IF Migration!With(All, p) = {} THEN 0 ELSE Migration!Polled]]
             \in [exists : BOOLEAN, of : [Players -> Nat]]
      BY <3>1
    <3> QED BY <3>3, <3>4, <3>5, <3>6, Zenon
  <2> QED BY <2>1, <2>2 DEF MigrationTyped, Migration!Missing, Migration!Begun
<1>2. Empty(previous) /\ Empty(ranked)
  BY DEF Empty, Migration!Missing
<1>3. Current(previous) /\ Current(ranked)
  <2>1. \A p \in Players : \A d \in Migration!With(All, p) : d <= Migration!Polled /\ d <= Migration!Latest(All, p)
    BY <1>1, LatestIsNewest, DocumentsAssumption DEF Migration!With, Migration!Polled, All
  <2> QED BY <2>1 DEF Current, Migration!Missing, All
<1>4. Reading /\ Ordered
  BY DEF Reading, Ordered, PlayersReady, Migrating, Migration!Begun
<1>5. Whole
  BY DEF Whole, Migration!Begun, All
<1>6. Kept
  <2>1. \A p \in Players : Migration!With(All, p) # {} => Migration!Latest(All, p) # 0
    BY <1>1, LatestIsNewest
  <2> QED BY <2>1, DocumentsAssumption DEF Kept, All, Migration!Polled
<1> QED BY <1>1, <1>2, <1>3, <1>4, <1>5, <1>6 DEF MigrationInv

LEMMA FindLegacyHolds == ASSUME MigrationInv, Migration!FindLegacy PROVE MigrationInv'
<1> USE DEF Migration!FindLegacy, Migration!Go, MigrationInv
<1>1. MigrationTyped'
  BY DEF MigrationTyped
<1>2. Empty(previous)' /\ Empty(ranked)'
  BY DEF Empty
<1>3. Current(previous)' /\ (~split => Current(ranked))'
  BY DEF Current, Migration!With
<1>4. Reading'
  BY DEF Reading, PlayersOf, MigrationTyped, Migration!With
<1>5. Ordered'
  BY DEF Ordered, PlayersReady, Migrating, MigrationTyped
<1>6. Whole'
  BY DEF Whole, MigrationTyped
<1>7. Kept'
  BY DEF Kept, Migration!With, Reading, PlayersOf, Ordered, Migrating, PlayersReady, MigrationTyped
<1> QED BY <1>1, <1>2, <1>3, <1>4, <1>5, <1>6, <1>7

LEMMA CleanDocumentHolds == ASSUME MigrationInv, Migration!CleanDocument PROVE MigrationInv'
<1> USE DEF Migration!CleanDocument, Migration!Go, MigrationInv
<1>1. MigrationTyped'
  BY DEF MigrationTyped
<1>2. Empty(previous)' /\ Empty(ranked)'
  BY DEF Empty
<1>3. Current(previous)' /\ (~split => Current(ranked))'
  BY DEF Current, Migration!With
<1>4. Reading'
  BY DEF Reading, PlayersOf, MigrationTyped, Migration!With
<1>5. Ordered'
  BY DEF Ordered, PlayersReady, Migrating, MigrationTyped
<1>6. Whole'
  BY DEF Whole, MigrationTyped, Reading
<1>7. Kept'
  BY DEF Kept, Migration!With, Reading, PlayersOf, Ordered, Migrating, PlayersReady, MigrationTyped
<1> QED BY <1>1, <1>2, <1>3, <1>4, <1>5, <1>6, <1>7

LEMMA MarkPlayersHolds == ASSUME MigrationInv, Migration!MarkPlayers PROVE MigrationInv'
<1> USE DEF Migration!MarkPlayers, Migration!Go, MigrationInv
<1>1. MigrationTyped'
  BY DEF MigrationTyped
<1>2. Empty(previous)' /\ Empty(ranked)'
  BY DEF Empty
<1>3. Current(previous)' /\ (~split => Current(ranked))'
  BY DEF Current, Migration!With
<1>4. Reading'
  BY DEF Reading, PlayersOf, MigrationTyped, Migration!With
<1>5. Ordered'
  BY DEF Ordered, PlayersReady, Migrating, MigrationTyped
<1>6. Whole'
  BY DEF Whole, MigrationTyped
<1>7. Kept'
  BY DEF Kept, Migration!With, Reading, PlayersOf, Ordered, Migrating, PlayersReady, MigrationTyped
<1> QED BY <1>1, <1>2, <1>3, <1>4, <1>5, <1>6, <1>7

LEMMA ListNamesHolds == ASSUME MigrationInv, Migration!ListNames PROVE MigrationInv'
<1> USE DEF Migration!ListNames, Migration!Go, MigrationInv
<1>1. MigrationTyped'
  BY DEF MigrationTyped
<1>2. Empty(previous)' /\ Empty(ranked)'
  BY DEF Empty
<1>3. Current(previous)' /\ (~split => Current(ranked))'
  BY DEF Current, Migration!With
<1>4. Reading'
  BY DEF Reading, PlayersOf, MigrationTyped, Migration!With
<1>5. Ordered'
  BY DEF Ordered, PlayersReady, Migrating, MigrationTyped, Empty
<1>6. Whole'
  BY DEF Whole, MigrationTyped
<1>7. Kept'
  BY DEF Kept, Migration!With, Reading, PlayersOf, Ordered, Migrating, PlayersReady, MigrationTyped
<1> QED BY <1>1, <1>2, <1>3, <1>4, <1>5, <1>6, <1>7

LEMMA RenameHolds == ASSUME MigrationInv, Migration!Rename PROVE MigrationInv'
<1> USE DEF Migration!Rename, Migration!Go, MigrationInv
<1>1. MigrationTyped'
  <2>1. Migration!Missing \in [exists : BOOLEAN, of : [Players -> Nat]]
    BY DEF Migration!Missing
  <2>2. CASE ranked' = previous /\ previous' = Migration!Missing /\ UNCHANGED skipped
    BY <2>1, <2>2 DEF MigrationTyped
  <2>3. CASE UNCHANGED <<ranked, previous>> /\ skipped' \in BOOLEAN
    BY <2>3 DEF MigrationTyped
  <2> QED BY <2>2, <2>3 DEF MigrationTyped
<1>2. Empty(previous)' /\ Empty(ranked)'
  BY DEF Empty, Migration!Missing
<1>3. Current(previous)' /\ (~split => Current(ranked))'
  BY DEF Current, Migration!With, Empty, Migration!Missing
<1>4. Reading'
  BY DEF Reading, PlayersOf, MigrationTyped, Migration!With
<1>5. Ordered'
  BY DEF Ordered, PlayersReady, Migrating, MigrationTyped, Empty, Migration!Missing
<1>6. Whole'
  BY DEF Whole, MigrationTyped
<1>7. Kept'
  BY DEF Kept, Migration!With, Reading, PlayersOf, Ordered, Migrating, PlayersReady, MigrationTyped, Empty, Migration!Missing
<1> QED BY <1>1, <1>2, <1>3, <1>4, <1>5, <1>6, <1>7

LEMMA MarkRenameHolds == ASSUME MigrationInv, Migration!MarkRename PROVE MigrationInv'
<1> USE DEF Migration!MarkRename, Migration!Go, MigrationInv
<1>1. MigrationTyped'
  BY DEF MigrationTyped
<1>2. Empty(previous)' /\ Empty(ranked)'
  BY DEF Empty
<1>3. Current(previous)' /\ (~split => Current(ranked))'
  BY DEF Current, Migration!With
<1>4. Reading'
  BY DEF Reading, PlayersOf, MigrationTyped, Migration!With
<1>5. Ordered'
  BY DEF Ordered, PlayersReady, Migrating, MigrationTyped
<1>6. Whole'
  BY DEF Whole, MigrationTyped
<1>7. Kept'
  BY DEF Kept, Migration!With, Reading, PlayersOf, Ordered, Migrating, PlayersReady, MigrationTyped
<1> QED BY <1>1, <1>2, <1>3, <1>4, <1>5, <1>6, <1>7

LEMMA SampleHolds == ASSUME MigrationInv, Migration!Sample PROVE MigrationInv'
<1> USE DEF Migration!Sample, Migration!Go, MigrationInv
<1>1. MigrationTyped'
  BY DocumentsAssumption DEF MigrationTyped, Migration!Fresh
<1>2. Empty(previous)' /\ Empty(ranked)'
  BY DEF Empty
<1>3. Current(previous)' /\ (~split => Current(ranked))'
  BY DocumentsAssumption DEF Current, Migration!With, Migration!Fresh, All, MigrationTyped
<1>4. Reading'
  BY DocumentsAssumption DEF Reading, PlayersOf, MigrationTyped, Migration!With, Migration!Fresh
<1>5. Ordered'
  BY DEF Ordered, PlayersReady, Migrating, MigrationTyped
<1>6. Whole'
  BY DEF Whole, MigrationTyped
<1>7. Kept'
  BY DocumentsAssumption DEF Kept, Migration!With, Reading, PlayersOf, Ordered, Migrating, PlayersReady, MigrationTyped, Migration!Fresh
<1> QED BY <1>1, <1>2, <1>3, <1>4, <1>5, <1>6, <1>7

LEMMA MigrationRestartHolds == ASSUME MigrationInv, Migration!Restart PROVE MigrationInv'
<1> USE DEF Migration!Restart, Migration!Go, MigrationInv
<1>1. MigrationTyped'
  BY DEF MigrationTyped, Migration!Begun
<1>2. Empty(previous)' /\ Empty(ranked)'
  BY DEF Empty
<1>3. Current(previous)' /\ (~split => Current(ranked))'
  BY DEF Current, Migration!With
<1>4. Reading'
  BY DEF Reading, PlayersOf, MigrationTyped, Migration!With, Migration!Begun
<1>5. Ordered'
  BY DEF Ordered, PlayersReady, Migrating, MigrationTyped, Migration!Begun
<1>6. Whole'
  BY DEF Whole, MigrationTyped, Reading, Migration!Begun
<1>7. Kept'
  BY DEF Kept, Migration!With, Reading, PlayersOf, Ordered, Migrating, PlayersReady, MigrationTyped
<1> QED BY <1>1, <1>2, <1>3, <1>4, <1>5, <1>6, <1>7

\* The profiles of the documents read are written one after the other.
LEMMA WritePlayerHolds == ASSUME MigrationInv, Migration!WritePlayer PROVE MigrationInv'
<1> USE DEF MigrationInv
<1>1. PICK p \in bootstrap.pending :
        /\ bootstrap.pc = "write"
        /\ ranked' = [exists |-> TRUE, of |-> [ranked.of EXCEPT ![p] = Migration!Latest(bootstrap.read, p)]]
        /\ bootstrap' = IF bootstrap.pending = {p}
                        THEN [bootstrap EXCEPT !.pc = "clean", !.pending = bootstrap.read]
                        ELSE [bootstrap EXCEPT !.pending = @ \ {p}]
        /\ UNCHANGED <<users, legacy, previous, completed, split, skipped, restarts>>
  BY DEF Migration!WritePlayer
<1>2. legacy = bootstrap.read /\ legacy \in SUBSET All /\ p \in PlayersOf(legacy) /\ p \in Players
  BY <1>1 DEF Reading, MigrationTyped, PlayersOf, All
<1>3. /\ Migration!Latest(legacy, p) \in Nat /\ Migration!Latest(legacy, p) # 0
      /\ \A d \in Migration!With(legacy, p) : d <= Migration!Latest(legacy, p)
  BY <1>2, LatestIsNewest, PlayersOfDocuments
<1>4. MigrationTyped'
  BY <1>1, <1>2, <1>3 DEF MigrationTyped, All
<1>5. Empty(previous)' /\ Empty(ranked)'
  BY <1>1 DEF Empty
<1>6. Current(previous)'
  BY <1>1 DEF Current, Migration!With
<1>7. ~split => Current(ranked)'
  <2>1. ~split => legacy = All
    BY <1>1, <1>2 DEF Whole, PlayersOf
  <2> QED BY <1>1, <1>2, <1>3, <2>1 DEF Current, Migration!With, MigrationTyped
<1>8. Reading'
  BY <1>1, <1>2, <1>3 DEF Reading, PlayersOf, MigrationTyped
<1>9. Ordered'
  BY <1>1 DEF Ordered, Migrating, PlayersReady, MigrationTyped
<1>10. Whole'
  BY <1>1, <1>2 DEF Whole, PlayersOf, MigrationTyped
<1>11. Kept'
  BY <1>1, <1>2, <1>3 DEF Kept, Migration!With, MigrationTyped
<1> QED BY <1>1, <1>4, <1>5, <1>6, <1>7, <1>8, <1>9, <1>10, <1>11

\* Nothing of the migration moves: the count of restarts is of no consequence.
LEMMA MigrationFrameHolds ==
  ASSUME MigrationInv, UNCHANGED <<users, legacy, previous, ranked, completed, bootstrap, split, skipped>> PROVE MigrationInv'
BY DEF MigrationInv, MigrationTyped, Empty, Current, Reading, Ordered, Whole, Kept, PlayersOf, Migration!With, PlayersReady, Migrating

LEMMA MigrationStepHolds == ASSUME MigrationInv, Migration!Next PROVE MigrationInv'
BY FindLegacyHolds, WritePlayerHolds, CleanDocumentHolds, MarkPlayersHolds, ListNamesHolds,
   RenameHolds, MarkRenameHolds, SampleHolds, MigrationRestartHolds DEF Migration!Next

LEMMA MigrationKeeps == ASSUME MigrationInv PROVE Migration!PlayersAreKept
BY DEF MigrationInv, Kept, Current, Migration!PlayersAreKept, All, MigrationTyped

-----------------------------------------------------------------------------
\* The polling.  The latest request asks for what the page shows next: from the first sample, or
\* from the last one that is there.
IsClient(c) ==
  /\ c = [filters |-> c.filters, enabled |-> c.enabled, paused |-> c.paused, tracks |-> c.tracks,
          booted |-> c.booted, loading |-> c.loading, error |-> c.error, armed |-> c.armed,
          current |-> c.current, requests |-> c.requests]
  /\ c.enabled \in BOOLEAN /\ c.paused \in BOOLEAN /\ c.booted \in BOOLEAN /\ c.armed \in BOOLEAN
  /\ c.current \in Nat
  /\ \A r \in c.requests : r.id \in 1..c.current /\ r.full \in BOOLEAN /\ r.again \in BOOLEAN

Latest(c) == {r \in c.requests : r.id = c.current}

\* The requests are numbered; the latest one was sent for what is on the page.
ForThePage(c) ==
  /\ \A r, q \in c.requests : r.id = q.id => r = q
  /\ c.armed => c.enabled
  /\ c.enabled => \A r \in Latest(c) : r.query = c.filters /\ (r.full => r.from = 1)
  /\ ~c.enabled /\ c.booted => Latest(c) = {}

\* What is on the page is a history, and the latest request goes on with it.
GoesOn(c) ==
  \E t \in 0..samples : /\ c.tracks = Polling!Samples(c.filters, 1, t)
                        /\ \A r \in Latest(c) : r.from = 1 \/ (t > 0 /\ r.from = t)

PollingInv ==
  /\ samples \in 0..MaxSamples /\ disturbed \in BOOLEAN /\ IsClient(client) /\ ForThePage(client)
  /\ ~disturbed /\ client.enabled => GoesOn(client)
  /\ ~disturbed /\ ~client.enabled /\ client.booted => client.tracks = {}
  /\ PollingGoesOn

\* Nothing of the polling but the number of the samples changes.
LEMMA PollingFrameHolds ==
  ASSUME PollingInv, samples' \in 0..MaxSamples, samples <= samples', UNCHANGED <<client, disturbed>>
  PROVE  PollingInv'
<1>1. ASSUME GoesOn(client) PROVE GoesOn(client)'
  BY <1>1, SamplesAssumption DEF GoesOn, Latest, PollingInv, Polling!Samples
<1> QED BY <1>1 DEF PollingInv, IsClient, ForThePage, Latest, PollingGoesOn, Polling!PollingGoesOn

\* A client with the query, the switches and the requests of another one.
Keeps(c, d) ==
  /\ IsClient(d) /\ d.filters = c.filters /\ d.enabled = c.enabled /\ d.paused = c.paused
  /\ d.current = c.current /\ d.requests = c.requests

\* A request that is sent is the latest.
Sends(c, r, d) ==
  /\ r.id = c.current + 1 /\ r.query = c.filters /\ r.full \in BOOLEAN /\ r.again \in BOOLEAN
  /\ d = [c EXCEPT !.current = @ + 1, !.loading = TRUE, !.error = FALSE, !.requests = @ \union {r}]

LEMMA SendHolds ==
  ASSUME NEW c, IsClient(c), NEW r, NEW d, Sends(c, r, d)
  PROVE  /\ IsClient(d) /\ d.filters = c.filters /\ d.enabled = c.enabled /\ d.paused = c.paused
         /\ d.tracks = c.tracks /\ d.booted = c.booted /\ d.armed = c.armed
         /\ d.requests = c.requests \union {r} /\ Latest(d) = {r}
         /\ \A q \in c.requests : q.id # r.id
<1>1. /\ d = [filters |-> c.filters, enabled |-> c.enabled, paused |-> c.paused, tracks |-> c.tracks,
              booted |-> c.booted, loading |-> TRUE, error |-> FALSE, armed |-> c.armed,
              current |-> c.current + 1, requests |-> c.requests \union {r}]
  BY DEF Sends, IsClient
<1>2. \A q \in c.requests : q.id # r.id
  BY DEF IsClient, Sends
<1>3. /\ r.id = c.current + 1 /\ r.full \in BOOLEAN /\ r.again \in BOOLEAN
      /\ c.enabled \in BOOLEAN /\ c.paused \in BOOLEAN /\ c.booted \in BOOLEAN /\ c.armed \in BOOLEAN
      /\ c.current \in Nat
      /\ \A q \in c.requests : q.id \in 1..c.current /\ q.full \in BOOLEAN /\ q.again \in BOOLEAN
  BY DEF IsClient, Sends
<1>4. /\ d.filters = c.filters /\ d.enabled = c.enabled /\ d.paused = c.paused
      /\ d.tracks = c.tracks /\ d.booted = c.booted /\ d.armed = c.armed /\ d.current = c.current + 1
      /\ d.requests = c.requests \union {r}
  BY <1>1
<1>5. \A q \in d.requests : q.id \in 1..d.current /\ q.full \in BOOLEAN /\ q.again \in BOOLEAN
  BY <1>3, <1>4
<1>6. d = [filters |-> d.filters, enabled |-> d.enabled, paused |-> d.paused, tracks |-> d.tracks,
           booted |-> d.booted, loading |-> d.loading, error |-> d.error, armed |-> d.armed,
           current |-> d.current, requests |-> d.requests]
  BY <1>1
<1>7. IsClient(d)
  BY <1>3, <1>4, <1>5, <1>6 DEF IsClient
<1>8. Latest(d) = {r}
  BY <1>2, <1>3, <1>4 DEF Latest
<1> QED BY <1>2, <1>4, <1>7, <1>8

\* The last sample of a history.
LEMMA LastOfHistory ==
  ASSUME NEW c, NEW q, NEW t \in Nat, t > 0, c.tracks = Polling!Samples(q, 1, t)
  PROVE  c.tracks # {} /\ Polling!LatestTimestamp(c) = t
<1> DEFINE tracks == Polling!Samples(q, 1, t)
<1>1. \A x : x \in tracks <=> \E i \in 1..t : x = <<q, i>>
  BY DEF Polling!Samples
<1>2. {x[2] : x \in tracks} = 1..t /\ tracks # {}
  <2> HIDE DEF tracks
  <2>1. \A i \in 1..t : <<q, i>> \in tracks /\ <<q, i>>[2] = i
    BY <1>1
  <2>2. \A x \in tracks : x[2] \in 1..t
    BY <1>1
  <2>3. 1 \in 1..t
    OBVIOUS
  <2> QED BY <2>1, <2>2, <2>3
<1>3. Polling!Max(1..t) = t
  BY DEF Polling!Max
<1> QED BY <1>2, <1>3 DEF Polling!LatestTimestamp

\* A page that is reset asks for everything that belongs to its query.
Anew(c, r) ==
  /\ IsClient(c) /\ c.tracks = {} /\ ~c.booted /\ c.enabled
  /\ \A p, q \in c.requests : p.id = q.id => p = q
  /\ r.from = 1 /\ r.again

LEMMA AnewHolds ==
  ASSUME NEW c, NEW r, Anew(c, r), NEW d, Sends(c, r, d)
  PROVE  /\ IsClient(d) /\ ForThePage(d) /\ d.tracks = {}
         /\ r \in d.requests /\ r.again /\ \A q \in Latest(d) : q.from = 1
<1>1. /\ IsClient(d) /\ d.filters = c.filters /\ d.enabled = c.enabled /\ d.tracks = c.tracks
      /\ d.requests = c.requests \union {r} /\ Latest(d) = {r} /\ \A q \in c.requests : q.id # r.id
  <2>1. IsClient(c)
    BY DEF Anew
  <2> QED BY <2>1, SendHolds
<1>2. ForThePage(d)
  BY <1>1 DEF ForThePage, Anew, Sends
<1> QED BY <1>1, <1>2 DEF Anew

\* The requests of the watchers are of this kind.
LEMMA FullRequest ==
  ASSUME NEW c, NEW d, d = Polling!Requested(c, TRUE, TRUE)
  PROVE  \E r : Sends(c, r, d) /\ r.from = 1 /\ r.again
<1>1. PICK r : r = [id |-> c.current + 1, query |-> c.filters, full |-> TRUE, again |-> TRUE, from |-> 1]
  OBVIOUS
<1>2. d = [c EXCEPT !.current = @ + 1, !.loading = TRUE, !.error = FALSE, !.requests = @ \union {r}]
  BY <1>1 DEF Polling!Requested
<1>3. r.id = c.current + 1 /\ r.query = c.filters /\ r.full = TRUE /\ r.again = TRUE /\ r.from = 1
  BY <1>1
<1> QED BY <1>2, <1>3 DEF Sends

LEMMA ResetRequest ==
  ASSUME NEW c, NEW d, d = Polling!Requested(c, FALSE, TRUE), ~c.booted
  PROVE  \E r : Sends(c, r, d) /\ r.from = 1 /\ r.again
<1>1. PICK r : r = [id |-> c.current + 1, query |-> c.filters, full |-> FALSE, again |-> TRUE, from |-> 1]
  OBVIOUS
<1>2. d = [c EXCEPT !.current = @ + 1, !.loading = TRUE, !.error = FALSE, !.requests = @ \union {r}]
  BY <1>1 DEF Polling!Requested
<1>3. r.id = c.current + 1 /\ r.query = c.filters /\ r.full = FALSE /\ r.again = TRUE /\ r.from = 1
  BY <1>1
<1> QED BY <1>2, <1>3 DEF Sends

\* Nothing is a history, too.
LEMMA EmptyGoesOn ==
  ASSUME samples \in Nat, NEW c, c.tracks = {}, \A r \in Latest(c) : r.from = 1 PROVE GoesOn(c)
<1>1. \A q : Polling!Samples(q, 1, 0) = {}
  BY DEF Polling!Samples
<1> QED BY <1>1 DEF GoesOn

\* watch(enabled), for each of its ways.
LEMMA EnabledWatchHolds ==
  ASSUME NEW c, IsClient(c), NEW d, d = Polling!EnabledWatch(c)
  PROVE  /\ ~c.enabled => Keeps(c, d) /\ d.tracks = c.tracks /\ ~d.booted /\ ~d.armed
         /\ c.enabled /\ c.booted => Keeps(c, d) /\ d.tracks = c.tracks /\ d.booted /\ d.armed = ~c.paused
         /\ c.enabled /\ ~c.booted =>
              \E b, r : /\ Keeps(c, b) /\ b.tracks = {} /\ ~b.booted /\ ~b.armed
                        /\ Sends(b, r, d) /\ r.from = 1 /\ r.again
<1>1. ASSUME ~c.enabled
      PROVE  Keeps(c, d) /\ d.tracks = c.tracks /\ ~d.booted /\ ~d.armed
  <2>1. d = [c EXCEPT !.armed = FALSE, !.booted = FALSE]
    BY <1>1, Zenon DEF Polling!EnabledWatch
  <2>2. d = [filters |-> c.filters, enabled |-> c.enabled, paused |-> c.paused, tracks |-> c.tracks, booted |-> FALSE,
           loading |-> c.loading, error |-> c.error, armed |-> FALSE, current |-> c.current, requests |-> c.requests]
    BY <2>1 DEF IsClient
  <2> QED BY <2>2 DEF IsClient, Keeps
<1>2. ASSUME c.enabled, c.booted
      PROVE  Keeps(c, d) /\ d.tracks = c.tracks /\ d.booted /\ d.armed = ~c.paused
  <2>1. d = Polling!Scheduled(c)
    BY <1>2, Zenon DEF Polling!EnabledWatch
  <2>2. d = [c EXCEPT !.armed = c.enabled /\ ~c.paused]
    BY <2>1, Zenon DEF Polling!Scheduled
  <2>3. PICK armed : armed = (c.enabled /\ ~c.paused)
    OBVIOUS
  <2>4. d = [filters |-> c.filters, enabled |-> c.enabled, paused |-> c.paused, tracks |-> c.tracks, booted |-> c.booted,
           loading |-> c.loading, error |-> c.error, armed |-> armed, current |-> c.current, requests |-> c.requests]
    BY <2>2, <2>3 DEF IsClient
  <2> QED BY <1>2, <2>3, <2>4 DEF IsClient, Keeps
<1>3. ASSUME c.enabled, ~c.booted
      PROVE  \E b, r : /\ Keeps(c, b) /\ b.tracks = {} /\ ~b.booted /\ ~b.armed
                       /\ Sends(b, r, d) /\ r.from = 1 /\ r.again
  <2>1. PICK z : z = Polling!Reset(c)
    OBVIOUS
  <2>2. PICK b : b = [z EXCEPT !.armed = FALSE]
    OBVIOUS
  <2>3. d = Polling!Requested(b, TRUE, TRUE)
    BY <1>3, <2>1, <2>2, Zenon DEF Polling!EnabledWatch
  <2>4. z = [c EXCEPT !.tracks = {}, !.error = FALSE, !.booted = FALSE]
    BY <2>1, Zenon DEF Polling!Reset
  <2>5. Keeps(c, b) /\ b.tracks = {} /\ ~b.booted /\ ~b.armed
    BY <2>2, <2>4 DEF IsClient, Keeps
  <2>6. \E r : Sends(b, r, d) /\ r.from = 1 /\ r.again
    BY <2>3, FullRequest
  <2> QED BY <2>5, <2>6
<1> QED BY <1>1, <1>2, <1>3

\* watch(filters) while the polling is on.
LEMMA FiltersWatchHolds ==
  ASSUME NEW c, IsClient(c), c.enabled, NEW d, d = Polling!FiltersWatch(c)
  PROVE  \E b, r : /\ Keeps(c, b) /\ b.tracks = {} /\ ~b.booted
                   /\ Sends(b, r, d) /\ r.from = 1 /\ r.again
<1>1. PICK b : b = Polling!Reset(c)
  OBVIOUS
<1>2. d = Polling!Requested(b, FALSE, TRUE)
  BY <1>1, Zenon DEF Polling!FiltersWatch
<1>3. b = [c EXCEPT !.tracks = {}, !.error = FALSE, !.booted = FALSE]
  BY <1>1, Zenon DEF Polling!Reset
<1>4. Keeps(c, b) /\ b.tracks = {} /\ ~b.booted /\ ~b.booted
  BY <1>3 DEF IsClient, Keeps
<1>5. \E r : Sends(b, r, d) /\ r.from = 1 /\ r.again
  BY <1>2, <1>4, ResetRequest
<1> QED BY <1>4, <1>5

\* A page that begins anew keeps the invariant.
LEMMA BeginsAnew ==
  ASSUME samples \in 0..MaxSamples, samples' = samples, disturbed' \in BOOLEAN,
         NEW c, NEW r, Anew(c, r), Sends(c, r, client')
  PROVE  PollingInv'
<1>1. PICK d : d = client'
  OBVIOUS
<1>2. /\ IsClient(d) /\ ForThePage(d) /\ d.tracks = {} /\ r \in d.requests /\ r.again
      /\ \A p \in Latest(d) : p.from = 1
  <2>1. Sends(c, r, d)
    BY <1>1
  <2> QED BY <2>1, AnewHolds
<1>3. d.enabled
  <2>1. Sends(c, r, d) /\ IsClient(c) /\ c.enabled
    BY <1>1 DEF Anew
  <2> QED BY <2>1, SendHolds
<1>4. GoesOn(d)'
  BY <1>2, SamplesAssumption DEF GoesOn, Latest, Polling!Samples
<1>5. (GoesOn(client))' /\ (ForThePage(client))' /\ (IsClient(client))' /\ client'.enabled
  BY <1>1, <1>2, <1>3, <1>4 DEF GoesOn, ForThePage, IsClient, Latest
<1>6. (PollingGoesOn)'
  BY <1>1, <1>2 DEF PollingGoesOn, Polling!PollingGoesOn
<1> QED BY <1>5, <1>6 DEF PollingInv

\* watch(enabled) and watch(filters) leave a client that goes on, or begin anew.
LEMMA ChangeHolds == ASSUME PollingInv, Polling!Change PROVE PollingInv'
<1>1. PICK q \in Queries, on \in BOOLEAN :
        LET changed == [client EXCEPT !.filters = q, !.enabled = on]
            first == IF on # client.enabled THEN Polling!EnabledWatch(changed) ELSE changed
            second == IF q # client.filters THEN Polling!FiltersWatch(first) ELSE first
        IN  /\ <<q, on>> # <<client.filters, client.enabled>> /\ second.current <= MaxRequests
            /\ client' = second /\ disturbed' = (disturbed /\ second.tracks # {})
            /\ UNCHANGED samples
  BY Zenon DEF Polling!Change
<1>2. PICK changed : changed = [client EXCEPT !.filters = q, !.enabled = on]
  OBVIOUS
<1>3. PICK first : first = IF on # client.enabled THEN Polling!EnabledWatch(changed) ELSE changed
  OBVIOUS
<1>4. PICK d : d = client'
  OBVIOUS
<1>5. /\ UNCHANGED samples /\ ~(q = client.filters /\ on = client.enabled)
      /\ d = IF q # client.filters THEN Polling!FiltersWatch(first) ELSE first
      /\ disturbed' = (disturbed /\ d.tracks # {})
  BY <1>1, <1>2, <1>3, <1>4, Zenon
<1>6. /\ IsClient(client) /\ ForThePage(client) /\ samples \in 0..MaxSamples
      /\ disturbed \in BOOLEAN
      /\ (~disturbed /\ ~client.enabled /\ client.booted => client.tracks = {})
  BY DEF PollingInv
<1>7. /\ client.enabled \in BOOLEAN /\ client.paused \in BOOLEAN /\ client.booted \in BOOLEAN
      /\ client.armed \in BOOLEAN /\ \A r, p \in client.requests : r.id = p.id => r = p
  BY <1>6 DEF IsClient, ForThePage
<1>8. /\ IsClient(changed) /\ changed.filters = q /\ changed.enabled = on
      /\ changed.paused = client.paused /\ changed.tracks = client.tracks
      /\ changed.booted = client.booted /\ changed.armed = client.armed
      /\ changed.current = client.current /\ changed.requests = client.requests
  BY <1>2, <1>6 DEF IsClient
<1>9. ASSUME NEW c, NEW r, Anew(c, r), Sends(c, r, d) PROVE PollingInv'
  <2>1. Sends(c, r, client') /\ disturbed' \in BOOLEAN
    BY <1>4, <1>5, <1>9
  <2> QED BY <1>5, <1>6, <1>9, <2>1, BeginsAnew
<1>10. ASSUME IsClient(first), first.enabled, q # client.filters,
              \A r, p \in first.requests : r.id = p.id => r = p
       PROVE  PollingInv'
  <2>1. d = Polling!FiltersWatch(first)
    BY <1>5, <1>10
  <2>2. PICK b, r : /\ Keeps(first, b) /\ b.tracks = {} /\ ~b.booted
                    /\ Sends(b, r, d) /\ r.from = 1 /\ r.again
    BY <1>10, <2>1, FiltersWatchHolds
  <2>3. Anew(b, r)
    BY <1>10, <2>2 DEF Anew, Keeps
  <2> QED BY <1>9, <2>2, <2>3
<1>11. CASE on /\ client.enabled
  <2>1. first = changed
    BY <1>3, <1>7, <1>11
  <2>2. q # client.filters
    BY <1>5, <1>7, <1>11
  <2> QED BY <1>7, <1>8, <1>10, <1>11, <2>1, <2>2
<1>12. CASE on /\ ~client.enabled /\ ~client.booted
  <2>1. first = Polling!EnabledWatch(changed)
    BY <1>3, <1>12
  <2>2. PICK b, r : /\ Keeps(changed, b) /\ b.tracks = {} /\ ~b.booted
                    /\ Sends(b, r, first) /\ r.from = 1 /\ r.again
    BY <1>8, <1>12, <2>1, EnabledWatchHolds
  <2>3. Anew(b, r)
    BY <1>7, <1>8, <1>12, <2>2 DEF Anew, Keeps
  <2>4. CASE q = client.filters
    BY <1>5, <1>9, <2>2, <2>3, <2>4
  <2>5. CASE q # client.filters
    <3>1. IsClient(b) /\ b.enabled /\ \A x, y \in b.requests : x.id = y.id => x = y
      BY <2>3 DEF Anew
    <3>2. /\ IsClient(first) /\ first.enabled = b.enabled /\ first.requests = b.requests \union {r}
          /\ \A x \in b.requests : x.id # r.id
      <4>1. IsClient(b) /\ Sends(b, r, first)
        BY <2>2, <3>1
      <4> QED BY <4>1, SendHolds
    <3> QED BY <1>10, <2>5, <3>1, <3>2
  <2> QED BY <2>4, <2>5
<1>13. CASE on /\ ~client.enabled /\ client.booted
  <2>1. first = Polling!EnabledWatch(changed)
    BY <1>3, <1>13
  <2>2. Keeps(changed, first) /\ first.tracks = changed.tracks /\ first.booted /\ first.armed = ~changed.paused
    BY <1>8, <1>13, <2>1, EnabledWatchHolds
  <2>3. /\ IsClient(first) /\ first.filters = q /\ first.enabled /\ first.paused = client.paused
        /\ first.tracks = client.tracks /\ first.booted = client.booted /\ first.armed = ~client.paused
        /\ first.current = client.current /\ first.requests = client.requests
    BY <1>7, <1>8, <1>13, <2>2 DEF Keeps
  <2>4. CASE q # client.filters
    BY <1>7, <1>10, <2>3, <2>4
  <2>5. CASE q = client.filters
    <3>1. d = first
      BY <1>5, <2>5
    <3>2. Latest(d) = {} /\ ForThePage(d)
      <4>1. Latest(client) = {}
        BY <1>6, <1>13 DEF ForThePage
      <4> QED BY <1>7, <2>3, <3>1, <4>1 DEF ForThePage, Latest
    <3>3. ~disturbed' => d.tracks = {}
      BY <1>5, <1>6, <1>13, <2>3, <3>1
    <3>4. ~disturbed' => GoesOn(d)'
      BY <1>5, <1>6, <3>2, <3>3, SamplesAssumption DEF GoesOn, Latest, Polling!Samples
    <3>5. (IsClient(client))' /\ (ForThePage(client))' /\ client'.enabled
      BY <1>4, <2>3, <3>1, <3>2 DEF ForThePage, IsClient, Latest
    <3>6. ~disturbed' => (GoesOn(client))'
      BY <1>4, <3>4 DEF GoesOn, Latest
    <3>7. (PollingGoesOn)'
      BY <1>4, <2>3, <3>1 DEF PollingGoesOn, Polling!PollingGoesOn
    <3> QED BY <1>5, <1>6, <3>5, <3>6, <3>7 DEF PollingInv
  <2> QED BY <2>4, <2>5
<1>14. CASE ~on
  <2>1. /\ IsClient(first) /\ ~first.enabled /\ first.tracks = client.tracks
        /\ first.current = client.current /\ first.requests = client.requests
        /\ first.armed => client.armed /\ ~client.enabled
        /\ first.booted => client.booted /\ ~client.enabled
    <3>1. CASE client.enabled
      <4>1. first = Polling!EnabledWatch(changed)
        BY <1>3, <1>14, <3>1
      <4>2. Keeps(changed, first) /\ first.tracks = changed.tracks /\ ~first.booted /\ ~first.armed
        BY <1>8, <1>14, <4>1, EnabledWatchHolds
      <4> QED BY <1>7, <1>8, <1>14, <4>2 DEF Keeps
    <3>2. CASE ~client.enabled
      <4>1. first = changed
        BY <1>3, <1>7, <1>14, <3>2
      <4> QED BY <1>7, <1>8, <1>14, <3>2, <4>1
    <3> QED BY <3>1, <3>2
  <2>2. d = first
    <3>1. Polling!FiltersWatch(first) = first
      BY <2>1, Zenon DEF Polling!FiltersWatch
    <3> QED BY <1>5, <3>1
  <2>3. ~d.armed /\ ForThePage(d)
    BY <1>6, <2>1, <2>2 DEF ForThePage, Latest
  <2>4. ~disturbed' /\ d.booted => d.tracks = {}
    BY <1>5, <1>6, <2>1, <2>2
  <2>5. (IsClient(client))' /\ (ForThePage(client))' /\ ~client'.enabled
        /\ (~disturbed' /\ client'.booted => client'.tracks = {})
    BY <1>4, <2>1, <2>2, <2>3, <2>4 DEF ForThePage, IsClient, Latest
  <2> QED BY <1>5, <1>6, <2>5 DEF PollingInv, PollingGoesOn, Polling!PollingGoesOn
<1> QED BY <1>7, <1>11, <1>12, <1>13, <1>14

\* togglePause: the timer is set again, or cleared.
LEMMA TogglePauseHolds == ASSUME PollingInv, Polling!TogglePause PROVE PollingInv'
<1>1. PICK toggled : toggled = [client EXCEPT !.paused = ~@]
  OBVIOUS
<1>2. PICK d : d = client'
  OBVIOUS
<1>3. UNCHANGED <<samples, disturbed>> /\ d = IF client.enabled THEN Polling!Scheduled(toggled) ELSE toggled
  BY <1>1, <1>2, Zenon DEF Polling!TogglePause
<1>4. IsClient(client) /\ ForThePage(client)
  BY DEF PollingInv
<1>5. /\ IsClient(toggled) /\ toggled.filters = client.filters /\ toggled.enabled = client.enabled
      /\ toggled.tracks = client.tracks /\ toggled.booted = client.booted /\ toggled.armed = client.armed
      /\ toggled.current = client.current /\ toggled.requests = client.requests
  BY <1>1, <1>4 DEF IsClient
<1>6. /\ IsClient(d) /\ d.filters = client.filters /\ d.enabled = client.enabled
      /\ d.tracks = client.tracks /\ d.booted = client.booted
      /\ d.current = client.current /\ d.requests = client.requests
      /\ (d.enabled => (d.armed <=> ~d.paused)) /\ (~d.enabled => ~d.armed)
  <2>1. CASE client.enabled
    <3>1. d = [toggled EXCEPT !.armed = toggled.enabled /\ ~toggled.paused]
      BY <1>3, <2>1, Zenon DEF Polling!Scheduled
    <3>2. PICK armed : armed = (toggled.enabled /\ ~toggled.paused)
      OBVIOUS
    <3>3. d = [filters |-> toggled.filters, enabled |-> toggled.enabled, paused |-> toggled.paused,
               tracks |-> toggled.tracks, booted |-> toggled.booted, loading |-> toggled.loading,
               error |-> toggled.error, armed |-> armed, current |-> toggled.current, requests |-> toggled.requests]
      BY <1>5, <3>1, <3>2 DEF IsClient
    <3> QED BY <1>5, <2>1, <3>2, <3>3 DEF IsClient
  <2>2. CASE ~client.enabled
    BY <1>3, <1>4, <1>5, <2>2 DEF ForThePage
  <2> QED BY <2>1, <2>2
<1>7. ForThePage(d) /\ Latest(d) = Latest(client)
  BY <1>4, <1>6 DEF ForThePage, Latest
<1>8. (IsClient(client))' /\ (ForThePage(client))'
  BY <1>2, <1>6, <1>7 DEF IsClient, ForThePage, Latest
<1>9. ASSUME GoesOn(client) PROVE (GoesOn(client))'
  BY <1>2, <1>3, <1>6, <1>7, <1>9 DEF GoesOn, Latest, Polling!Samples
<1>10. (PollingGoesOn)'
  BY <1>2, <1>6 DEF PollingGoesOn, Polling!PollingGoesOn
<1> QED BY <1>2, <1>3, <1>6, <1>8, <1>9, <1>10 DEF PollingInv

\* The next request of a page goes on with what is there.
LEMMA NextRequestHolds ==
  ASSUME PollingInv, samples' = samples, disturbed' \in BOOLEAN, ~disturbed' => ~disturbed,
         client.enabled, NEW c, Keeps(client, c), c.tracks = client.tracks,
         NEW r, Sends(c, r, client'), r.full => r.from = 1, r.again \/ c.armed = client.armed,
         ~disturbed' => r.from = 1 \/ \E t \in 1..samples : c.tracks = Polling!Samples(c.filters, 1, t) /\ r.from = t
  PROVE  PollingInv'
<1>1. PICK d : d = client'
  OBVIOUS
<1>2. /\ IsClient(client) /\ ForThePage(client) /\ samples \in 0..MaxSamples
      /\ (~disturbed => GoesOn(client))
  BY DEF PollingInv
<1>3. /\ IsClient(d) /\ d.filters = c.filters /\ d.enabled = c.enabled /\ d.paused = c.paused
      /\ d.tracks = c.tracks /\ d.booted = c.booted /\ d.armed = c.armed
      /\ d.requests = c.requests \union {r} /\ Latest(d) = {r}
      /\ \A q \in c.requests : q.id # r.id
  <2>1. Sends(c, r, d) /\ IsClient(c)
    BY <1>1 DEF Keeps
  <2> QED BY <2>1, SendHolds
<1>4. c.filters = client.filters /\ c.enabled = client.enabled /\ c.paused = client.paused
      /\ c.requests = client.requests /\ r.query = c.filters
  BY DEF Keeps, Sends
<1>5. ForThePage(d)
  BY <1>2, <1>3, <1>4 DEF ForThePage
<1>6. ASSUME ~disturbed' PROVE (GoesOn(d))'
  <2>1. CASE r.from = 1
    <3>1. PICK t \in 0..samples : client.tracks = Polling!Samples(client.filters, 1, t)
      BY <1>2, <1>6 DEF GoesOn
    <3> QED BY <1>3, <1>4, <2>1, <3>1 DEF GoesOn, Latest, Polling!Samples
  <2>2. CASE r.from # 1
    <3>1. PICK t \in 1..samples : c.tracks = Polling!Samples(c.filters, 1, t) /\ r.from = t
      BY <1>6, <2>2
    <3>2. t \in 0..samples /\ t > 0
      BY <1>2, SamplesAssumption
    <3> QED BY <1>3, <1>4, <3>1, <3>2 DEF GoesOn, Latest, Polling!Samples
  <2> QED BY <2>1, <2>2
<1>7. (IsClient(client))' /\ (ForThePage(client))' /\ client'.enabled
  BY <1>1, <1>3, <1>4, <1>5 DEF IsClient, ForThePage, Latest
<1>8. ASSUME ~disturbed' PROVE (GoesOn(client))'
  BY <1>1, <1>6, <1>8 DEF GoesOn, Latest
<1>9. (PollingGoesOn)'
  <2>1. client.paused \/ client.armed \/ \E q \in client.requests : q.again
    BY DEF PollingInv, PollingGoesOn, Polling!PollingGoesOn
  <2>2. d.paused \/ d.armed \/ \E q \in d.requests : q.again
    <3>1. CASE r.again
      BY <1>3, <3>1
    <3>2. CASE ~r.again
      BY <1>3, <1>4, <2>1, <3>2
    <3> QED BY <3>1, <3>2
  <2> QED BY <1>1, <2>2 DEF PollingGoesOn, Polling!PollingGoesOn
<1> QED BY <1>2, <1>7, <1>8, <1>9 DEF PollingInv

\* refreshFull
LEMMA RefreshFullHolds == ASSUME PollingInv, Polling!RefreshFull PROVE PollingInv'
<1>1. PICK r : r = [id |-> client.current + 1, query |-> client.filters, full |-> TRUE, again |-> FALSE, from |-> 1]
  OBVIOUS
<1>2. PICK d : d = client'
  OBVIOUS
<1>3. PICK c : c = client
  OBVIOUS
<1>4. d = [c EXCEPT !.current = @ + 1, !.loading = TRUE, !.error = FALSE, !.requests = @ \union {r}]
  BY <1>1, <1>2, <1>3 DEF Polling!RefreshFull, Polling!Requested
<1>5. r.id = c.current + 1 /\ r.query = c.filters /\ r.full = TRUE /\ r.again = FALSE /\ r.from = 1
  BY <1>1, <1>3
<1>6. Sends(c, r, client')
  BY <1>2, <1>4, <1>5 DEF Sends
<1>7. Keeps(client, c) /\ c.tracks = client.tracks /\ c.armed = client.armed
  BY <1>3 DEF PollingInv, Keeps
<1>8. client.enabled /\ samples' = samples /\ disturbed' = disturbed /\ disturbed \in BOOLEAN
  BY DEF Polling!RefreshFull, PollingInv
<1>9. r.full => r.from = 1
  BY <1>5
<1> QED BY <1>5, <1>6, <1>7, <1>8, <1>9, NextRequestHolds

\* The timer fires.
LEMMA BoundaryHolds == ASSUME PollingInv, Polling!Boundary PROVE PollingInv'
<1>1. PICK c : c = [client EXCEPT !.armed = FALSE]
  OBVIOUS
<1>2. /\ client.armed /\ samples' = samples /\ disturbed' = (disturbed \/ (client.booted /\ client.tracks = {}))
      /\ client' = Polling!Requested(c, FALSE, TRUE)
  BY <1>1, Zenon DEF Polling!Boundary
<1>3. /\ IsClient(client) /\ client.enabled /\ samples \in 0..MaxSamples /\ disturbed \in BOOLEAN
      /\ (~disturbed => GoesOn(client))
  BY <1>2 DEF PollingInv, ForThePage
<1>4. Keeps(client, c) /\ c.tracks = client.tracks /\ c.booted = client.booted /\ ~c.armed
  BY <1>1, <1>3 DEF Keeps, IsClient
<1>5. PICK from : from = IF ~c.booted THEN 1 ELSE Polling!LatestTimestamp(c)
  OBVIOUS
<1>6. PICK r : r = [id |-> c.current + 1, query |-> c.filters, full |-> FALSE, again |-> TRUE, from |-> from]
  OBVIOUS
<1>7. PICK d : d = client'
  OBVIOUS
<1>8. d = [c EXCEPT !.current = @ + 1, !.loading = TRUE, !.error = FALSE, !.requests = @ \union {r}]
  BY <1>2, <1>5, <1>6, <1>7 DEF Polling!Requested
<1>9. r.id = c.current + 1 /\ r.query = c.filters /\ r.full = FALSE /\ r.again = TRUE /\ r.from = from
  BY <1>6
<1>10. Sends(c, r, client')
  BY <1>7, <1>8, <1>9 DEF Sends
<1>11. ASSUME ~disturbed', r.from # 1
       PROVE  \E t \in 1..samples : c.tracks = Polling!Samples(c.filters, 1, t) /\ r.from = t
  <2>1. c.booted /\ r.from = Polling!LatestTimestamp(c) /\ c.tracks # {} /\ ~disturbed
    BY <1>2, <1>4, <1>5, <1>9, <1>11
  <2>2. PICK t \in 0..samples : client.tracks = Polling!Samples(client.filters, 1, t)
    BY <1>3, <2>1 DEF GoesOn
  <2>3. c.tracks = Polling!Samples(c.filters, 1, t)
    BY <1>4, <2>2 DEF Keeps
  <2>4. t # 0
    BY <2>1, <2>3 DEF Polling!Samples
  <2>5. t \in 1..samples /\ t \in Nat /\ t > 0
    BY <1>3, <2>2, <2>4, SamplesAssumption
  <2>6. Polling!LatestTimestamp(c) = t
    BY <2>3, <2>5, LastOfHistory
  <2> QED BY <2>1, <2>3, <2>5, <2>6
<1>12. disturbed' \in BOOLEAN /\ (~disturbed' => ~disturbed)
  BY <1>2, <1>3
<1>13. r.again /\ (r.full => r.from = 1)
  BY <1>9
<1> QED BY <1>2, <1>3, <1>4, <1>10, <1>11, <1>12, <1>13, NextRequestHolds

\* A request is over.
LEMMA AfterHolds ==
  ASSUME NEW c, IsClient(c), NEW r \in c.requests, NEW d, d = Polling!After(c, r)
  PROVE  /\ IsClient(d) /\ d.filters = c.filters /\ d.enabled = c.enabled /\ d.paused = c.paused
         /\ d.tracks = c.tracks /\ d.booted = c.booted /\ d.current = c.current
         /\ d.requests = c.requests \ {r}
         /\ r.again => (d.armed <=> c.enabled /\ ~c.paused)
         /\ ~r.again => d.armed = c.armed
<1>1. PICK over : over = [c EXCEPT !.loading = FALSE, !.requests = @ \ {r}]
  OBVIOUS
<1>2. d = IF r.again THEN Polling!Scheduled(over) ELSE over
  BY <1>1, Zenon DEF Polling!After
<1>3. over = [filters |-> c.filters, enabled |-> c.enabled, paused |-> c.paused, tracks |-> c.tracks,
              booted |-> c.booted, loading |-> FALSE, error |-> c.error, armed |-> c.armed,
              current |-> c.current, requests |-> c.requests \ {r}]
  BY <1>1 DEF IsClient
<1>4. IsClient(over)
  BY <1>3 DEF IsClient
<1>5. r.again \in BOOLEAN
  BY DEF IsClient
<1>6. CASE r.again
  <2>1. d = [over EXCEPT !.armed = over.enabled /\ ~over.paused]
    BY <1>2, <1>6, Zenon DEF Polling!Scheduled
  <2>2. PICK armed : armed = (over.enabled /\ ~over.paused)
    OBVIOUS
  <2>3. d = [filters |-> over.filters, enabled |-> over.enabled, paused |-> over.paused, tracks |-> over.tracks,
             booted |-> over.booted, loading |-> over.loading, error |-> over.error, armed |-> armed,
             current |-> over.current, requests |-> over.requests]
    BY <1>4, <2>1, <2>2 DEF IsClient
  <2>4. armed \in BOOLEAN /\ over.requests = c.requests \ {r} /\ over.current = c.current
    BY <1>3, <2>2
  <2>5. /\ d.filters = over.filters /\ d.enabled = over.enabled /\ d.paused = over.paused
        /\ d.tracks = over.tracks /\ d.booted = over.booted /\ d.current = over.current
        /\ d.requests = over.requests /\ d.armed = armed
    BY <2>3
  <2>6. IsClient(d)
    BY <1>4, <2>3, <2>4, <2>5 DEF IsClient
  <2>7. d.armed <=> over.enabled /\ ~over.paused
    BY <2>2, <2>5
  <2> QED BY <1>3, <1>6, <2>4, <2>5, <2>6, <2>7
<1>7. CASE ~r.again
  BY <1>2, <1>3, <1>4, <1>7
<1> QED BY <1>5, <1>6, <1>7

\* What remains when a request is over: the page goes on if its tracks do.
LEMMA OverHolds ==
  ASSUME PollingInv, samples' = samples, disturbed' \in BOOLEAN,
         NEW r \in client.requests, NEW c, Keeps(client, c), c.armed = client.armed,
         c.booted = client.booted \/ r.id = client.current,
         client' = Polling!After(c, r),
         ~disturbed' /\ client.enabled =>
           \E t \in 0..samples : /\ c.tracks = Polling!Samples(client.filters, 1, t)
                                 /\ \A p \in Latest(client) \ {r} : p.from = 1 \/ (t > 0 /\ p.from = t),
         ~disturbed' /\ ~client.enabled /\ c.booted => c.tracks = {}
  PROVE  PollingInv'
<1>1. PICK d : d = client'
  OBVIOUS
<1>2. IsClient(client) /\ ForThePage(client) /\ samples \in 0..MaxSamples
  BY DEF PollingInv
<1>3. /\ IsClient(c) /\ c.filters = client.filters /\ c.enabled = client.enabled /\ c.paused = client.paused
      /\ c.current = client.current /\ c.requests = client.requests
  BY DEF Keeps
<1>4. /\ IsClient(d) /\ d.filters = c.filters /\ d.enabled = c.enabled /\ d.paused = c.paused
      /\ d.tracks = c.tracks /\ d.booted = c.booted /\ d.current = c.current
      /\ d.requests = c.requests \ {r}
      /\ r.again => (d.armed <=> c.enabled /\ ~c.paused)
      /\ ~r.again => d.armed = c.armed
  <2>1. r \in c.requests /\ d = Polling!After(c, r)
    BY <1>1, <1>3
  <2> QED BY <1>3, <2>1, AfterHolds
<1>5. Latest(d) = Latest(client) \ {r}
  BY <1>3, <1>4 DEF Latest
<1>6. ForThePage(d)
  <2>1. \A p, q \in d.requests : p.id = q.id => p = q
    BY <1>2, <1>3, <1>4 DEF ForThePage
  <2>2. d.armed => d.enabled
    BY <1>2, <1>3, <1>4 DEF ForThePage
  <2>3. d.enabled => \A p \in Latest(d) : p.query = d.filters /\ (p.full => p.from = 1)
    BY <1>2, <1>3, <1>4, <1>5 DEF ForThePage
  <2>4. ~d.enabled /\ d.booted => Latest(d) = {}
    <3>1. CASE r.id = client.current
      BY <1>2, <1>5, <3>1 DEF ForThePage, Latest
    <3>2. CASE d.booted = client.booted
      BY <1>2, <1>3, <1>4, <1>5, <3>2 DEF ForThePage
    <3> QED BY <1>4, <3>1, <3>2
  <2> QED BY <2>1, <2>2, <2>3, <2>4 DEF ForThePage
<1>7. (IsClient(client))' /\ (ForThePage(client))'
  BY <1>1, <1>4, <1>6 DEF IsClient, ForThePage, Latest
<1>8. ASSUME ~disturbed', client'.enabled PROVE (GoesOn(client))'
  <2>1. PICK t \in 0..samples : /\ c.tracks = Polling!Samples(client.filters, 1, t)
                                /\ \A p \in Latest(client) \ {r} : p.from = 1 \/ (t > 0 /\ p.from = t)
    BY <1>1, <1>3, <1>4, <1>8
  <2>2. (GoesOn(d))'
    BY <1>3, <1>4, <1>5, <2>1 DEF GoesOn, Latest, Polling!Samples
  <2> QED BY <1>1, <2>2 DEF GoesOn, Latest
<1>9. ASSUME ~disturbed', ~client'.enabled, client'.booted PROVE client'.tracks = {}
  BY <1>1, <1>3, <1>4, <1>9
<1>10. (PollingGoesOn)'
  <2>1. client.enabled /\ ~client.paused => client.armed \/ \E q \in client.requests : q.again
    BY DEF PollingInv, PollingGoesOn, Polling!PollingGoesOn
  <2>2. d.enabled /\ ~d.paused => d.armed \/ \E q \in d.requests : q.again
    <3>1. CASE r.again
      BY <1>3, <1>4, <3>1
    <3>2. CASE ~r.again
      BY <1>3, <1>4, <2>1, <3>2
    <3> QED BY <3>1, <3>2
  <2> QED BY <1>1, <2>2 DEF PollingGoesOn, Polling!PollingGoesOn
<1> QED BY <1>2, <1>7, <1>8, <1>9, <1>10 DEF PollingInv

\* A request that is refused, or lost.
LEMMA RejectedHolds == ASSUME PollingInv, Polling!Rejected PROVE PollingInv'
<1>1. PICK r \in client.requests : /\ client' = Polling!After([client EXCEPT !.error = TRUE], r)
                                   /\ UNCHANGED <<samples, disturbed>>
  BY Zenon DEF Polling!Rejected
<1>2. PICK c : c = [client EXCEPT !.error = TRUE]
  OBVIOUS
<1>3. client' = Polling!After(c, r)
  BY <1>1, <1>2
<1>4. /\ IsClient(client) /\ disturbed \in BOOLEAN /\ (~disturbed /\ client.enabled => GoesOn(client))
      /\ (~disturbed /\ ~client.enabled /\ client.booted => client.tracks = {})
  BY DEF PollingInv
<1>5. Keeps(client, c) /\ c.armed = client.armed /\ c.booted = client.booted /\ c.tracks = client.tracks
  BY <1>2, <1>4 DEF IsClient, Keeps
<1>6. samples' = samples /\ disturbed' = disturbed /\ disturbed' \in BOOLEAN
  BY <1>1, <1>4
<1>7. ASSUME ~disturbed', client.enabled
      PROVE  \E t \in 0..samples : /\ c.tracks = Polling!Samples(client.filters, 1, t)
                                   /\ \A p \in Latest(client) \ {r} : p.from = 1 \/ (t > 0 /\ p.from = t)
  BY <1>4, <1>5, <1>6, <1>7 DEF GoesOn
<1>8. ASSUME ~disturbed', ~client.enabled, c.booted PROVE c.tracks = {}
  BY <1>4, <1>5, <1>6, <1>8
<1> QED BY <1>3, <1>5, <1>6, <1>7, <1>8, OverHolds

\* An answer: that of the latest request completes the history on the page.
LEMMA AnswerHolds == ASSUME PollingInv, Polling!Answer PROVE PollingInv'
<1>1. PICK r \in client.requests :
        /\ client' = Polling!After(Polling!Taken(client, r), r)
        /\ disturbed' = IF Polling!Accepted(client, r) /\ ~client.enabled THEN TRUE
                        ELSE disturbed /\ ~(Polling!Accepted(client, r) /\ r.full)
        /\ UNCHANGED samples
  BY Zenon DEF Polling!Answer
<1>2. PICK c : c = Polling!Taken(client, r)
  OBVIOUS
<1>3. client' = Polling!After(c, r) /\ samples' = samples
  BY <1>1, <1>2
<1>4. /\ IsClient(client) /\ ForThePage(client) /\ samples \in 0..MaxSamples /\ disturbed \in BOOLEAN
      /\ (~disturbed /\ client.enabled => GoesOn(client))
      /\ (~disturbed /\ ~client.enabled /\ client.booted => client.tracks = {})
  BY DEF PollingInv
<1>5. r.full \in BOOLEAN
  BY <1>4 DEF IsClient
<1>6. disturbed' \in BOOLEAN
  BY <1>1, <1>4
<1>7. CASE r.id # client.current
  <2>1. c = client
    BY <1>2, <1>7 DEF Polling!Taken, Polling!Accepted
  <2>2. disturbed' = disturbed
    BY <1>1, <1>4, <1>7 DEF Polling!Accepted
  <2>3. Keeps(client, c) /\ c.armed = client.armed /\ c.booted = client.booted /\ c.tracks = client.tracks
    BY <1>4, <2>1 DEF Keeps
  <2>4. ASSUME ~disturbed', client.enabled
        PROVE  \E t \in 0..samples : /\ c.tracks = Polling!Samples(client.filters, 1, t)
                                     /\ \A p \in Latest(client) \ {r} : p.from = 1 \/ (t > 0 /\ p.from = t)
    BY <1>4, <2>2, <2>3, <2>4 DEF GoesOn
  <2>5. ASSUME ~disturbed', ~client.enabled, c.booted PROVE c.tracks = {}
    BY <1>4, <2>2, <2>3, <2>5
  <2> QED BY <1>3, <1>6, <2>3, <2>4, <2>5, OverHolds
<1>8. CASE r.id = client.current
  <2>1. PICK tracks : tracks = (IF r.full THEN {} ELSE client.tracks) \union Polling!Samples(r.query, r.from, samples)
    OBVIOUS
  <2>2. c = [client EXCEPT !.tracks = (IF r.full THEN {} ELSE @) \union Polling!Samples(r.query, r.from, samples),
                           !.booted = TRUE]
    BY <1>2, <1>8, Zenon DEF Polling!Taken, Polling!Accepted
  <2>3. c = [filters |-> client.filters, enabled |-> client.enabled, paused |-> client.paused,
             tracks |-> tracks, booted |-> TRUE, loading |-> client.loading, error |-> client.error,
             armed |-> client.armed, current |-> client.current, requests |-> client.requests]
    BY <1>4, <2>1, <2>2 DEF IsClient
  <2>4. Keeps(client, c) /\ c.armed = client.armed /\ c.tracks = tracks
    BY <1>4, <2>3 DEF IsClient, Keeps
  <2>5. disturbed' = IF ~client.enabled THEN TRUE ELSE disturbed /\ ~r.full
    BY <1>1, <1>8 DEF Polling!Accepted
  <2>6. r \in Latest(client) /\ \A p \in Latest(client) : p = r
    BY <1>4, <1>8 DEF Latest, ForThePage
  <2>7. ASSUME ~disturbed', client.enabled
        PROVE  \E t \in 0..samples : /\ c.tracks = Polling!Samples(client.filters, 1, t)
                                     /\ \A p \in Latest(client) \ {r} : p.from = 1 \/ (t > 0 /\ p.from = t)
    <3>1. r.query = client.filters /\ (r.full => r.from = 1)
      BY <1>4, <2>6, <2>7 DEF ForThePage
    <3>2. samples \in Nat /\ samples \in 0..samples
      BY <1>4, SamplesAssumption
    <3>3. tracks = Polling!Samples(client.filters, 1, samples)
      <4>1. CASE r.full
        BY <2>1, <3>1, <4>1
      <4>2. CASE ~r.full
        <5>1. ~disturbed
          BY <1>4, <2>5, <2>7, <4>2
        <5>2. PICK t \in 0..samples : /\ client.tracks = Polling!Samples(client.filters, 1, t)
                                      /\ r.from = 1 \/ (t > 0 /\ r.from = t)
          BY <1>4, <2>6, <2>7, <5>1 DEF GoesOn
        <5>3. (1..t) \union (r.from..samples) = 1..samples
          BY <3>2, <5>2
        <5>4. tracks = Polling!Samples(client.filters, 1, t) \union Polling!Samples(client.filters, r.from, samples)
          BY <2>1, <3>1, <4>2, <5>2
        <5>5. PICK q : q = client.filters
          OBVIOUS
        <5>6. PICK from : from = r.from
          OBVIOUS
        <5>7. tracks = {<<q, x>> : x \in 1..t} \union {<<q, x>> : x \in from..samples}
          BY <5>4, <5>5, <5>6 DEF Polling!Samples
        <5>8. \A x : x \in 1..samples <=> x \in 1..t \/ x \in from..samples
          BY <5>3, <5>6
        <5>9. {<<q, x>> : x \in 1..t} \union {<<q, x>> : x \in from..samples} = {<<q, x>> : x \in 1..samples}
          BY <5>8, Zenon
        <5> QED BY <5>5, <5>7, <5>9 DEF Polling!Samples
      <4> QED BY <1>5, <4>1, <4>2
    <3> QED BY <2>4, <2>6, <3>2, <3>3
  <2>8. ASSUME ~disturbed', ~client.enabled, c.booted PROVE c.tracks = {}
    BY <2>5, <2>8
  <2> QED BY <1>3, <1>6, <1>8, <2>4, <2>7, <2>8, OverHolds
<1> QED BY <1>7, <1>8

\* The server has another sample.
LEMMA PollingHolds == ASSUME PollingInv, Polling!Next PROVE PollingInv'
<1>1. CASE Polling!Publish
  <2>1. samples \in 0..MaxSamples /\ MaxSamples \in Nat
    BY SamplesAssumption DEF PollingInv
  <2>2. samples' \in 0..MaxSamples /\ samples <= samples' /\ UNCHANGED <<client, disturbed>>
    BY <1>1, <2>1 DEF Polling!Publish
  <2> QED BY <2>2, PollingFrameHolds
<1> QED BY <1>1, ChangeHolds, TogglePauseHolds, RefreshFullHolds, BoundaryHolds, AnswerHolds, RejectedHolds
        DEF Polling!Next

LEMMA PollingInitHolds == ASSUME Polling!Init PROVE PollingInv
<1>1. /\ samples \in 0..1 /\ disturbed = FALSE
      /\ client \in [filters : Queries, enabled : {FALSE}, paused : {FALSE}, tracks : {{}}, booted : {FALSE},
                     loading : {FALSE}, error : {FALSE}, armed : {FALSE}, current : {0}, requests : {{}}]
  BY DEF Polling!Init
<1>2. PICK q : client = [filters |-> q, enabled |-> FALSE, paused |-> FALSE, tracks |-> {}, booted |-> FALSE,
                         loading |-> FALSE, error |-> FALSE, armed |-> FALSE, current |-> 0, requests |-> {}]
  BY <1>1
<1>3. /\ client.enabled = FALSE /\ client.paused = FALSE /\ client.booted = FALSE /\ client.armed = FALSE
      /\ client.tracks = {} /\ client.current = 0 /\ client.requests = {}
  BY <1>2
<1>4. IsClient(client)
  BY <1>2, <1>3 DEF IsClient
<1>5. ForThePage(client)
  BY <1>3 DEF ForThePage, Latest
<1>6. PollingGoesOn
  BY <1>3 DEF PollingGoesOn, Polling!PollingGoesOn
<1>7. samples \in 0..MaxSamples
  BY <1>1, SamplesAssumption
<1>8. disturbed \in BOOLEAN
  BY <1>1
<1> QED BY <1>3, <1>4, <1>5, <1>6, <1>7, <1>8 DEF PollingInv

LEMMA PollingTells == ASSUME PollingInv PROVE TracksAreOneHistoryUnlessDisturbed
<1>1. ASSUME ~disturbed, client.enabled
      PROVE  \E t \in 0..MaxSamples : client.tracks = Polling!Samples(client.filters, 1, t)
  <2>1. PICK t \in 0..samples : client.tracks = Polling!Samples(client.filters, 1, t)
    BY <1>1 DEF PollingInv, GoesOn
  <2>2. t \in 0..MaxSamples
    BY SamplesAssumption DEF PollingInv
  <2> QED BY <2>1, <2>2
<1> QED BY <1>1 DEF TracksAreOneHistoryUnlessDisturbed, Polling!TracksAreOneHistoryUnlessDisturbed,
               Polling!TracksAreOneHistory

-----------------------------------------------------------------------------
\* The form.  What is stored is what is on the page; a page that computes or shows a plan can no
\* longer change the form that it is for.
IsForm(f) ==
  /\ f = [power |-> f.power, skills |-> f.skills, target |-> f.target]
  /\ f.power \in Nat /\ f.skills \in Nat

IsPage(p) ==
  /\ p = [view |-> p.view, form |-> p.form, shared |-> p.shared, defaults |-> p.defaults, step |-> p.step,
          metadata |-> p.metadata, computing |-> p.computing, error |-> p.error, result |-> p.result,
          timers |-> p.timers, alternative |-> p.alternative, early |-> p.early]
  /\ IsForm(p.form) /\ (p.form.target \in Nat \/ (p.view = "auto" /\ p.form.target = -1))
  /\ p.defaults \in Nat /\ p.shared \in BOOLEAN
  /\ p.shared => p.view = "auto"
  /\ p.step \in 1..3 /\ (p.view = "auto" => p.step = 1)
  /\ p.computing \in BOOLEAN /\ p.error \in BOOLEAN /\ p.early \in BOOLEAN

\* The plan of the third step: it is being computed, or that of the form.
PlanOf(p) ==
  p.step = 3 /\ ~p.error =>
    /\ p.computing => p.early \/ p.alternative = -1
    /\ ~p.computing => /\ p.result = Form!Analyzed(p.form)
                       /\ p.early \/ p.alternative \in -1 .. p.form.target - 1

\* The power the form should have.
PowerFrom(t) == IF t.restored = 0 THEN t.power ELSE t.restored

IsTyped(f, t) ==
  /\ t = [power |-> t.power, skills |-> t.skills, target |-> t.target, restored |-> t.restored]
  /\ t.target \in Nat /\ f.power = PowerFrom(t) /\ f.skills = t.skills
  /\ f.target = t.target \/ (f.target = -1 /\ t.target = 1)

\* What is stored of a form: all of it, or as long as it is the default's, the skills alone.
StoredOf(s, f, t) ==
  \/ s = f
  \/ /\ s = [power |-> -1, skills |-> f.skills, target |-> -1]
     /\ f.power = 0 /\ t.target = 1

IsFetcher(f) == f = [loading |-> f.loading, error |-> f.error, requests |-> f.requests] /\ f.requests \subseteq Teams

FormInv ==
  /\ IsPage(page) /\ PlanOf(page) /\ IsTyped(page.form, typed) /\ IsFetcher(fetcher)
  /\ StoredOf(storage, page.form, typed)
  /\ page.step # 1 => fetcher.requests = {}

LEMMA FormFrameHolds == ASSUME FormInv, UNCHANGED form PROVE FormInv'
BY DEF FormInv, form, IsPage, IsForm, PlanOf, IsTyped, PowerFrom, StoredOf, IsFetcher, Form!Analyzed

\* The invariant of the next state, from its names.
LEMMA FormNames ==
  ASSUME NEW p, NEW t, NEW f, NEW s, p = page', t = typed', f = fetcher', s = storage',
         IsPage(p), PlanOf(p), IsTyped(p.form, t), IsFetcher(f), StoredOf(s, p.form, t),
         p.step # 1 => f.requests = {}
  PROVE  FormInv'
BY DEF FormInv, IsPage, IsForm, PlanOf, IsTyped, PowerFrom, StoredOf, IsFetcher, Form!Analyzed

\* A page that is mounted loads what was stored.
LEMMA MountedHolds ==
  ASSUME NEW view \in {"auto", "interactive"}, NEW f, NEW t, IsForm(f), f.target \in Nat \/ f.target = -1,
         IsTyped(f, t), StoredOf(storage, f, t), NEW p, p = Form!Mounted(view)
  PROVE  /\ IsPage(p) /\ PlanOf(p) /\ IsTyped(p.form, t) /\ p.step = 1
         /\ storage.power = -1 => StoredOf(storage, p.form, t)
<1>1. PICK kept : kept = Form!Loaded(view)
  OBVIOUS
<1>2. PICK shared \in BOOLEAN : shared = (view = "auto" /\ storage.power = Form!Nothing)
  OBVIOUS
<1>3. p = [view |-> view, form |-> kept, shared |-> shared, defaults |-> 0, step |-> 1, metadata |-> "loading",
           computing |-> FALSE, error |-> FALSE, result |-> Form!NoResult, timers |-> 0, alternative |-> -1,
           early |-> FALSE]
  BY <1>1, <1>2 DEF Form!Mounted, Form!Default
<1>4. PICK target : target = IF view = "interactive" /\ storage.target = -1 THEN 1 ELSE storage.target
  OBVIOUS
<1>5. kept = [power |-> IF storage.power = -1 THEN 0 ELSE storage.power, skills |-> storage.skills,
              target |-> target]
  BY <1>1, <1>4 DEF Form!Loaded, Form!Default, Form!Nothing, Form!NoTarget
<1>6. /\ f = [power |-> f.power, skills |-> f.skills, target |-> f.target] /\ f.power \in Nat /\ f.skills \in Nat
      /\ f.power # -1
  BY DEF IsForm
<1>7. /\ storage.skills = f.skills
      /\ kept.power = f.power
      /\ storage.target = f.target \/ (storage.target = -1 /\ t.target = 1)
  <2>1. CASE storage = f
    BY <1>5, <1>6, <2>1
  <2>2. CASE storage = [power |-> -1, skills |-> f.skills, target |-> -1] /\ f.power = 0 /\ t.target = 1
    BY <1>5, <2>2
  <2> QED BY <2>1, <2>2 DEF StoredOf
<1>8. kept = [power |-> f.power, skills |-> f.skills, target |-> target]
  BY <1>5, <1>7
<1>9. /\ target \in Nat \/ (view = "auto" /\ target = -1)
      /\ target = t.target \/ (target = -1 /\ t.target = 1)
  BY <1>4, <1>7 DEF IsTyped
<1>10. IsPage(p)
  <2>1. IsForm(kept)
    BY <1>6, <1>8 DEF IsForm
  <2>2. shared => view = "auto"
    BY <1>2
  <2> QED BY <1>3, <1>8, <1>9, <2>1, <2>2 DEF IsPage
<1>11. IsTyped(p.form, t)
  BY <1>3, <1>8, <1>9 DEF IsTyped
<1>12. ASSUME storage.power = -1 PROVE StoredOf(storage, p.form, t)
  BY <1>3, <1>6, <1>8, <1>12 DEF StoredOf
<1> QED BY <1>3, <1>10, <1>11, <1>12 DEF PlanOf

LEMMA FormInitHolds == ASSUME Form!Init PROVE FormInv
<1>1. PICK view \in {"auto", "interactive"} : page = Form!Mounted(view)
  BY DEF Form!Init
<1>2. PICK f, t : /\ f = [power |-> 0, skills |-> 0, target |-> 1]
                  /\ t = [power |-> 0, skills |-> 0, target |-> 1, restored |-> 0]
  OBVIOUS
<1>3. storage = [power |-> -1, skills |-> 0, target |-> -1] /\ typed = t
  BY <1>2 DEF Form!Init, Form!Empty, Form!Default, Form!Nothing, Form!NoTarget
<1>4. IsForm(f) /\ f.target \in Nat
  BY <1>2 DEF IsForm
<1>5. IsTyped(f, t) /\ StoredOf(storage, f, t)
  BY <1>2, <1>3 DEF IsTyped, PowerFrom, StoredOf
<1>6. storage.power = -1
  BY <1>3
<1>7. IsPage(page) /\ PlanOf(page) /\ IsTyped(page.form, t) /\ StoredOf(storage, page.form, t)
  BY <1>1, <1>4, <1>5, <1>6, MountedHolds
<1>8. IsFetcher(fetcher) /\ fetcher.requests = {}
  BY DEF Form!Init, Form!NewFetcher, IsFetcher
<1> QED BY <1>3, <1>7, <1>8 DEF FormInv

\* The other page is opened.
LEMMA OpenHolds == ASSUME FormInv, Form!Open PROVE FormInv'
<1>1. PICK view \in {"auto", "interactive"} : page' = Form!Mounted(view)
  BY DEF Form!Open
<1>2. PICK p, t, f, s : p = page' /\ t = typed' /\ f = fetcher' /\ s = storage'
  OBVIOUS
<1>3. p = Form!Mounted(view) /\ t = typed /\ s = (IF storage.power = -1 THEN storage ELSE p.form)
  BY <1>1, <1>2 DEF Form!Open, Form!Nothing
<1>4. /\ IsForm(page.form) /\ (page.form.target \in Nat \/ page.form.target = -1)
      /\ IsTyped(page.form, t) /\ StoredOf(storage, page.form, t)
  BY <1>3 DEF FormInv, IsPage
<1>5. PICK was : was = page.form
  OBVIOUS
<1>6. IsForm(was) /\ (was.target \in Nat \/ was.target = -1) /\ IsTyped(was, t) /\ StoredOf(storage, was, t)
  BY <1>4, <1>5
<1>7. /\ IsPage(p) /\ PlanOf(p) /\ IsTyped(p.form, t) /\ p.step = 1
      /\ storage.power = -1 => StoredOf(storage, p.form, t)
  BY <1>3, <1>6, MountedHolds
<1>8. IsFetcher(f)
  BY <1>2 DEF Form!Open, Form!NewFetcher, IsFetcher
<1>9. StoredOf(s, p.form, t)
  BY <1>3, <1>7 DEF StoredOf
<1> QED BY <1>2, <1>7, <1>8, <1>9, FormNames

\* The page with another form.
WithForm(edited, shared, defaults) ==
  [view |-> page.view, form |-> edited, shared |-> shared, defaults |-> defaults, step |-> page.step,
   metadata |-> page.metadata, computing |-> page.computing, error |-> page.error, result |-> page.result,
   timers |-> page.timers, alternative |-> page.alternative, early |-> page.early]

\* A form that is edited outside the third step.
LEMMA EditHolds ==
  ASSUME FormInv, NEW edited, NEW shared \in BOOLEAN, NEW defaults \in Nat,
         page' = WithForm(edited, shared, defaults), page.step # 3, shared => page.shared, IsForm(edited), edited.target \in Nat \/ (page.view = "auto" /\ edited.target = -1),
         NEW t, t = typed', IsTyped(edited, t), NEW s, s = storage', StoredOf(s, edited, t),
         IsFetcher(fetcher'), page.step # 1 => fetcher'.requests = {}
  PROVE  FormInv'
<1>1. PICK p, f : p = page' /\ f = fetcher'
  OBVIOUS
<1>2. IsPage(page)
  BY DEF FormInv
<1>3. p = [view |-> page.view, form |-> edited, shared |-> shared, defaults |-> defaults, step |-> page.step,
           metadata |-> page.metadata, computing |-> page.computing, error |-> page.error, result |-> page.result,
           timers |-> page.timers, alternative |-> page.alternative, early |-> page.early]
  BY <1>1 DEF WithForm
<1>4. IsPage(p)
  BY <1>2, <1>3 DEF IsPage
<1>5. PlanOf(p)
  BY <1>3 DEF PlanOf
<1>6. IsTyped(p.form, t) /\ StoredOf(s, p.form, t)
  BY <1>3
<1>7. IsFetcher(f) /\ (p.step # 1 => f.requests = {})
  BY <1>1, <1>3
<1> QED BY <1>1, <1>4, <1>5, <1>6, <1>7, FormNames

\* What is edited is saved: a form that changes, or its skills alone.
LEMMA SavedHolds ==
  ASSUME FormInv, NEW p, p = page', IsForm(p.form), Form!Saved, NEW t,
         t.target = typed.target \/ p.form.target # page.form.target
  PROVE  StoredOf(storage', p.form, t)
<1>1. PICK f, g, s : f = page.form /\ g = p.form /\ s = storage
  OBVIOUS
<1>2. /\ f = [power |-> f.power, skills |-> f.skills, target |-> f.target]
      /\ g = [power |-> g.power, skills |-> g.skills, target |-> g.target]
      /\ StoredOf(s, f, typed)
  BY <1>1 DEF FormInv, IsPage, IsForm
<1>3. CASE g.power # f.power \/ g.target # f.target
  BY <1>1, <1>3 DEF Form!Saved, StoredOf
<1>4. CASE g.power = f.power /\ g.target = f.target
  <2>1. storage' = [s EXCEPT !.skills = g.skills]
    BY <1>1, <1>4 DEF Form!Saved
  <2>2. CASE s = f
    BY <1>1, <1>2, <1>4, <2>1, <2>2 DEF StoredOf
  <2>3. CASE s = [power |-> -1, skills |-> f.skills, target |-> -1] /\ f.power = 0 /\ typed.target = 1
    <3>1. storage' = [power |-> -1, skills |-> g.skills, target |-> -1]
      BY <2>1, <2>3
    <3>2. t.target = 1 /\ g.power = 0
      BY <1>1, <1>4, <2>3
    <3> QED BY <1>1, <3>1, <3>2 DEF StoredOf
  <2> QED BY <1>2, <2>2, <2>3 DEF StoredOf
<1> QED BY <1>3, <1>4

\* Power and skills are edited, or fetched.
LEMMA EnteredHolds ==
  ASSUME FormInv, NEW power \in Nat, NEW skills \in Nat, page' = Form!Entered(power, skills), NEW t, t = typed',
         t = [power |-> t.power, skills |-> skills, target |-> typed.target, restored |-> t.restored],
         PowerFrom(t) = power, Form!Saved, page.step = 1, IsFetcher(fetcher')
  PROVE  FormInv'
<1>1. PICK was, edited : was = page.form /\ edited = [was EXCEPT !.power = power, !.skills = skills]
  OBVIOUS
<1>2. IsPage(page) /\ IsTyped(was, typed)
  BY <1>1 DEF FormInv
<1>3. /\ was = [power |-> was.power, skills |-> was.skills, target |-> was.target]
      /\ was.target \in Nat \/ (page.view = "auto" /\ was.target = -1)
      /\ typed.target \in Nat /\ (was.target = typed.target \/ (was.target = -1 /\ typed.target = 1))
  BY <1>1, <1>2 DEF IsPage, IsForm, IsTyped
<1>4. edited = [power |-> power, skills |-> skills, target |-> was.target]
  BY <1>1, <1>3
<1>5. PICK defaults \in Nat : defaults = IF page.shared THEN power ELSE page.defaults
  BY <1>2 DEF IsPage
<1>6. PICK shared \in BOOLEAN : shared = page.shared
  BY <1>2 DEF IsPage
<1>7. PICK p : p = page'
  OBVIOUS
<1>8. p = WithForm(edited, shared, defaults) /\ p.form = edited
  <2>1. p = [page EXCEPT !.form.power = power, !.form.skills = skills, !.defaults = defaults]
    BY <1>5, <1>7 DEF Form!Entered
  <2> QED BY <1>1, <1>2, <1>6, <2>1 DEF IsPage, WithForm
<1>9. IsForm(edited) /\ (edited.target \in Nat \/ (page.view = "auto" /\ edited.target = -1))
  BY <1>3, <1>4 DEF IsForm
<1>10. IsTyped(edited, t)
  BY <1>3, <1>4 DEF IsTyped
<1>11. PICK s : s = storage'
  OBVIOUS
<1>12. StoredOf(s, edited, t)
  <2>1. IsForm(p.form) /\ t.target = typed.target
    BY <1>8, <1>9
  <2>2. StoredOf(storage', p.form, t)
    BY <1>7, <2>1, SavedHolds
  <2> QED BY <1>8, <1>11, <2>2
<1>13. page' = WithForm(edited, shared, defaults)
  BY <1>7, <1>8
<1>14. page.step # 3 /\ (shared => page.shared) /\ (page.step # 1 => fetcher'.requests = {})
  BY <1>6
<1> QED BY <1>9, <1>10, <1>11, <1>12, <1>13, <1>14, EditHolds

LEMMA EditPowerHolds == ASSUME FormInv, Form!EditPower PROVE FormInv'
<1>1. PICK power \in Teams \union {0} :
        /\ page' = Form!Entered(power, page.form.skills) /\ typed' = [typed EXCEPT !.power = power, !.restored = 0]
        /\ Form!EditsTeam /\ Form!Saved /\ UNCHANGED fetcher
  BY DEF Form!EditPower
<1>2. page.step = 1 /\ page.form.skills \in Nat
  BY <1>1 DEF Form!EditsTeam, FormInv, IsPage, IsForm
<1>3. IsFetcher(fetcher') /\ power \in Nat
  BY <1>1, FormAssumption DEF FormInv, IsFetcher
<1>4. PICK t : t = typed'
  OBVIOUS
<1>5. /\ t = [power |-> power, skills |-> page.form.skills, target |-> typed.target, restored |-> 0]
  BY <1>1, <1>4 DEF FormInv, IsTyped
<1>6. /\ t = [power |-> t.power, skills |-> page.form.skills, target |-> typed.target, restored |-> t.restored]
      /\ PowerFrom(t) = power
  BY <1>5 DEF PowerFrom
<1> QED BY <1>1, <1>2, <1>3, <1>4, <1>6, EnteredHolds

LEMMA EditSkillsHolds == ASSUME FormInv, Form!EditSkills PROVE FormInv'
<1>1. PICK skills \in Teams \union {0} :
        /\ page' = Form!Entered(page.form.power, skills) /\ typed' = [typed EXCEPT !.skills = skills]
        /\ Form!EditsTeam /\ Form!Saved /\ UNCHANGED fetcher
  BY DEF Form!EditSkills
<1>2. page.step = 1 /\ page.form.power \in Nat
  BY <1>1 DEF Form!EditsTeam, FormInv, IsPage, IsForm
<1>3. IsFetcher(fetcher') /\ skills \in Nat
  BY <1>1, FormAssumption DEF FormInv, IsFetcher
<1>4. PICK t : t = typed'
  OBVIOUS
<1>5. /\ t = [power |-> typed.power, skills |-> skills, target |-> typed.target, restored |-> typed.restored]
      /\ page.form.power = PowerFrom(typed)
  BY <1>1, <1>4 DEF FormInv, IsTyped
<1>6. /\ t = [power |-> t.power, skills |-> skills, target |-> typed.target, restored |-> t.restored]
      /\ PowerFrom(t) = page.form.power
  BY <1>5 DEF PowerFrom
<1> QED BY <1>1, <1>2, <1>3, <1>4, <1>6, EnteredHolds

\* An answer: the fetcher is there in the first step only.
LEMMA DeckFetchedHolds == ASSUME FormInv, Form!DeckFetched PROVE FormInv'
<1>1. PICK player \in fetcher.requests :
        /\ fetcher' = [fetcher EXCEPT !.loading = FALSE, !.requests = @ \ {player}]
        /\ page' = Form!Entered(player, player)
        /\ typed' = [typed EXCEPT !.power = player, !.skills = player, !.restored = 0] /\ Form!Saved
  BY DEF Form!DeckFetched
<1>2. page.step = 1 /\ player \in Nat
  BY <1>1, FormAssumption DEF FormInv, IsFetcher
<1>3. PICK f, t : f = fetcher' /\ t = typed'
  OBVIOUS
<1>4. IsFetcher(f)
  BY <1>1, <1>3 DEF FormInv, IsFetcher
<1>5. IsFetcher(fetcher')
  BY <1>3, <1>4
<1>6. t = [power |-> player, skills |-> player, target |-> typed.target, restored |-> 0]
  BY <1>1, <1>3 DEF FormInv, IsTyped
<1>7. /\ t = [power |-> t.power, skills |-> player, target |-> typed.target, restored |-> t.restored]
      /\ PowerFrom(t) = player
  BY <1>6 DEF PowerFrom
<1> QED BY <1>1, <1>2, <1>3, <1>5, <1>7, EnteredHolds

LEMMA EditTargetHolds == ASSUME FormInv, Form!EditTarget PROVE FormInv'
<1>1. PICK target \in Targets :
        /\ page.view = "interactive" /\ page.step = 2 /\ page' = [page EXCEPT !.form.target = target]
        /\ typed' = [typed EXCEPT !.target = target] /\ Form!Saved /\ UNCHANGED fetcher
  BY DEF Form!EditTarget
<1>2. PICK was, t, edited, p : was = page.form /\ t = typed' /\ edited = [was EXCEPT !.target = target] /\ p = page'
  OBVIOUS
<1>3. IsPage(page) /\ IsTyped(was, typed) /\ IsForm(was)
  BY <1>2 DEF FormInv, IsPage
<1>4. /\ was = [power |-> was.power, skills |-> was.skills, target |-> was.target]
      /\ typed = [power |-> typed.power, skills |-> typed.skills, target |-> typed.target,
                  restored |-> typed.restored]
      /\ was.target = typed.target /\ target \in Nat
  <2>1. was.target \in Nat
    BY <1>1, <1>2, <1>3 DEF IsPage
  <2> QED BY <1>3, <2>1, FormAssumption DEF IsForm, IsTyped
<1>5. edited = [power |-> was.power, skills |-> was.skills, target |-> target]
  BY <1>2, <1>4
<1>6. t = [power |-> typed.power, skills |-> typed.skills, target |-> target, restored |-> typed.restored]
  BY <1>1, <1>2, <1>4
<1>7. PICK defaults \in Nat, shared \in BOOLEAN :
        /\ shared = page.shared /\ p = WithForm(edited, shared, defaults) /\ p.form = edited
  <2>1. PICK d \in Nat, b \in BOOLEAN : d = page.defaults /\ b = page.shared
    BY <1>3 DEF IsPage
  <2>2. p = WithForm(edited, b, d)
    BY <1>1, <1>2, <1>3, <2>1 DEF IsPage, WithForm
  <2>3. p.form = edited
    BY <2>2 DEF WithForm
  <2> QED BY <2>1, <2>2, <2>3
<1>8. IsForm(edited) /\ edited.target \in Nat
  BY <1>3, <1>4, <1>5 DEF IsForm
<1>9. IsTyped(edited, t)
  BY <1>3, <1>4, <1>5, <1>6 DEF IsTyped, PowerFrom
<1>10. PICK s : s = storage'
  OBVIOUS
<1>11. StoredOf(s, edited, t)
  <2>1. t.target = typed.target \/ p.form.target # page.form.target
    BY <1>2, <1>4, <1>5, <1>6, <1>7
  <2>2. IsForm(p.form)
    BY <1>7, <1>8
  <2>3. StoredOf(storage', p.form, t)
    BY <1>1, <1>2, <2>1, <2>2, SavedHolds
  <2> QED BY <1>7, <1>10, <2>3
<1>12. IsFetcher(fetcher') /\ fetcher'.requests = {}
  BY <1>1 DEF FormInv, IsFetcher
<1>13. page' = WithForm(edited, shared, defaults) /\ t = typed' /\ page.step # 3 /\ (shared => page.shared)
  BY <1>1, <1>2, <1>7
<1> QED BY <1>8, <1>9, <1>10, <1>11, <1>12, <1>13, EditHolds

LEMMA ResetAllSettingsHolds == ASSUME FormInv, Form!ResetAllSettings PROVE FormInv'
<1>1. PICK d, s, p : d = page.defaults /\ s = storage' /\ p = page'
  OBVIOUS
<1>2. PICK edited, t : /\ edited = [power |-> d, skills |-> 0, target |-> -1]
                       /\ t = [power |-> 0, skills |-> 0, target |-> 1, restored |-> d]
  OBVIOUS
<1>3. IsPage(page) /\ d \in Nat
  BY <1>1 DEF FormInv, IsPage
<1>4. /\ page.view = "auto" /\ p = [page EXCEPT !.form = edited, !.shared = FALSE]
      /\ t = typed' /\ s = p.form /\ fetcher' = fetcher
  BY <1>1, <1>2 DEF Form!ResetAllSettings, Form!NoTarget, Form!Default
<1>5. p = WithForm(edited, FALSE, d) /\ p.form = edited
  <2>1. p = WithForm(edited, FALSE, d)
    BY <1>1, <1>3, <1>4 DEF IsPage, WithForm
  <2> QED BY <2>1 DEF WithForm
<1>6. IsForm(edited) /\ edited.target = -1 /\ IsTyped(edited, t)
  BY <1>2, <1>3 DEF IsForm, IsTyped, PowerFrom
<1>7. StoredOf(s, edited, t)
  BY <1>4, <1>5 DEF StoredOf
<1>8. page.step = 1
  BY <1>3, <1>4 DEF IsPage
<1>9. IsFetcher(fetcher')
  BY <1>4 DEF FormInv, IsFetcher
<1>10. page' = WithForm(edited, FALSE, d) /\ s = storage' /\ t = typed'
  BY <1>1, <1>4, <1>5
<1>11. page.step # 3 /\ (page.step # 1 => fetcher'.requests = {})
  BY <1>8
<1> QED BY <1>3, <1>4, <1>6, <1>7, <1>9, <1>10, <1>11, EditHolds

\* The requests of the fetcher leave the form alone.
LEMMA FetcherHolds ==
  ASSUME FormInv, UNCHANGED <<storage, page, typed>>, IsFetcher(fetcher'), page.step # 1 => fetcher'.requests = {}
  PROVE  FormInv'
<1>1. PICK p, t, f, s : p = page /\ t = typed /\ f = fetcher' /\ s = storage
  OBVIOUS
<1>2. IsPage(p) /\ PlanOf(p) /\ IsTyped(p.form, t) /\ StoredOf(s, p.form, t)
  BY <1>1 DEF FormInv
<1>3. IsFetcher(f) /\ (p.step # 1 => f.requests = {})
  BY <1>1
<1>4. p = page' /\ t = typed' /\ f = fetcher' /\ s = storage'
  BY <1>1
<1> QED BY <1>2, <1>3, <1>4, FormNames

LEMMA FetchDeckHolds == ASSUME FormInv, Form!FetchDeck PROVE FormInv'
<1>1. PICK player \in Teams :
        /\ Form!EditsTeam /\ UNCHANGED <<storage, page, typed>>
        /\ fetcher' = [loading |-> TRUE, error |-> FALSE, requests |-> fetcher.requests \union {player}]
  BY DEF Form!FetchDeck
<1>2. PICK f : f = fetcher'
  OBVIOUS
<1>3. IsFetcher(f)
  BY <1>1, <1>2 DEF FormInv, IsFetcher
<1>4. IsFetcher(fetcher')
  BY <1>2, <1>3
<1>5. page.step = 1
  BY <1>1 DEF Form!EditsTeam, FormInv, IsPage
<1> QED BY <1>1, <1>4, <1>5, FetcherHolds

LEMMA FetchFailsHolds == ASSUME FormInv, Form!FetchFails PROVE FormInv'
<1>1. PICK player \in fetcher.requests :
        /\ UNCHANGED <<storage, page, typed>>
        /\ fetcher' = [loading |-> FALSE, error |-> TRUE, requests |-> fetcher.requests \ {player}]
  BY DEF Form!FetchFails
<1>2. PICK f : f = fetcher'
  OBVIOUS
<1>3. IsFetcher(f) /\ (page.step # 1 => f.requests = {})
  BY <1>1, <1>2 DEF FormInv, IsFetcher
<1>4. IsFetcher(fetcher') /\ (page.step # 1 => fetcher'.requests = {})
  BY <1>2, <1>3
<1> QED BY <1>1, <1>4, FetcherHolds

\* A page that keeps its form.
LEMMA PageHolds ==
  ASSUME FormInv, NEW p, p = page', IsPage(p), PlanOf(p), p.form = page.form, UNCHANGED <<storage, typed>>,
         NEW f, f = fetcher', IsFetcher(f), p.step # 1 => f.requests = {}
  PROVE  FormInv'
<1>1. PICK t, s : t = typed /\ s = storage
  OBVIOUS
<1>2. IsTyped(page.form, t) /\ StoredOf(s, page.form, t)
  BY <1>1 DEF FormInv
<1>3. IsTyped(p.form, t) /\ StoredOf(s, p.form, t)
  BY <1>2
<1> QED BY <1>1, <1>2, <1>3, FormNames

\* Another step: the third one computes, or says why not; the others drop the plan.
LEMMA StepHoldsPage ==
  ASSUME FormInv, NEW s \in 1..3, page.view = "interactive", NEW p, p = Form!Step(s)
  PROVE  IsPage(p) /\ PlanOf(p) /\ p.form = page.form /\ p.step = s
<1>1. IsPage(page)
  BY DEF FormInv
<1>2. CASE s # 3
  <2>1. p = [page EXCEPT !.step = s, !.result = Form!NoResult]
    BY <1>2 DEF Form!Step
  <2>2. p = [view |-> page.view, form |-> page.form, shared |-> page.shared, defaults |-> page.defaults,
             step |-> s, metadata |-> page.metadata, computing |-> page.computing, error |-> page.error,
             result |-> Form!NoResult, timers |-> page.timers, alternative |-> page.alternative,
             early |-> page.early]
    BY <1>1, <2>1 DEF IsPage
  <2>3. IsPage(p)
    BY <1>1, <2>2 DEF IsPage
  <2> QED BY <1>2, <2>2, <2>3 DEF PlanOf
<1>3. CASE s = 3
  <2>1. PICK there : there = [page EXCEPT !.step = 3]
    OBVIOUS
  <2>2. there = [view |-> page.view, form |-> page.form, shared |-> page.shared, defaults |-> page.defaults,
                 step |-> 3, metadata |-> page.metadata, computing |-> page.computing, error |-> page.error,
                 result |-> page.result, timers |-> page.timers, alternative |-> page.alternative,
                 early |-> page.early]
    BY <1>1, <2>1 DEF IsPage
  <2>3. p = Form!RunAnalysis(there)
    BY <1>3, <2>1 DEF Form!Step
  <2>4. CASE page.metadata # "ready"
    <3>1. p = [there EXCEPT !.error = TRUE]
      BY <2>2, <2>3, <2>4 DEF Form!RunAnalysis
    <3>2. p = [view |-> page.view, form |-> page.form, shared |-> page.shared, defaults |-> page.defaults,
               step |-> 3, metadata |-> page.metadata, computing |-> page.computing, error |-> TRUE,
               result |-> page.result, timers |-> page.timers, alternative |-> page.alternative,
               early |-> page.early]
      BY <2>2, <3>1
    <3>3. IsPage(p)
      BY <1>1, <3>2 DEF IsPage
    <3> QED BY <1>3, <3>2, <3>3 DEF PlanOf
  <2>5. CASE page.metadata = "ready"
    <3>1. p = [there EXCEPT !.computing = TRUE, !.error = FALSE, !.timers = @ + 1, !.alternative = -1,
                            !.early = FALSE]
      BY <2>2, <2>3, <2>5 DEF Form!RunAnalysis
    <3>2. p = [view |-> page.view, form |-> page.form, shared |-> page.shared, defaults |-> page.defaults,
               step |-> 3, metadata |-> page.metadata, computing |-> TRUE, error |-> FALSE,
               result |-> page.result, timers |-> page.timers + 1, alternative |-> -1, early |-> FALSE]
      BY <2>2, <3>1
    <3>3. IsPage(p)
      BY <1>1, <3>2 DEF IsPage
    <3> QED BY <1>3, <3>2, <3>3 DEF PlanOf
  <2> QED BY <2>4, <2>5
<1> QED BY <1>2, <1>3

LEMMA StepToHolds ==
  ASSUME FormInv, NEW s \in 1..3, page.view = "interactive", Form!StepTo(s) PROVE FormInv'
<1>1. PICK p, f : p = page' /\ f = fetcher'
  OBVIOUS
<1>2. /\ p = Form!Step(s) /\ UNCHANGED <<storage, typed>>
      /\ f = IF s = 1 /\ page.step = 1 THEN fetcher ELSE Form!NewFetcher
  BY <1>1 DEF Form!StepTo
<1>3. IsPage(p) /\ PlanOf(p) /\ p.form = page.form /\ p.step = s
  BY <1>2, StepHoldsPage
<1>4. IsFetcher(f) /\ (p.step # 1 => f.requests = {})
  BY <1>2, <1>3 DEF FormInv, IsFetcher, Form!NewFetcher
<1> QED BY <1>1, <1>2, <1>3, <1>4, PageHolds

LEMMA NextStepHolds == ASSUME FormInv, Form!NextStep PROVE FormInv'
<1>1. IsPage(page) /\ page.view = "interactive"
  BY DEF FormInv, Form!NextStep
<1>2. CASE page.step = 1
  <2>1. PICK p, f : p = page' /\ f = fetcher'
    OBVIOUS
  <2>2. p = [page EXCEPT !.step = 2] /\ f = Form!NewFetcher /\ UNCHANGED <<storage, typed>>
    BY <1>2, <2>1 DEF Form!NextStep
  <2>3. p = [view |-> page.view, form |-> page.form, shared |-> page.shared, defaults |-> page.defaults,
             step |-> 2, metadata |-> page.metadata, computing |-> page.computing, error |-> page.error,
             result |-> page.result, timers |-> page.timers, alternative |-> page.alternative,
             early |-> page.early]
    BY <1>1, <2>2 DEF IsPage
  <2>4. IsPage(p)
    BY <1>1, <2>3 DEF IsPage
  <2>5. PlanOf(p)
    BY <2>3 DEF PlanOf
  <2>6. IsFetcher(f) /\ f.requests = {}
    BY <2>2 DEF IsFetcher, Form!NewFetcher
  <2> QED BY <2>1, <2>2, <2>3, <2>4, <2>5, <2>6, PageHolds
<1>3. CASE page.step # 1
  <2>1. Form!StepTo(3)
    BY <1>3 DEF Form!NextStep
  <2> QED BY <1>1, <2>1, StepToHolds
<1> QED BY <1>2, <1>3

LEMMA StepsHold == ASSUME FormInv, Form!PrevStep \/ Form!GoToStep PROVE FormInv'
<1>1. page.view = "interactive" /\ page.step \in 1..3
  BY DEF FormInv, IsPage, Form!PrevStep, Form!GoToStep
<1>2. CASE Form!PrevStep
  <2>1. Form!StepTo(page.step - 1) /\ page.step > 1
    BY <1>2 DEF Form!PrevStep
  <2>2. PICK s \in 1..3 : s = page.step - 1
    BY <1>1, <2>1
  <2>3. Form!StepTo(s)
    BY <2>1, <2>2
  <2> QED BY <1>1, <2>3, StepToHolds
<1>3. CASE Form!GoToStep
  <2>1. PICK s \in 1..3 : Form!StepTo(s)
    BY <1>3 DEF Form!GoToStep
  <2> QED BY <1>1, <2>1, StepToHolds
<1> QED BY <1>2, <1>3

\* What the interactive page does beside its fetcher.
LEMMA InPageHolds ==
  ASSUME FormInv, UNCHANGED <<storage, fetcher, typed>>,
         NEW p, p = page', IsPage(p), PlanOf(p), p.form = page.form, p.step = page.step
  PROVE  FormInv'
<1>1. PICK f : f = fetcher'
  OBVIOUS
<1>2. IsFetcher(f) /\ (p.step # 1 => f.requests = {})
  BY <1>1 DEF FormInv, IsFetcher
<1> QED BY <1>1, <1>2, PageHolds

LEMMA LoadMetadataHolds == ASSUME FormInv, Form!LoadMetadata PROVE FormInv'
<1>1. PICK p : p = page'
  OBVIOUS
<1>2. IsPage(page) /\ PlanOf(page)
  BY DEF FormInv
<1>3. CASE p = [page EXCEPT !.metadata = "ready"]
  <2>1. p = [view |-> page.view, form |-> page.form, shared |-> page.shared, defaults |-> page.defaults,
             step |-> page.step, metadata |-> "ready", computing |-> page.computing, error |-> page.error,
             result |-> page.result, timers |-> page.timers, alternative |-> page.alternative,
             early |-> page.early]
    BY <1>2, <1>3 DEF IsPage
  <2>2. IsPage(p)
    BY <1>2, <2>1 DEF IsPage
  <2>3. PlanOf(p)
    BY <1>2, <2>1 DEF PlanOf
  <2> QED BY <1>1, <2>1, <2>2, <2>3, InPageHolds DEF Form!LoadMetadata
<1>4. CASE p = [page EXCEPT !.metadata = "failed", !.error = TRUE]
  <2>1. p = [view |-> page.view, form |-> page.form, shared |-> page.shared, defaults |-> page.defaults,
             step |-> page.step, metadata |-> "failed", computing |-> page.computing, error |-> TRUE,
             result |-> page.result, timers |-> page.timers, alternative |-> page.alternative,
             early |-> page.early]
    BY <1>2, <1>4 DEF IsPage
  <2>2. IsPage(p)
    BY <1>2, <2>1 DEF IsPage
  <2>3. PlanOf(p)
    BY <2>1 DEF PlanOf
  <2> QED BY <1>1, <2>1, <2>2, <2>3, InPageHolds DEF Form!LoadMetadata
<1> QED BY <1>1, <1>3, <1>4 DEF Form!LoadMetadata

\* The timer: the form of now is analysed, which nobody can edit beside its plan.
LEMMA TimerFiresHolds == ASSUME FormInv, Form!TimerFires PROVE FormInv'
<1>1. PICK p, over : p = page' /\ over = [page EXCEPT !.timers = @ - 1, !.computing = FALSE]
  OBVIOUS
<1>2. IsPage(page) /\ PlanOf(page)
  BY DEF FormInv
<1>3. over = [view |-> page.view, form |-> page.form, shared |-> page.shared, defaults |-> page.defaults,
              step |-> page.step, metadata |-> page.metadata, computing |-> FALSE, error |-> page.error,
              result |-> page.result, timers |-> page.timers - 1, alternative |-> page.alternative,
              early |-> page.early]
  BY <1>1, <1>2 DEF IsPage
<1>4. CASE p = [over EXCEPT !.result = Form!Analyzed(page.form)]
  <2>1. p = [view |-> page.view, form |-> page.form, shared |-> page.shared, defaults |-> page.defaults,
             step |-> page.step, metadata |-> page.metadata, computing |-> FALSE, error |-> page.error,
             result |-> Form!Analyzed(page.form), timers |-> page.timers - 1, alternative |-> page.alternative,
             early |-> page.early]
    BY <1>3, <1>4
  <2>2. IsPage(p)
    BY <1>2, <2>1 DEF IsPage
  <2>3. PlanOf(p)
    <3>1. ASSUME page.step = 3, ~page.error, ~page.early PROVE page.alternative \in -1 .. page.form.target - 1
      <4>1. page.form.target \in Nat /\ page.computing \in BOOLEAN /\ page.early \in BOOLEAN
        BY <1>2, <3>1 DEF IsPage
      <4> QED BY <1>2, <3>1, <4>1 DEF PlanOf
    <3>2. page.early \in BOOLEAN
      BY <1>2 DEF IsPage
    <3> QED BY <2>1, <3>1, <3>2 DEF PlanOf
  <2> QED BY <1>1, <2>1, <2>2, <2>3, InPageHolds DEF Form!TimerFires
<1>5. CASE p = [over EXCEPT !.error = TRUE]
  <2>1. p = [view |-> page.view, form |-> page.form, shared |-> page.shared, defaults |-> page.defaults,
             step |-> page.step, metadata |-> page.metadata, computing |-> FALSE, error |-> TRUE,
             result |-> page.result, timers |-> page.timers - 1, alternative |-> page.alternative,
             early |-> page.early]
    BY <1>3, <1>5
  <2>2. IsPage(p)
    BY <1>2, <2>1 DEF IsPage
  <2>3. PlanOf(p)
    BY <2>1 DEF PlanOf
  <2> QED BY <1>1, <2>1, <2>2, <2>3, InPageHolds DEF Form!TimerFires
<1> QED BY <1>1, <1>4, <1>5 DEF Form!TimerFires

\* The arrow keys stay among the alternatives of the plan.
LEMMA CycleHolds == ASSUME FormInv, Form!Cycle PROVE FormInv'
<1>1. IsPage(page) /\ PlanOf(page) /\ page.view = "interactive" /\ page.step = 3
  BY DEF FormInv, Form!Cycle
<1>2. PICK to \in {Form!NextAlternative, Form!PrevAlternative, -1} :
        page' = [page EXCEPT !.alternative = to, !.early = @ \/ page.computing]
  BY Zenon DEF Form!Cycle
<1>3. PICK p, early : p = page' /\ early = (page.early \/ page.computing)
  OBVIOUS
<1>4. p = [view |-> page.view, form |-> page.form, shared |-> page.shared, defaults |-> page.defaults,
           step |-> page.step, metadata |-> page.metadata, computing |-> page.computing, error |-> page.error,
           result |-> page.result, timers |-> page.timers, alternative |-> to, early |-> early]
  BY <1>1, <1>2, <1>3 DEF IsPage
<1>5. IsPage(p)
  BY <1>1, <1>3, <1>4 DEF IsPage
<1>6. ASSUME ~page.early, ~page.computing, ~page.error PROVE to \in -1 .. page.form.target - 1
  <2>1. PICK n \in Nat : n = page.form.target
    BY <1>1 DEF IsPage
  <2>2. page.alternative \in -1 .. n - 1 /\ page.result = Form!Analyzed(page.form)
    BY <1>1, <1>6, <2>1 DEF PlanOf
  <2>3. Form!Total = 1 + n
    BY <2>1, <2>2 DEF Form!Total, Form!Analyzed
  <2>4. Form!NextAlternative \in -1 .. n - 1
    <3>1. PICK k \in Nat \ {0} : k = 1 + n
      BY <2>1
    <3>2. PICK a \in Nat : a = page.alternative + 2
      BY <2>2
    <3>3. a % k \in 0 .. k - 1
      BY <3>1, <3>2
    <3>4. Form!NextAlternative = (a % k) - 1
      BY <2>3, <3>1, <3>2 DEF Form!NextAlternative
    <3> QED BY <3>1, <3>3, <3>4
  <2>5. Form!PrevAlternative \in -1 .. n - 1
    BY <2>2, <2>3 DEF Form!PrevAlternative
  <2> QED BY <2>1, <2>4, <2>5
<1>7. PlanOf(p)
  <2>1. page.early \in BOOLEAN /\ page.computing \in BOOLEAN /\ page.error \in BOOLEAN /\ early \in BOOLEAN
    BY <1>1, <1>3 DEF IsPage
  <2>2. CASE page.computing
    <3>1. p.early = early /\ p.computing = page.computing
      BY <1>4
    <3>2. early
      BY <1>3, <2>2
    <3> QED BY <2>2, <3>1, <3>2 DEF PlanOf
  <2>3. CASE ~page.computing
    <3>1. ~page.error => page.result = Form!Analyzed(page.form)
      BY <1>1, <2>3 DEF PlanOf
    <3>2. ~page.error => early \/ to \in -1 .. page.form.target - 1
      BY <1>3, <1>6, <2>1, <2>3
    <3> QED BY <1>4, <2>1, <2>3, <3>1, <3>2 DEF PlanOf
  <2> QED BY <2>1, <2>2, <2>3
<1> QED BY <1>3, <1>4, <1>5, <1>7, InPageHolds DEF Form!Cycle

LEMMA FormHolds == ASSUME FormInv, Form!Next PROVE FormInv'
BY OpenHolds, EditPowerHolds, EditSkillsHolds, EditTargetHolds, ResetAllSettingsHolds, FetchDeckHolds,
   DeckFetchedHolds, FetchFailsHolds, NextStepHolds, StepsHold, LoadMetadataHolds, TimerFiresHolds, CycleHolds DEF Form!Next

LEMMA FormShows == ASSUME FormInv PROVE ShownIsCurrent
<1>1. IsPage(page) /\ PlanOf(page) /\ IsTyped(page.form, typed)
  BY DEF FormInv
<1>2. /\ page.form.power = IF typed.restored = 0 THEN typed.power ELSE typed.restored
      /\ page.form.skills = typed.skills
  BY <1>1 DEF IsTyped, PowerFrom
<1>3. page.form.target \in {typed.target} \union (IF typed.target = Form!Default.target THEN {Form!NoTarget} ELSE {})
  BY <1>1 DEF IsTyped, Form!Default, Form!NoTarget
<1>4. ASSUME Form!Shown
      PROVE  /\ page.result = Form!Analyzed(page.form)
             /\ page.early \/ page.alternative \in -1 .. page.result.alternatives - 1
  <2>1. page.result = Form!Analyzed(page.form) /\ (page.early \/ page.alternative \in -1 .. page.form.target - 1)
    BY <1>1, <1>4 DEF PlanOf, Form!Shown
  <2> QED BY <2>1 DEF Form!Analyzed
<1> QED BY <1>2, <1>3, <1>4 DEF ShownIsCurrent, Form!ShownIsCurrent

-----------------------------------------------------------------------------
IInv ==
  /\ DownIsRecovering /\ InfoInv /\ SongsInv
  /\ CacheInv /\ MigrationInv /\ PollingInv /\ FormInv /\ LevelsInv

LEMMA InitHolds == ASSUME Init PROVE IInv
<1>1. DownIsRecovering
  BY DEF Init, Mongo!Init, DownIsRecovering, Mongo!DownIsRecovering
<1>2. InfoInv /\ SongsInv
  BY InfoInitHolds, SongsInitHolds DEF Init
<1>3. CacheInv
  BY CacheInitHolds DEF Init
<1>4. MigrationInv
  BY MigrationInitHolds DEF Init
<1>5. PollingInv
  BY PollingInitHolds DEF Init
<1>6. FormInv
  BY FormInitHolds DEF Init
<1>7. LevelsInv
  BY LevelsInitHolds DEF Init
<1> QED BY <1>1, <1>2, <1>3, <1>4, <1>5, <1>6, <1>7 DEF IInv

\* A step of one service leaves the state of the others alone.
LEMMA StepHolds == ASSUME IInv, [Next]_vars PROVE IInv' /\ given' >= given
<1> USE DEF IInv
<1>1. UNCHANGED mongo \/ Mongo!Next
  BY DEF Next, vars, MongoStep, InfoStep, DownloadStep, SongStep, PollingStep, FormStep, MigrationStep
<1>2. UNCHANGED info \/ Info!Next
  BY DEF Next, vars, MongoStep, InfoStep, DownloadStep, SongStep, PollingStep, FormStep, MigrationStep
<1>3. UNCHANGED downloads \/ Downloads!Next
  BY DEF Next, vars, MongoStep, InfoStep, DownloadStep, SongStep, PollingStep, FormStep, MigrationStep
<1>4. UNCHANGED songs \/ Song!Next
  BY DEF Next, vars, MongoStep, InfoStep, DownloadStep, SongStep, PollingStep, FormStep, MigrationStep
<1>5. UNCHANGED migration \/ Migration!Next
  BY DEF Next, vars, MongoStep, InfoStep, DownloadStep, SongStep, PollingStep, FormStep, MigrationStep
<1>6. DownIsRecovering'
  <2>1. UNCHANGED mongo => DownIsRecovering'
    BY DEF mongo, DownIsRecovering, Mongo!DownIsRecovering
  <2> QED BY <1>1, <2>1, MongoStepHolds
<1>7. InfoInv'
  <2>1. UNCHANGED info => InfoInv'
    BY InfoFrameHolds DEF info
  <2> QED BY <1>2, <2>1, InfoStepHolds
<1>8. SongsInv' /\ given' >= given
  <2>1. UNCHANGED songs => SongsInv' /\ given' >= given
    BY SongsOthersHold DEF songs, SongsInv, SongsTyped, Song!lists
  <2> QED BY <1>4, <2>1, SongsStepHolds
<1>9. CacheInv'
  <2>1. UNCHANGED downloads => CacheInv'
    BY CacheFrameHolds DEF downloads
  <2> QED BY <1>3, <2>1, CacheStepHolds
<1>10. MigrationInv'
  <2>1. UNCHANGED migration => MigrationInv'
    BY MigrationFrameHolds DEF migration
  <2> QED BY <1>5, <2>1, MigrationStepHolds
<1>11. UNCHANGED polling \/ Polling!Next
  BY DEF Next, vars, MongoStep, InfoStep, DownloadStep, SongStep, PollingStep, FormStep, MigrationStep
<1>12. PollingInv'
  <2>1. ASSUME UNCHANGED polling PROVE PollingInv'
    <3>1. samples' = samples /\ samples' \in 0..MaxSamples /\ samples <= samples' /\ UNCHANGED <<client, disturbed>>
      BY <2>1, SamplesAssumption DEF polling, PollingInv
    <3> QED BY <3>1, PollingFrameHolds
  <2> QED BY <1>11, <2>1, PollingHolds
<1>13. UNCHANGED form \/ Form!Next
  BY DEF Next, vars, MongoStep, InfoStep, DownloadStep, SongStep, PollingStep, FormStep, MigrationStep
<1>14. FormInv'
  BY <1>13, FormFrameHolds, FormHolds
<1>15. LevelsInv'
  BY <1>4, LevelsFrameHolds, LevelsHold
<1> QED BY <1>6, <1>7, <1>8, <1>9, <1>10, <1>12, <1>14, <1>15

\* The inductive invariant of the services together.
THEOREM ServicesInvariance == Spec => []IInv
<1>1. Init => IInv
  BY InitHolds
<1>2. IInv /\ [Next]_vars => IInv'
  BY StepHolds
<1> QED BY <1>1, <1>2, PTL DEF Spec

\* A database that is down is being recovered (MongoDatabase.startRecovery, called by a failed
\* heartbeat and by whoever calls ready).
THEOREM DownDatabaseIsRecovering == Spec => []DownIsRecovering
<1>1. IInv => DownIsRecovering
  BY DEF IInv
<1> QED BY <1>1, ServicesInvariance, PTL

\* What a complete refresh of a server learnt stays in the cache (InfoServiceBase.mergeAndPersist
\* and ensureCacheLoaded).
THEOREM InformationIsKept == Spec => []CacheKeepsKnown
<1>1. IInv => CacheKeepsKnown
  BY DEF IInv, InfoInv, InfoTyped, CacheKeepsKnown, Info!CacheKeepsKnown
<1> QED BY <1>1, ServicesInvariance, PTL

\* Whoever asks for the list of songs never gets an older one than was given out before
\* (SongsService.getSongsList), over failed fetches, failed writes and restarts.
THEOREM ListsGoForward == Spec => ListNeverGoesBack
<1>1. IInv /\ [Next]_vars => [given' >= given]_vars
  BY StepHolds
<1> QED BY <1>1, ServicesInvariance, PTL DEF Spec, ListNeverGoesBack

\* Nothing past its time to live is given out as fresh (Downloader.downloadCache).
THEOREM FreshStaysFresh == Spec => []FreshIsFresh
<1>1. IInv => FreshIsFresh
  BY DEF IInv, CacheInv, FreshIsFresh
<1> QED BY <1>1, ServicesInvariance, PTL

\* At most one download of a URL is under way, so that its temporary files have one writer
\* (Downloader.fetchAndStore).
THEOREM DownloadsAreShared == Spec => []Downloads!OneDownload
<1>1. IInv => Downloads!OneDownload
  BY CacheShares DEF IInv
<1> QED BY <1>1, ServicesInvariance, PTL

\* No player of the old documents is lost, and none is left with an older profile
\* (MonthlyRankingService.migrateLegacyPlayers and migrateRenamePlayersCollection).
THEOREM PlayersStay == Spec => []PlayersAreKept
<1>1. IInv => PlayersAreKept
  BY MigrationKeeps DEF IInv, PlayersAreKept
<1> QED BY <1>1, ServicesInvariance, PTL

\* The tracks on the page are those of its query, without a gap, but for the two disturbances that
\* the history variable names (usePointsPolling: refresh, watch(filters), watch(enabled)).
THEOREM TracksAreOneHistory == Spec => []TracksAreOneHistoryUnlessDisturbed
<1>1. IInv => TracksAreOneHistoryUnlessDisturbed
  BY PollingTells DEF IInv
<1> QED BY <1>1, ServicesInvariance, PTL

\* While the polling is on a timer is set or a request that sets one is under way
\* (usePointsPolling: refreshAndSchedule and scheduleNextBoundaryRefresh).
THEOREM ThePollingGoesOn == Spec => []PollingGoesOn
<1>1. IInv => PollingGoesOn
  BY DEF IInv, PollingInv
<1> QED BY <1>1, ServicesInvariance, PTL

\* The form of either page is what was typed or fetched last, and the plan beside it the form's
\* (InteractiveScoreView.vue: runAnalysis and its timer; AutoView.vue; PlayerDeckFetcher.vue).
THEOREM ShownIsTheForms == Spec => []ShownIsCurrent
<1>1. IInv => ShownIsCurrent
  BY FormShows DEF IInv
<1> QED BY <1>1, ServicesInvariance, PTL

\* The levels in memory follow the list whose hash is kept with them, but for the synchronisations
\* that the history variable names (songMetadataService.ts: performSync, loadState, persistState).
THEOREM LevelsFollowTheirList == Spec => []LevelsFollowSourceUnlessTorn
<1>1. IInv => LevelsFollowSourceUnlessTorn
  BY LevelsTell DEF IInv
<1> QED BY <1>1, ServicesInvariance, PTL
=============================================================================
