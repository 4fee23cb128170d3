--------------------------- MODULE PlayerMigration ---------------------------
(***************************************************************************)
(* services/monthlyRankingService.ts: at start-up, before the months are   *)
(* checked, the players that old documents embed are moved into            *)
(* ranking_players, then the old collection monthly_ranking_players is     *)
(* renamed to it.  The process may die between any two writes, and the     *)
(* seeding of the events writes players at the same time (index.ts runs    *)
(* both bootstraps at once), as the pollers do when both have ended.       *)
(*                                                                         *)
(* A document, in the order of the months and buckets, is a number; so is  *)
(* a profile: that of the document it was taken from, Polled from an old   *)
(* program's or Fresh from this one's ranking, or 0.                       *)
(***************************************************************************)
EXTENDS Integers, FiniteSets, FiniteSetsExt

CONSTANTS
  Players, Documents,
  MaxRestarts      \* bound

VARIABLES
  users,       \* the players in each document
  legacy,      \* the documents that still embed users
  previous,    \* monthly_ranking_players: does it exist, and its profiles
  ranked,      \* ranking_players
  completed,   \* the keys in the collection of metadata
  bootstrap,   \* what bootstrap does: pc, the documents read, what is still to be written
  split,       \* history: a restart, or a failure, after some documents were cleaned
  skipped,     \* history: the old collection was given up
  restarts

vars == <<users, legacy, previous, ranked, completed, bootstrap, split, skipped, restarts>>

Polled == Documents + 1
Fresh == Documents + 2
Missing == [exists |-> FALSE, of |-> [p \in Players |-> 0]]
Begun == [pc |-> "find", read |-> {}, pending |-> {}]

With(docs, p) == {d \in docs : p \in users[d]}

\* Faulty variant: the documents are not sorted.
FaultyLatest(docs, p) == IF With(docs, p) = {} THEN 0 ELSE Min(With(docs, p))

\* The profile that is left when the documents are gone through in their order.
Latest(docs, p) == IF With(docs, p) = {} THEN 0 ELSE Max(With(docs, p))

\* Never migrated; migrated by an older program, into the old collection; or that one was interrupted.
Init ==
  LET all == 1..Documents
      old(version) == [exists |-> TRUE, of |-> [p \in Players |-> version[p]]]
  IN  /\ users \in [all -> SUBSET Players \ {{}}]
      /\ \/ legacy = all /\ previous = Missing /\ completed = {} /\ split = FALSE
         \/ legacy = {} /\ completed = {"players"} /\ split = FALSE
            /\ previous = old([p \in Players |-> IF With(all, p) = {} THEN 0 ELSE Polled])
         \/ legacy \in SUBSET all /\ completed = {} /\ split = (legacy \notin {{}, all})
            /\ previous = old([p \in Players |-> Latest(all, p)])
      /\ ranked = Missing /\ bootstrap = Begun /\ skipped = FALSE
      /\ restarts = 0

Go(pc) == bootstrap' = [bootstrap EXCEPT !.pc = pc]

-----------------------------------------------------------------------------
\* migrateLegacyPlayers up to the writes.
FindLegacy ==
  /\ bootstrap.pc = "find"
  /\ IF "players" \in completed THEN Go("names")
     ELSE IF legacy = {} THEN Go("markPlayers")
     ELSE bootstrap' = [pc |-> "write", read |-> legacy, pending |-> UNION {users[d] : d \in legacy}]
  /\ UNCHANGED <<users, legacy, previous, ranked, completed, split, skipped, restarts>>

\* The profiles are written together, in any order; then the documents are cleaned.
WritePlayer == \E p \in bootstrap.pending :
  /\ bootstrap.pc = "write"
  /\ ranked' = [exists |-> TRUE, of |-> [ranked.of EXCEPT ![p] = Latest(bootstrap.read, p)]]
  /\ bootstrap' = IF bootstrap.pending = {p} THEN [bootstrap EXCEPT !.pc = "clean", !.pending = bootstrap.read]
             ELSE [bootstrap EXCEPT !.pending = @ \ {p}]
  /\ UNCHANGED <<users, legacy, previous, completed, split, skipped, restarts>>

CleanDocument == \E d \in bootstrap.pending :
  /\ bootstrap.pc = "clean" /\ legacy' = legacy \ {d}
  /\ bootstrap' = IF bootstrap.pending = {d} THEN [bootstrap EXCEPT !.pc = "markPlayers", !.pending = {}]
             ELSE [bootstrap EXCEPT !.pending = @ \ {d}]
  /\ UNCHANGED <<users, previous, ranked, completed, split, skipped, restarts>>

MarkPlayers ==
  /\ bootstrap.pc = "markPlayers" /\ completed' = completed \union {"players"} /\ Go("names")
  /\ UNCHANGED <<users, legacy, previous, ranked, split, skipped, restarts>>

\* migrateRenamePlayersCollection up to the renaming.
ListNames ==
  /\ bootstrap.pc = "names"
  /\ Go(IF "rename" \in completed THEN "done"
        ELSE IF ~previous.exists \/ ranked.exists THEN "markRename" ELSE "rename")
  /\ skipped' = (skipped \/ ("rename" \notin completed /\ previous.exists /\ ranked.exists))
  /\ UNCHANGED <<users, legacy, previous, ranked, completed, split, restarts>>

\* renameCollection of the database: a target that appeared meanwhile is left alone, or refused by MongoDB.
Rename ==
  /\ bootstrap.pc = "rename"
  /\ \/ ~ranked.exists /\ ranked' = previous /\ previous' = Missing /\ Go("markRename") /\ UNCHANGED skipped
     \/ ranked.exists /\ Go("markRename") /\ skipped' = TRUE /\ UNCHANGED <<ranked, previous>>
     \/ ranked.exists /\ Go("done") /\ UNCHANGED <<ranked, previous, skipped>>
  /\ UNCHANGED <<users, legacy, completed, split, restarts>>

MarkRename ==
  /\ bootstrap.pc = "markRename" /\ completed' = completed \union {"rename"} /\ Go("done")
  /\ UNCHANGED <<users, legacy, previous, ranked, split, skipped, restarts>>

-----------------------------------------------------------------------------
\* A player in the seed of an event or, when the bootstraps have ended, in a ranking.
Sample == \E p \in Players :
  /\ ranked' = [exists |-> TRUE, of |-> [ranked.of EXCEPT ![p] = Fresh]]
  /\ UNCHANGED <<users, legacy, previous, completed, bootstrap, split, skipped, restarts>>

\* The process restarts, or a call of the database failed, ended the bootstrap and it is restarted later.
Restart ==
  /\ restarts < MaxRestarts /\ restarts' = restarts + 1 /\ bootstrap' = Begun
  /\ split' = (split \/ (bootstrap.pc = "clean" /\ bootstrap.pending # bootstrap.read))
  /\ UNCHANGED <<users, legacy, previous, ranked, completed, skipped>>

Next ==
  \/ FindLegacy \/ WritePlayer \/ CleanDocument \/ MarkPlayers \/ ListNames \/ Rename \/ MarkRename
  \/ Sample \/ Restart

Spec == Init /\ [][Next]_vars

-----------------------------------------------------------------------------
\* No player is lost, wherever the bootstrap is interrupted: the profile is where readers look for
\* it, or still where the next bootstrap takes it from (unless the old collection was given up
\* because the new one existed already); and a profile taken from the documents is the latest one
\* (unless the bootstrap was interrupted when only some of them were cleaned).
PlayersAreKept ==
  LET all == 1..Documents
      known == {p \in Players : With(all, p) # {}}
  IN  \A p \in known :
        /\ \/ ranked.of[p] # 0
           \/ "players" \notin completed /\ With(legacy, p) # {}
           \/ "rename" \notin completed /\ previous.of[p] # 0
           \/ skipped
        /\ ~split /\ ranked.of[p] # 0 => \A d \in With(all, p) : d <= ranked.of[p]
=============================================================================
