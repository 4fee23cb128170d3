----------------------------- MODULE PointsTable ----------------------------
(***************************************************************************)
(* backend parsers/BestdoriPointsParser.ts with services/pointsService.ts, *)
(* and frontend features/points/pointsMath.ts: the tracks of the top       *)
(* players the server answers with, completely or from a last sample, what *)
(* the browser merges them to, and the table of what each player gained.   *)
(* A history holds at each time a ranking: the players in their order,     *)
(* with their points.  Tracks are functions from players to the points at  *)
(* each of their times, -1 where the player was not in the ranking.        *)
(***************************************************************************)
EXTENDS Integers, Sequences, FiniteSets, FiniteSetsExt, Functions

CONSTANT TopSize    \* players of a complete ranking: 10 in the code

Missing == -1
NoTracks == <<>>

\* sanitizePoints, and getPointTrack: the last complete ranking of each sampling interval.
Complete(history) == {t \in DOMAIN history : Len(history[t]) = TopSize}
Sampled(history, interval) ==
  {t \in Complete(history) : \A u \in Complete(history) : u \div interval = t \div interval => u <= t}

PointsOf(ranking, uid) == LET at == {i \in DOMAIN ranking : ranking[i].uid = uid}
  IN  IF at = {} THEN Missing ELSE ranking[CHOOSE i \in at : TRUE].points

\* buildPointTrack: the rankings of the window, from the last one the client has (0: all of them).
BuildPointTrack(history, interval, window, last) ==
  LET times == Sampled(history, interval)
      asked == {t \in times : t >= Max(times) - window /\ t >= last}
      uids == UNION {{history[t][i].uid : i \in DOMAIN history[t]} : t \in asked}
  IN  [uid \in uids |-> [t \in asked |-> PointsOf(history[t], uid)]]

-----------------------------------------------------------------------------
\* Faulty variant: a track that comes in replaces the whole track.
FaultyMergeTracks(current, incoming) ==
  [uid \in DOMAIN current \union DOMAIN incoming |-> IF uid \in DOMAIN incoming THEN incoming[uid] ELSE current[uid]]

\* mergeTracks: what comes in replaces what is there, point by point.
Over(track, tracks, uid) ==
  IF uid \notin DOMAIN tracks THEN track
  ELSE [t \in DOMAIN track \union DOMAIN tracks[uid] |-> IF t \in DOMAIN tracks[uid] THEN tracks[uid][t] ELSE track[t]]

MergeTracks(current, incoming) ==
  [uid \in DOMAIN current \union DOMAIN incoming |-> Over(Over(<<>>, current, uid), incoming, uid)]

\* latestTimestamp takes the first player's; which one is first depends on the answers' order.
LatestTimestamps(tracks) == {Max(DOMAIN tracks[uid]) : uid \in {v \in DOMAIN tracks : DOMAIN tracks[v] # {}}}

-----------------------------------------------------------------------------
Timeline(tracks) == UNION {DOMAIN tracks[uid] : uid \in DOMAIN tracks}
ValueAt(track, t) == IF t \in DOMAIN track THEN track[t] ELSE Missing

\* createCell: what a player gained since it was seen last, at the row before or (in brackets)
\* earlier.
Gained(track, timeline, t) ==
  LET before == {u \in timeline : u < t /\ ValueAt(track, u) # Missing}
  IN  IF before = {} THEN 0 ELSE ValueAt(track, t) - ValueAt(track, Max(before))

\* toTableModel and buildCells: "-" where a player has no points.
ToTableModel(tracks) ==
  [t \in Timeline(tracks) |-> [uid \in DOMAIN tracks |->
     IF ValueAt(tracks[uid], t) = Missing THEN [shown |-> "-", points |-> Missing]
     ELSE [shown |-> Gained(tracks[uid], Timeline(tracks), t), points |-> tracks[uid][t]]]]

-----------------------------------------------------------------------------
\* A client that asked when the history had the first n rankings, and then from its last sample.
Prefix(history, n) == [t \in 1..n |-> history[t]]
AfterTwoPolls(history, interval, window, n, last) ==
  MergeTracks(BuildPointTrack(Prefix(history, n), interval, window, 0),
              BuildPointTrack(history, interval, window, last))

\* The table of tracks merged from two answers shows everything the table of one complete answer
\* shows, each cell what the player had in that ranking.
TableHoldsHistory(history, interval, window, n) ==
  Complete(Prefix(history, n)) # {} =>
    LET first == BuildPointTrack(Prefix(history, n), interval, window, 0)
        full == BuildPointTrack(history, interval, window, 0)
    IN  \A last \in LatestTimestamps(first) :
          LET tracks == AfterTwoPolls(history, interval, window, n, last)
              table == ToTableModel(tracks)
          IN  /\ Timeline(full) \subseteq DOMAIN table /\ DOMAIN full \subseteq DOMAIN tracks
              /\ \A t \in DOMAIN table, uid \in DOMAIN tracks : table[t][uid].points = PointsOf(history[t], uid)

\* What a player gained adds up to the difference between its last and its first points.
GainsAddUp(history, interval, window, n) ==
  Complete(Prefix(history, n)) # {} =>
    \A last \in LatestTimestamps(BuildPointTrack(Prefix(history, n), interval, window, 0)) :
      LET tracks == AfterTwoPolls(history, interval, window, n, last)
          table == ToTableModel(tracks)
          rowsOf(uid) == {t \in DOMAIN table : table[t][uid].points # Missing}
      IN  \A uid \in DOMAIN tracks : rowsOf(uid) # {} =>
            MapThenSumSet(LAMBDA t : table[t][uid].shown, rowsOf(uid))
              = table[Max(rowsOf(uid))][uid].points - table[Min(rowsOf(uid))][uid].points

TableTellsHistory(history, interval, window, n) ==
  TableHoldsHistory(history, interval, window, n) /\ GainsAddUp(history, interval, window, n)
=============================================================================
