---------------------------- MODULE MCTopHistory ----------------------------
(* Small instances of TopHistory. *)
EXTENDS TopHistory

CONSTANTS s1, s2

MCRankings == {<< <<1, 3>>, <<2, 2>> >>, << <<1, 4>>, <<2, 2>> >>}
MCOneRanking == {<< <<1, 3>> >>}
=============================================================================
