--------------------------- MODULE MCTopEventChain ---------------------------
(* A small instance of TopEventChain. *)
EXTENDS TopEventChain

\* Between these: one score changed; another order and every score changed.
MCRankings == {<< <<1, 3>>, <<2, 2>> >>, << <<1, 4>>, <<2, 2>> >>, << <<2, 4>>, <<1, 3>> >>}
MCLegacy == << [time |-> 1, ranking |-> << <<7, 1>> >>],
               [time |-> 3, ranking |-> << <<7, 2>> >>] >>
=============================================================================
