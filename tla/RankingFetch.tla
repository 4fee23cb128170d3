---------------------------- MODULE RankingFetch ----------------------------
(***************************************************************************)
(* api/garupa.ts, parsers/GarupaResponseValidator.ts and                   *)
(* GarupaEventRankingParser.ts: a ranking is requested, decoded, validated *)
(* and, when the answer seems to be that of another request, requested     *)
(* once more.  On the server CN the game may consume the request identifier*)
(* and leave the cached answer of another request.                         *)
(*                                                                         *)
(* An answer is [status, of, borders, decodes]: the status of HTTP, the    *)
(* ranking it really is of, the tiers of its borders and whether it can be *)
(* decoded; a lost request has the status Lost.                            *)
(***************************************************************************)
EXTENDS Integers, Sequences

CN == 3
Lost == 0
EventTypes == {"medley", "challenge", "versus", "live_try", "story", "mission_live", "festival"}
Kinds == EventTypes \union {"monthly"}

\* The border tiers that tell the rankings apart: 1500 is the events' only.
Tiers(kind) ==
  CASE kind = "story" -> {}            \* buildStoryReport: top users only
    [] kind = "monthly" -> {2000}
    [] OTHER -> {1500, 2000}

\* buildUsers and the report of the type: the users of the borders that have an entry.
Report(answer, kind) ==
  [of |-> answer.of, borders |-> IF kind = "story" THEN {} ELSE answer.borders]

-----------------------------------------------------------------------------
\* Faulty variant: without the tier of the events the ranking is taken.
FaultyValidEvent(report, server) == TRUE

\* validateEventRanking: the higher tier without the events' own is a monthly ranking.
ValidEvent(report, server) ==
  server = CN => 1500 \in report.borders \/ 2000 \notin report.borders

\* validateMonthlyRanking
ValidMonthly(report, server) == server = CN => 1500 \notin report.borders

Valid(report, kind, server) ==
  IF kind = "monthly" THEN ValidMonthly(report, server) ELSE ValidEvent(report, server)

\* fetchRankingBuffer: an answer that is lost or is not 2xx ends the call.
Refused(answer) == answer.status = Lost \/ answer.status < 200 \/ answer.status >= 300

Failed(requests, diag) == [taken |-> <<>>, requests |-> requests, diag |-> diag]
Success(answer, requests) == [taken |-> <<answer>>, requests |-> requests, diag |-> <<>>]

\* Within the try block whatever fails saves the first answer and ends the call.
Attempt(answers, kind, server) ==
  LET again == answers[2]
  IN  IF ~answers[1].decodes THEN Failed(1, <<answers[1]>>)
      ELSE IF Valid(Report(answers[1], kind), kind, server) THEN Success(answers[1], 1)
      ELSE IF Refused(again) \/ ~again.decodes \/ ~Valid(Report(again, kind), kind, server)
        THEN Failed(2, <<answers[1]>>)
      ELSE Success(again, 2)

\* fetchEventRanking, for any type the parser supports
FetchEventRanking(answers, kind, server) ==
  IF Refused(answers[1]) THEN Failed(1, <<>>) ELSE Attempt(answers, kind, server)

\* fetchMonthlyRanking
FetchMonthlyRanking(answers, server) ==
  IF Refused(answers[1]) THEN Failed(1, <<>>) ELSE Attempt(answers, "monthly", server)

FetchRanking(answers, kind, server) ==
  IF kind = "monthly" THEN FetchMonthlyRanking(answers, server)
  ELSE FetchEventRanking(answers, kind, server)

-----------------------------------------------------------------------------
\* The answers the server may give: of the ranking itself or, on CN, of another one; borders are
\* empty while a ranking begins.  A monthly ranking of another month or an event's of another song
\* looks the same and is not told apart.
Answers(kind, server) ==
  {a \in [status : {Lost, 200, 500}, of : Kinds, borders : SUBSET {1500, 2000}, decodes : BOOLEAN] :
     /\ a.of # kind => server = CN /\ "monthly" \in {kind, a.of}
     /\ a.borders \in {{}, Tiers(a.of)}
     /\ a.status # 200 => a.of = kind /\ a.decodes /\ a.borders = {}}

\* A ranking that is taken has been answered completely, with at most one repetition, and is the
\* one that was asked for unless the other's borders were still empty or a story event, which has
\* none, was asked for; an answer of this ranking is never refused but for its own failures.
OnlyOwnRanking(answers, kind, server) ==
  LET call == FetchRanking(answers, kind, server)
  IN  /\ call.requests <= 2
      /\ \A i \in DOMAIN call.taken :
           /\ ~Refused(call.taken[i]) /\ call.taken[i].decodes
           /\ call.taken[i].of = kind \/ call.taken[i].borders = {} \/ "story" \in {kind, call.taken[i].of}
      /\ call.taken = <<>> =>
           \E i \in 1..call.requests : Refused(answers[i]) \/ ~answers[i].decodes \/ answers[i].of # kind
=============================================================================
