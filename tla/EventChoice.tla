----------------------------- MODULE EventChoice ----------------------------
(***************************************************************************)
(* Which event is the present one is decided three times, from different   *)
(* lists: by the rankings (infoServiceBase.ts, from the information of the *)
(* game), by the player's deck (playerDeckService.ts, from Bestdori) and   *)
(* by the page (eventSelection.ts, from the list that eventsService.ts     *)
(* merges of both).  One server is followed.  A list is a function from    *)
(* the events it has to what it knows of them; Unknown is null.            *)
(***************************************************************************)
EXTENDS Integers, FiniteSets, FiniteSetsExt

Unknown == -1
Day == 2             \* in units of the model's time
NoEvent == 0
Distance(t, now) == IF t < now THEN now - t ELSE t - now
Known(list, id) == list[id].startAt # Unknown /\ list[id].endAt # Unknown
Contains(list, id, now) == Known(list, id) /\ list[id].startAt <= now /\ now <= list[id].endAt

-----------------------------------------------------------------------------
\* findActiveId: of the events that run, the one that began last.
FindActiveId(local, now) ==
  LET running == {id \in DOMAIN local : Contains(local, id, now)}
  IN  IF running = {} THEN NoEvent
      ELSE CHOOSE id \in running : \A other \in running : local[other].startAt <= local[id].startAt

\* getPresentEvent: an event counts from a day before it begins, the one with the smallest id
\* first; else the one that begins, or began, nearest to now.
GetPresentEvent(bestdori, now) ==
  LET ongoing == {id \in DOMAIN bestdori :
                    /\ Known(bestdori, id)
                    /\ bestdori[id].startAt - Day <= now /\ now <= bestdori[id].endAt}
      started == {id \in DOMAIN bestdori : bestdori[id].startAt # Unknown}
      distance(id) == Distance(bestdori[id].startAt, now)
  IN  IF ongoing # {} THEN Min(ongoing)
      ELSE IF started = {} THEN NoEvent
      ELSE Min({id \in started : \A other \in started : distance(id) <= distance(other)})

-----------------------------------------------------------------------------
\* Faulty variant: what the game told replaces what Bestdori told.
FaultyPreferred(value, fallback) == value

Preferred(value, fallback) == IF value # Unknown THEN value ELSE fallback

\* getEventList: Bestdori's list, completed field by field from the game's; one of them may fail.
GetEventList(bestdori, local) ==
  LET of(list, id, field) == IF id \in DOMAIN list THEN list[id][field] ELSE Unknown
      merged(id, field) == Preferred(of(local, id, field), of(bestdori, id, field))
  IN  [id \in DOMAIN bestdori \union DOMAIN local |->
         [startAt |-> merged(id, "startAt"), endAt |-> merged(id, "endAt")]]

\* buildEventOptions: the events whose times are known.
Options(list) == {id \in DOMAIN list : Known(list, id)}

\* compareByProximity: the nearer beginning, then the later one, then the smaller id.
Nearer(list, a, b, now) ==
  LET da == Distance(list[a].startAt, now)
      db == Distance(list[b].startAt, now)
  IN  \/ da < db
      \/ da = db /\ list[b].startAt < list[a].startAt
      \/ da = db /\ list[b].startAt = list[a].startAt /\ a <= b
Nearest(list, ids, now) == CHOOSE id \in ids : \A other \in ids : Nearer(list, id, other, now)

\* selectBestEventId: an event that runs, else the nearest one.
SelectBestEventId(list, now) ==
  LET options == Options(list)
      running == {id \in options : Contains(list, id, now)}
  IN  IF running # {} THEN Nearest(list, running, now)
      ELSE IF options # {} THEN Nearest(list, options, now)
      ELSE NoEvent

\* bootstrapEventOptions: the event of the page stays if the server has it.
EventOfPage(list, current, now) ==
  IF current \in Options(list) \/ SelectBestEventId(list, now) = NoEvent THEN current
  ELSE SelectBestEventId(list, now)

-----------------------------------------------------------------------------
\* What a source tells of the schedule: nothing of some events, one time or both of the others.
Tells(schedule) ==
  [DOMAIN schedule -> [startAt : BOOLEAN, endAt : BOOLEAN]]
Told(schedule, knows) ==
  [id \in DOMAIN schedule |->
     [startAt |-> IF knows[id].startAt THEN schedule[id].startAt ELSE Unknown,
      endAt |-> IF knows[id].endAt THEN schedule[id].endAt ELSE Unknown]]

\* While an event runs (events of a server follow each other in the order of their ids), whoever
\* knows when it runs chooses it: the rankings that are captured, the bonuses of the deck and the
\* page all speak of the same event, although each reads another list and the next event's
\* preparation has begun; what either list knows, the page knows, from one list if the other failed.
ChoicesAgree(schedule, bestdori, local, now) ==
  \A id \in DOMAIN schedule : Contains(schedule, id, now) =>
    LET b == Told(schedule, bestdori)
        l == Told(schedule, local)
    IN  /\ FindActiveId(l, now) = (IF Known(l, id) THEN id ELSE NoEvent)
        /\ Known(b, id) \/ Known(l, id) => id \in Options(GetEventList(b, l))
        /\ Known(b, id) => GetPresentEvent(b, now) = id
        /\ \A list \in {GetEventList(b, l), GetEventList(b, <<>>), GetEventList(<<>>, l)} :
             id \in Options(list) =>
               /\ SelectBestEventId(list, now) = id
               /\ EventOfPage(list, NoEvent, now) = id
=============================================================================
