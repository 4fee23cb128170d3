----------------------------- MODULE PlayerDeck -----------------------------
(***************************************************************************)
(* services/playerDeckService.ts with types/bestdori/area-item-meta.ts:    *)
(* what a player's main deck is worth in an event.  Powers are counted in  *)
(* hundredths, so that a percentage of a stat is a whole number; the       *)
(* service computes them in floating point and cuts the sums.              *)
(*                                                                         *)
(* A card is [character, band, attribute, rarity, stat, skill], stat a     *)
(* function from the levels that are known to the three dimensions; an     *)
(* entry of the deck is [card, level, rank, append].  An event is          *)
(* [type, characters, attributes, members, ranks, double, points,          *)
(* parameter]: percentages by character, attribute, card and <<rarity,     *)
(* rank>>, those of a card that has character and attribute (for powers,   *)
(* for points) and those by dimension.  Null and absent are 0.             *)
(***************************************************************************)
EXTENDS Integers, Sequences, FiniteSets, FiniteSetsExt

Dims == {"performance", "technique", "visual"}
PowerTypes == {"versus", "festival", "medley"}
Types == PowerTypes \union {"challenge", "mission_live", "live_try", "story"}
NoStat == [d \in Dims |-> 0]
Total(stat) == MapThenSumSet(LAMBDA d : stat[d], Dims)
Percent(table, key) == IF key \in DOMAIN table THEN table[key] ELSE 0

-----------------------------------------------------------------------------
\* loadCardsWithFallback: the list is loaded again if it lacks one of the cards.
LoadCards(cached, fresh, cards) == IF cards \subseteq DOMAIN cached THEN cached ELSE fresh

\* calcBaseStat
BaseStat(card, entry) ==
  IF entry.level \notin DOMAIN card.stat THEN NoStat
  ELSE [d \in Dims |-> card.stat[entry.level][d] + entry.append[d]]

\* calcAreaItemBonus: an item [attributes, bands, percent] that aims at both; in hundredths.
AreaItemBonus(item, card, base) ==
  IF card.attribute \in item.attributes /\ card.band \in item.bands
    THEN [d \in Dims |-> base[d] * item.percent[d]]
    ELSE NoStat

\* A card's power without the event, in hundredths.
NormalPower(card, entry, items) ==
  LET base == BaseStat(card, entry)
  IN  100 * Total(base) + MapThenSumSet(LAMBDA item : Total(AreaItemBonus(item, card, base)), items)

HasBoth(card, event) ==
  card.character \in DOMAIN event.characters /\ card.attribute \in DOMAIN event.attributes

\* calcCardEventBonus, in hundredths
CardEventBonus(card, id, entry, event) ==
  LET base == BaseStat(card, entry)
      double == IF HasBoth(card, event) THEN event.double ELSE 0
      percent == Percent(event.characters, card.character) + Percent(event.attributes, card.attribute)
                   + double + Percent(event.members, id) + Percent(event.ranks, <<card.rarity, entry.rank>>)
      parameter == IF HasBoth(card, event) THEN event.parameter ELSE NoStat
  IN  [d \in Dims |-> base[d] * percent + base[d] * parameter[d]]

\* Faulty variant: the bonus of powers counts in every event.
FaultyCardBonusPct(card, id, entry, event) ==
  Percent(event.characters, card.character) + Percent(event.attributes, card.attribute)
    + (IF HasBoth(card, event) THEN event.double ELSE 0)
    + Percent(event.members, id) + Percent(event.ranks, <<card.rarity, entry.rank>>)

\* calcCardBonusPct: the percentage for points.
CardBonusPct(card, id, entry, event) ==
  Percent(event.characters, card.character) + Percent(event.attributes, card.attribute)
    + (IF ~HasBoth(card, event) THEN 0 ELSE IF event.type \in PowerTypes THEN event.double ELSE event.points)
    + Percent(event.members, id) + Percent(event.ranks, <<card.rarity, entry.rank>>)

-----------------------------------------------------------------------------
\* The conditions under which an effect of a skill counts: judgements and life are taken as met.
Applicable(effect) == effect.condition \in {"none", "perfect", "great", "good", "bad"} \/ effect.life > 0

\* Whether the whole team is of the band and the attribute that unify it (0 and "" for none).
Unified(skill, team) ==
  /\ skill.band # 0 \/ skill.attribute # ""
  /\ \A card \in team :
       /\ skill.band # 0 => card.band = skill.band
       /\ skill.attribute # "" => card.attribute = skill.attribute

\* calcSkill: the greatest effect that counts, the one of a unified team if it is greater.
SkillBonus(skill, team) ==
  LET best == Max({0} \union {effect.value : effect \in {e \in skill.effects : Applicable(e)}})
  IN  IF skill.unified > best /\ Unified(skill, team) THEN skill.unified ELSE best

\* A member of the team who is not known has no band and no attribute.
Team(cards, deck) ==
  {IF deck[i].card \in DOMAIN cards
     THEN [band |-> cards[deck[i].card].band, attribute |-> cards[deck[i].card].attribute]
     ELSE [band |-> 0, attribute |-> ""] : i \in DOMAIN deck}

\* The order of the page: the leader in the middle; a deck of another size keeps its order.
Reordered(list) == IF Len(list) = 5 THEN [i \in 1..5 |-> list[<<4, 2, 1, 3, 5>>[i]]] ELSE list

NoEvent == [type |-> "none"]

\* What the caches hold of a card, and of an event.
CardTyped(card) ==
  /\ \A level \in DOMAIN card.stat : card.stat[level] \in [Dims -> Nat]
  /\ IsFiniteSet(card.skill.effects) /\ \A effect \in card.skill.effects : effect.value \in Nat
  /\ card.skill.unified \in Nat

EventTyped(event) ==
  /\ DOMAIN event = {"type", "characters", "attributes", "members", "ranks", "double", "points", "parameter"}
  /\ event.type \in Types /\ event.double \in Nat /\ event.points \in Nat /\ event.parameter \in [Dims -> Nat]
  /\ event.characters \in [DOMAIN event.characters -> Nat] /\ event.attributes \in [DOMAIN event.attributes -> Nat]
  /\ event.members \in [DOMAIN event.members -> Nat] /\ event.ranks \in [DOMAIN event.ranks -> Nat]

\* getPlayerDeckStatus; a card that is not known counts for nothing.
DeckStatus(cards, items, deck, event) ==
  LET known == {i \in DOMAIN deck : deck[i].card \in DOMAIN cards}
      card(i) == cards[deck[i].card]
      normal(i) == NormalPower(card(i), deck[i], items)
      bonus(i) == Total(CardEventBonus(card(i), deck[i].card, deck[i], event))
      Sum(op(_)) == MapThenSumSet(op, known)
      normalPower == Sum(normal)
      eventPower == normalPower + (IF event.type \in PowerTypes \union {"challenge"} THEN Sum(bonus) ELSE 0)
      points(i) == CardBonusPct(card(i), deck[i].card, deck[i], event)
      shown == [i \in DOMAIN deck |->
                  [of |-> deck[i].card,
                   bonus |-> IF i \in known THEN SkillBonus(card(i).skill, Team(cards, deck)) ELSE 0]]
  IN  [normalPower |-> normalPower, eventPower |-> eventPower,
       autoPower |-> IF event.type \in PowerTypes THEN eventPower ELSE normalPower,
       eventBonusPct |-> IF event = NoEvent THEN 0 ELSE Sum(points),
       skills |-> Reordered(shown)]

-----------------------------------------------------------------------------
\* What the page shows of a deck agrees with itself: in an event that is played with its powers,
\* each card's power grows by the percentage counted for points and by the bonus of the dimensions,
\* which points do not have; elsewhere an auto live has the power without the event; a percentage
\* for powers never counts for points elsewhere; the page's leader, the third, is the deck's, no
\* member is lost, and no skill counts less than an effect that is always met.
DeckIsTotalled(cached, fresh, items, deck, event) ==
  LET cards == LoadCards(cached, fresh, {deck[i].card : i \in DOMAIN deck})
      status == DeckStatus(cards, items, deck, event)
      known == {i \in DOMAIN deck : deck[i].card \in DOMAIN fresh}
      card(i) == fresh[deck[i].card]
      base(i) == BaseStat(card(i), deck[i])
      pct(i) == CardBonusPct(card(i), deck[i].card, deck[i], event)
      grown(i) == Total(base(i)) * pct(i)
                    + (IF HasBoth(card(i), event) THEN Total([d \in Dims |-> base(i)[d] * event.parameter[d]]) ELSE 0)
      own(i) == NormalPower(card(i), deck[i], items)
  IN  /\ status.normalPower = MapThenSumSet(own, known)
      /\ event.type \in PowerTypes =>
           /\ status.eventPower = status.normalPower + MapThenSumSet(grown, known)
           /\ status.autoPower = status.eventPower
      /\ event.type \notin PowerTypes => status.autoPower = status.normalPower
      /\ event.type \notin PowerTypes \union {"none"} =>
           status.eventBonusPct = DeckStatus(cards, items, deck, [event EXCEPT !.double = 0]).eventBonusPct
      /\ status.skills[3].of = deck[1].card
      /\ {status.skills[i].of : i \in DOMAIN deck} = {deck[i].card : i \in DOMAIN deck}
      /\ \A i \in known : \E k \in DOMAIN deck :
           /\ status.skills[k].of = deck[i].card
           /\ \A effect \in card(i).skill.effects :
                effect.condition = "none" => status.skills[k].bonus >= effect.value
=============================================================================
