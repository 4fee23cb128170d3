----------------------- MODULE RankingRefresh_proofs -----------------------
(***************************************************************************)
(* Proofs about the refreshes of a ranking: for every length of the        *)
(* ranking, every interval and any number of failures and restarts, the    *)
(* documents stay in the order of time and the final sample is stored.     *)
(*                                                                         *)
(* The invariant says who may be writing (one job at most: the poller's    *)
(* own, the bootstrap's or the auxiliary task's), what a replacing job has *)
(* still to write, and what stands at the end of the documents it has      *)
(* written.  A step is a job that goes on, a job that starts, a late write *)
(* that lands, a restart, or a step that writes nothing.                   *)
(***************************************************************************)
EXTENDS RankingRefresh, WellFoundedInduction, TLAPS

-----------------------------------------------------------------------------
\* The state: every entry of MongoDB is of the ranking's time.
Styles == {"seed", "append", "replace"}
Names == Histories \union {"players"}
Rankings == [kind : {"event", "monthly"}, v2 : BOOLEAN]
Sample == [time : StartAt .. EndAt, sample : Nat]
Job == [pc : {"idle", "writing", "down"}, style : Styles, e : [time : Nat, sample : Nat],
        unit : Nat, group : Nat, pending : SUBSET Names]
LateWrite == [style : Styles, name : Names, e : Sample]

TypeInv ==
  /\ now \in Nat /\ StartAt <= now
  /\ ranking \in Rankings
  /\ docs \in [Docs -> Seq(Sample)]
  /\ poll \in {"boot", "idle", "append", "replace", "persist"}
  /\ jobs \in [1 .. 2 -> Job]
  /\ late \subseteq LateWrite
  /\ entry \in [slot : Int, busy : BOOLEAN]
  /\ samples \in Nat
  /\ final \subseteq Nat

\* What starts as a replacement starts after the end; the poller of V1 only then.
AfterEnd == now >= EndAt /\ (~ranking.v2 => now > EndAt)

\* Where a job is in its units.
Placed(r, job) ==
  LET units == Units(r, job.style)
  IN  /\ job.e \in Sample
      /\ job.unit \in 1 .. Len(units) /\ job.group \in 1 .. Len(units[job.unit])
      /\ job.pending \subseteq units[job.unit][job.group]
      /\ job.pc \in {"writing", "down"} /\ (job.pc = "down" => job.pending = {})
      /\ job.style = "replace" => job.e.time = EndAt

\* Who may be writing: at most one job, the poller's own, the bootstrap's or the auxiliary task's.
Owned(job) ==
  /\ job.e.time <= now
  /\ job.style = "seed" <=> poll = "boot"
  /\ job.style = "seed" => ranking.kind = "event"
  /\ job.style # "seed" => IF ranking.v2 THEN entry.busy ELSE poll = "persist"
  /\ job.style = "replace" => AfterEnd

WorkInv ==
  /\ jobs[2] = Idle
  /\ jobs[1] # Idle => Placed(ranking, jobs[1]) /\ Owned(jobs[1])
  /\ poll = "replace" => AfterEnd

\* The entries of an undisturbed document are ordered, and no job writes an earlier one.
Ordered(d) ==
  /\ InOrder(docs[d])
  /\ \A i \in DOMAIN docs[d] :
       /\ docs[d][i].time <= now
       /\ jobs[1] # Idle /\ jobs[1].style # "seed" => docs[d][i].time <= jobs[1].e.time
OrderInv == \A d \in Docs : d[1] \in Undisturbed => Ordered(d)

\* Every entry is in the document of its time.
BucketInv == \A d \in Docs : \A i \in DOMAIN docs[d] : DocOf(d[1], docs[d][i].time) = d

\* The histories a refresh after the end replaces.
Scope(r) ==
  (IF r.kind = "event" THEN Histories ELSE {"top"} \union Borders) \ (IF r.v2 THEN {"top"} ELSE {})

\* What a replacing job has still to write.
Later(units, u, g) ==
  {n \in Names : \E x \in 1 .. Len(units) : \E y \in 1 .. Len(units[x]) :
                   n \in units[x][y] /\ (x > u \/ (x = u /\ y > g))}
Left(r, job) ==
  IF job.pc = "down" THEN Later(Units(r, job.style), job.unit, 0)
  ELSE job.pending \union Later(Units(r, job.style), job.unit, job.group)

\* One entry at the end, of one of the samples.
OneAtEnd(s, which) ==
  \E i \in DOMAIN s : /\ s[i].time = EndAt /\ s[i].sample \in which
                      /\ \A k \in DOMAIN s : s[k].time = EndAt => k = i
Stands(name, which) ==
  /\ docs[DocOf(name, EndAt)] # <<>>
  /\ name \in Undisturbed => OneAtEnd(docs[DocOf(name, EndAt)], which)

ReplaceInv ==
  jobs[1] # Idle /\ jobs[1].style = "replace" =>
    \A name \in Scope(ranking) \ Left(ranking, jobs[1]) : Stands(name, {jobs[1].e.sample})

FinalInv ==
  final # {} =>
    /\ AfterEnd
    /\ ~ranking.v2 => poll # "append"
    /\ jobs[1] # Idle => jobs[1].style = "replace"
    /\ \A name \in Scope(ranking) : Stands(name, final)

IInv == TypeInv /\ WorkInv /\ OrderInv /\ BucketInv /\ ReplaceInv /\ FinalInv

-----------------------------------------------------------------------------
\* The units of a persist function.
IsUnits(units) ==
  /\ units \in Seq(Seq(SUBSET Names))
  /\ Len(units) >= 1
  /\ \A u \in 1 .. Len(units) : Len(units[u]) >= 1

LEMMA UnitsAreUnits ==
  ASSUME NEW r \in Rankings, NEW style \in Styles
  PROVE  IsUnits(Units(r, style))
<1> DEFINE G == SUBSET Names
<1>0. {"top"} \in G /\ {"musicTop"} \in G /\ {"musicBorder"} \in G /\ Borders \in G
      /\ {"players"} \in G /\ {"border20"} \in G /\ {"border100"} \in G
  BY DEF Names, Histories, Borders
<1> DEFINE Good(unit) == unit \in Seq(G) /\ Len(unit) >= 1
<1>1. \A a, b \in G : Good(<<a>>) /\ Good(<<a, b>>)
  BY SMT
<1>2. Good(EventTopUnit) /\ Good(MusicTopUnit) /\ Good(MonthlyTopUnit)
  BY <1>0, <1>1 DEF EventTopUnit, MusicTopUnit, MonthlyTopUnit
<1>3. Good(EventBorderUnit) /\ Good(MusicBorderUnit) /\ Good(MonthlyBorderUnit)
  BY <1>0, <1>1 DEF EventBorderUnit, MusicBorderUnit, MonthlyBorderUnit
<1>4. Good(EventTopReplaceUnit) /\ Good(EventBorderReplaceUnit) /\ Good(MusicTopReplaceUnit)
      /\ Good(MusicBorderReplaceUnit) /\ Good(MonthlyTopReplaceUnit)
      /\ Good(MonthlyBorderReplaceUnit)
  BY <1>0, <1>1 DEF EventTopReplaceUnit, EventBorderReplaceUnit, MusicTopReplaceUnit,
     MusicBorderReplaceUnit, MonthlyTopReplaceUnit, MonthlyBorderReplaceUnit
<1>5. Good(<<{"border20"}>>) /\ Good(<<{"border100"}>>)
  BY <1>0, <1>1
<1> DEFINE Units4(us) == us \in Seq(Seq(G)) /\ Len(us) >= 2 /\ \A u \in 1 .. Len(us) : Len(us[u]) >= 1
<1>6. ASSUME NEW a, NEW b, Good(a), Good(b) PROVE Units4(<<a, b>>)
  BY <1>6
<1>7. ASSUME NEW a, NEW b, NEW c, Good(a), Good(b), Good(c) PROVE Units4(<<a, b, c>>)
  BY <1>7
<1>8. ASSUME NEW a, NEW b, NEW c, NEW d, Good(a), Good(b), Good(c), Good(d)
      PROVE  Units4(<<a, b, c, d>>)
  BY <1>8
<1> HIDE DEF Good, G
<1>9. Units4(SeedUnits) /\ Units4(AppendUnits(r.kind)) /\ Units4(ReplaceUnits(r.kind))
  <2> HIDE DEF Units4
  <2>1. Units4(SeedUnits)
    BY <1>2, <1>5, <1>7 DEF SeedUnits
  <2>2. Units4(EventAppendUnits) /\ Units4(EventReplaceUnits)
    BY <1>2, <1>3, <1>4, <1>8 DEF EventAppendUnits, EventReplaceUnits
  <2>3. Units4(MonthlyAppendUnits) /\ Units4(MonthlyReplaceUnits)
    BY <1>2, <1>3, <1>4, <1>6 DEF MonthlyAppendUnits, MonthlyReplaceUnits
  <2> QED BY <2>1, <2>2, <2>3 DEF AppendUnits, ReplaceUnits
<1>10. ASSUME NEW us, Units4(us) PROVE Units4(us) /\ IsUnits(us) /\ IsUnits(Tail(us))
  BY <1>10 DEF IsUnits, G
<1> QED BY <1>9, <1>10 DEF Units, Styles

\* The groups of a persist function follow each other.
LEMMA NextPlace ==
  ASSUME NEW units, IsUnits(units), NEW u \in 1 .. Len(units), NEW g \in 1 .. Len(units[u])
  PROVE  /\ Len(units) \in Nat /\ Len(units[u]) \in Nat
         /\ units[u][g] \subseteq Names
         /\ g < Len(units[u]) =>
              /\ g + 1 \in 1 .. Len(units[u])
              /\ Later(units, u, g) = units[u][g + 1] \union Later(units, u, g + 1)
         /\ ~(g < Len(units[u])) /\ u < Len(units) =>
              /\ u + 1 \in 1 .. Len(units) /\ 1 \in 1 .. Len(units[u + 1])
              /\ Later(units, u, g) = units[u + 1][1] \union Later(units, u + 1, 1)
         /\ ~(g < Len(units[u])) /\ ~(u < Len(units)) => Later(units, u, g) = {}
<1>1. /\ Len(units) \in Nat /\ DOMAIN units = 1 .. Len(units)
      /\ \A x \in 1 .. Len(units) : /\ units[x] \in Seq(SUBSET Names) /\ Len(units[x]) \in Nat
                                    /\ Len(units[x]) >= 1
  BY DEF IsUnits
<1>2. \A x \in 1 .. Len(units) : \A y \in 1 .. Len(units[x]) : units[x][y] \subseteq Names
  BY <1>1
<1>3. ASSUME g < Len(units[u])
      PROVE  /\ g + 1 \in 1 .. Len(units[u])
             /\ Later(units, u, g) = units[u][g + 1] \union Later(units, u, g + 1)
  <2>1. g + 1 \in 1 .. Len(units[u])
    BY <1>1, <1>3
  <2>2. \A x \in 1 .. Len(units) : \A y \in 1 .. Len(units[x]) :
          (x > u \/ (x = u /\ y > g)) <=> ((x = u /\ y = g + 1) \/ (x > u \/ (x = u /\ y > g + 1)))
    BY <1>1
  <2> QED BY <2>1, <2>2, <1>2 DEF Later
<1>4. ASSUME ~(g < Len(units[u])), u < Len(units)
      PROVE  /\ u + 1 \in 1 .. Len(units) /\ 1 \in 1 .. Len(units[u + 1])
             /\ Later(units, u, g) = units[u + 1][1] \union Later(units, u + 1, 1)
  <2>1. u + 1 \in 1 .. Len(units) /\ 1 \in 1 .. Len(units[u + 1])
    BY <1>1, <1>4
  <2>2. \A x \in 1 .. Len(units) : \A y \in 1 .. Len(units[x]) :
          (x > u \/ (x = u /\ y > g))
            <=> ((x = u + 1 /\ y = 1) \/ (x > u + 1 \/ (x = u + 1 /\ y > 1)))
    BY <1>1, <1>4
  <2> QED BY <2>1, <2>2, <1>2 DEF Later
<1>5. ASSUME ~(g < Len(units[u])), ~(u < Len(units)) PROVE Later(units, u, g) = {}
  BY <1>1, <1>5 DEF Later
<1> QED BY <1>1, <1>2, <1>3, <1>4, <1>5

\* The first group and what follows it is everything a persist function writes.
LEMMA FirstPlace ==
  ASSUME NEW units, IsUnits(units), NEW u \in 1 .. Len(units)
  PROVE  /\ 1 \in 1 .. Len(units) /\ 1 \in 1 .. Len(units[u])
         /\ units[u][1] \subseteq Names
         /\ Later(units, u, 0) = units[u][1] \union Later(units, u, 1)
         /\ \A g \in Nat : Later(units, u, g) \subseteq Later(units, u, 0)
         /\ \A g \in 1 .. Len(units[u]) : units[u][g] \subseteq Later(units, u, 0)
<1>1. /\ Len(units) \in Nat /\ DOMAIN units = 1 .. Len(units)
      /\ \A x \in 1 .. Len(units) : /\ units[x] \in Seq(SUBSET Names) /\ Len(units[x]) \in Nat
                                    /\ Len(units[x]) >= 1
  BY DEF IsUnits
<1>2. 1 \in 1 .. Len(units) /\ 1 \in 1 .. Len(units[u])
  BY <1>1
<1>3. units[u][1] \subseteq Names
  BY <1>1, <1>2
<1>4. \A x \in 1 .. Len(units) : \A y \in 1 .. Len(units[x]) :
        (x > u \/ (x = u /\ y > 0)) <=> ((x = u /\ y = 1) \/ (x > u \/ (x = u /\ y > 1)))
  BY <1>1
<1>5. Later(units, u, 0) = units[u][1] \union Later(units, u, 1)
  BY <1>2, <1>3, <1>4 DEF Later
<1>6. \A g \in Nat : Later(units, u, g) \subseteq Later(units, u, 0)
  BY <1>1 DEF Later
<1>7. \A g \in 1 .. Len(units[u]) : units[u][g] \subseteq Later(units, u, 0)
  BY <1>1 DEF Later
<1> QED BY <1>2, <1>3, <1>5, <1>6, <1>7

\* A replacement writes every history of the ranking that is stored here.

\* A replacement writes every history of the ranking that is stored here.
LEMMA ReplacementCovers ==
  ASSUME NEW r \in Rankings
  PROVE  Scope(r) \subseteq Later(Units(r, "replace"), 1, 0)
<1> DEFINE Within(us, S) ==
      \A n \in S : \E x \in 1 .. Len(us) : \E y \in 1 .. Len(us[x]) : n \in us[x][y]
<1>1. ASSUME NEW us, IsUnits(us), NEW S \in SUBSET Names, Within(us, S)
      PROVE  S \subseteq Later(us, 1, 0)
  BY <1>1 DEF Later, IsUnits
<1>2. Len(EventReplaceUnits) = 4 /\ Len(MonthlyReplaceUnits) = 2
  BY DEF EventReplaceUnits, MonthlyReplaceUnits
<1>3. /\ EventReplaceUnits[1] = <<{"top"}>>
      /\ EventReplaceUnits[2] = <<{"border20"}, {"border100"}>>
      /\ EventReplaceUnits[3] = <<{"musicTop"}>> /\ EventReplaceUnits[4] = <<{"musicBorder"}>>
  BY DEF EventReplaceUnits, EventTopReplaceUnit, EventBorderReplaceUnit, MusicTopReplaceUnit,
     MusicBorderReplaceUnit
<1>4. /\ MonthlyReplaceUnits[1] = <<{"top"}>>
      /\ MonthlyReplaceUnits[2] = <<{"border20"}, {"border100"}>>
  BY DEF MonthlyReplaceUnits, MonthlyTopReplaceUnit, MonthlyBorderReplaceUnit
<1>5. CASE r.kind = "event" /\ ~r.v2
  <2>1. Units(r, "replace") = EventReplaceUnits
    BY <1>5 DEF Units, ReplaceUnits
  <2>2. Scope(r) \subseteq {"top", "border20", "border100", "musicTop", "musicBorder"}
    BY <1>5 DEF Scope, Histories, Borders
  <2>3. ASSUME NEW us, Len(us) = 4, us[1] = <<{"top"}>>, us[2] = <<{"border20"}, {"border100"}>>,
               us[3] = <<{"musicTop"}>>, us[4] = <<{"musicBorder"}>>
        PROVE  Within(us, {"top", "border20", "border100", "musicTop", "musicBorder"})
    BY <2>3
  <2> HIDE DEF Within
  <2> QED BY <2>1, <2>2, <2>3, <1>2, <1>3, <1>1, UnitsAreUnits DEF Styles, Names, Histories, Borders
<1>6. CASE r.kind = "event" /\ r.v2
  <2>1. Units(r, "replace") = Tail(EventReplaceUnits)
    BY <1>6 DEF Units, ReplaceUnits
  <2>2. Scope(r) \subseteq {"border20", "border100", "musicTop", "musicBorder"}
    BY <1>6 DEF Scope, Histories, Borders
  <2>3. /\ Len(Tail(EventReplaceUnits)) = 3
        /\ Tail(EventReplaceUnits)[1] = <<{"border20"}, {"border100"}>>
        /\ Tail(EventReplaceUnits)[2] = <<{"musicTop"}>>
        /\ Tail(EventReplaceUnits)[3] = <<{"musicBorder"}>>
    BY DEF EventReplaceUnits, EventTopReplaceUnit, EventBorderReplaceUnit, MusicTopReplaceUnit,
       MusicBorderReplaceUnit
  <2>4. ASSUME NEW us, Len(us) = 3, us[1] = <<{"border20"}, {"border100"}>>,
               us[2] = <<{"musicTop"}>>, us[3] = <<{"musicBorder"}>>
        PROVE  Within(us, {"border20", "border100", "musicTop", "musicBorder"})
    BY <2>4
  <2> HIDE DEF Within
  <2> QED BY <2>1, <2>2, <2>3, <2>4, <1>1, UnitsAreUnits DEF Styles, Names, Histories, Borders
<1>7. CASE r.kind = "monthly" /\ ~r.v2
  <2>1. Units(r, "replace") = MonthlyReplaceUnits
    BY <1>7 DEF Units, ReplaceUnits
  <2>2. Scope(r) \subseteq {"top", "border20", "border100"}
    BY <1>7 DEF Scope, Histories, Borders
  <2>3. ASSUME NEW us, Len(us) = 2, us[1] = <<{"top"}>>, us[2] = <<{"border20"}, {"border100"}>>
        PROVE  Within(us, {"top", "border20", "border100"})
    BY <2>3
  <2> HIDE DEF Within
  <2> QED BY <2>1, <2>2, <2>3, <1>2, <1>4, <1>1, UnitsAreUnits DEF Styles, Names, Histories, Borders
<1>8. CASE r.kind = "monthly" /\ r.v2
  <2>1. Units(r, "replace") = Tail(MonthlyReplaceUnits)
    BY <1>8 DEF Units, ReplaceUnits
  <2>2. Scope(r) \subseteq {"border20", "border100"}
    BY <1>8 DEF Scope, Histories, Borders
  <2>3. /\ Len(Tail(MonthlyReplaceUnits)) = 1
        /\ Tail(MonthlyReplaceUnits)[1] = <<{"border20"}, {"border100"}>>
    BY DEF MonthlyReplaceUnits, MonthlyTopReplaceUnit, MonthlyBorderReplaceUnit
  <2>4. ASSUME NEW us, Len(us) = 1, us[1] = <<{"border20"}, {"border100"}>>
        PROVE  Within(us, {"border20", "border100"})
    BY <2>4
  <2> HIDE DEF Within
  <2> QED BY <2>1, <2>2, <2>3, <2>4, <1>1, UnitsAreUnits DEF Styles, Names, Histories, Borders
<1> QED BY <1>5, <1>6, <1>7, <1>8 DEF Rankings

-----------------------------------------------------------------------------
\* The least element of a set of numbers and, with it, induction over a set of numbers.
LEMMA LeastNatural ==
  ASSUME NEW T, T \subseteq Nat, T # {}
  PROVE  \E x \in T : \A y \in T : x <= y
<1>1. PICK x \in T : \A y \in T : <<y, x>> \notin OpToRel(<, Nat)
  BY WFMin, NatLessThanWellFounded
<1>2. \A y \in T : ~(y < x)
  BY <1>1 DEF OpToRel
<1> QED BY <1>2

LEMMA SetInduction ==
  ASSUME NEW T, 0 \in T, \A n \in Nat : n \in T => n + 1 \in T
  PROVE  \A n \in Nat : n \in T
<1> SUFFICES ASSUME Nat \ T # {} PROVE FALSE
  OBVIOUS
<1>1. PICK x \in Nat \ T : \A y \in Nat \ T : x <= y
  BY LeastNatural
<1>2. x - 1 \in Nat /\ x - 1 < x
  BY <1>1
<1>3. x - 1 \in T
  BY <1>1, <1>2
<1> QED BY <1>1, <1>2, <1>3

\* What is left of a document is defined: entry by entry.
LEMMA WithoutSteps ==
  ASSUME NEW s, NEW t, Len(s) \in Nat
  PROVE  /\ Without(s, t)[0] = <<>>
         /\ \A n \in 1 .. Len(s) :
              Without(s, t)[n] = IF s[n].time = t THEN Without(s, t)[n - 1]
                                 ELSE Append(Without(s, t)[n - 1], s[n])
<1> DEFINE Step(kept, x) == IF x.time = t THEN kept ELSE Append(kept, x)
           IsKept(g, k) == g = [n \in 0 .. k |-> IF n = 0 THEN <<>> ELSE Step(g[n - 1], s[n])]
           T == {k \in Nat : \E g : IsKept(g, k)}
<1>1. 0 \in T
  <2>1. IsKept([n \in 0 .. 0 |-> <<>>], 0)
    OBVIOUS
  <2> QED BY <2>1
<1>2. ASSUME NEW k \in Nat, k \in T PROVE k + 1 \in T
  <2>1. PICK g : IsKept(g, k)
    BY <1>2
  <2> DEFINE h == [n \in 0 .. k + 1 |-> IF n = k + 1 THEN Step(g[k], s[k + 1]) ELSE g[n]]
  <2> HIDE DEF Step
  <2>2. ASSUME NEW n \in 0 .. k + 1 PROVE h[n] = IF n = 0 THEN <<>> ELSE Step(h[n - 1], s[n])
    <3>1. CASE n = 0
      <4>1. h[n] = g[0] /\ 0 \in 0 .. k
        BY <3>1
      <4> QED BY <2>1, <3>1, <4>1
    <3>2. CASE n = k + 1
      <4>1. n # 0 /\ n - 1 = k /\ h[k] = g[k] /\ h[n] = Step(g[k], s[k + 1])
        BY <3>2
      <4> QED BY <3>2, <4>1
    <3>3. CASE n # 0 /\ n # k + 1
      <4>1. n \in 0 .. k /\ n - 1 \in 0 .. k + 1 /\ n - 1 # k + 1
        BY <3>3
      <4>2. h[n] = g[n] /\ h[n - 1] = g[n - 1]
        BY <3>3, <4>1
      <4>3. g[n] = Step(g[n - 1], s[n])
        BY <2>1, <3>3, <4>1
      <4> QED BY <3>3, <4>2, <4>3
    <3> QED BY <3>1, <3>2, <3>3
  <2>3. IsKept(h, k + 1)
    <3>1. h = [n \in 0 .. k + 1 |-> h[n]]
      OBVIOUS
    <3> HIDE DEF h
    <3> QED BY <2>2, <3>1
  <2>4. \E f : IsKept(f, k + 1)
    <3> HIDE DEF IsKept, h
    <3> QED BY <2>3
  <2> QED BY <2>4
<1>3. Len(s) \in T
  <2> HIDE DEF T
  <2> QED BY <1>1, <1>2, SetInduction
<1>4. \E g : IsKept(g, Len(s))
  BY <1>3
<1>5. Without(s, t) = CHOOSE g : IsKept(g, Len(s))
  BY DEF Without
<1> DEFINE W == Without(s, t)
<1>6. IsKept(W, Len(s))
  BY <1>4, <1>5
<1> HIDE DEF W, Step
<1>7. W[0] = <<>> /\ \A n \in 1 .. Len(s) : W[n] = Step(W[n - 1], s[n])
  BY <1>6
<1> QED BY <1>7 DEF W, Step

\* What is taken out of a document leaves its other entries, in their order.
LEMMA WithoutKeeps ==
  ASSUME NEW s \in Seq(Sample), NEW t \in Nat
  PROVE  LET w == Without(s, t)[Len(s)]
         IN  /\ w \in Seq(Sample)
             /\ \A i \in DOMAIN w : w[i].time # t /\ \E k \in DOMAIN s : w[i] = s[k]
             /\ InOrder(s) => InOrder(w)
<1> DEFINE W == Without(s, t)
           Keeps(n) ==
             /\ W[n] \in Seq(Sample)
             /\ \A i \in DOMAIN W[n] : /\ W[n][i].time # t
                                       /\ \E k \in 1 .. n : W[n][i] = s[k]
             /\ InOrder(s) => InOrder(W[n])
           T == {n \in Nat : n <= Len(s) => Keeps(n)}
<1>1. /\ W[0] = <<>>
      /\ \A n \in 1 .. Len(s) : W[n] = IF s[n].time = t THEN W[n - 1] ELSE Append(W[n - 1], s[n])
  BY WithoutSteps
<1> HIDE DEF W
<1>2. Len(s) \in Nat /\ DOMAIN s = 1 .. Len(s) /\ \A k \in 1 .. Len(s) : s[k] \in Sample
  OBVIOUS
<1>3. 0 \in T
  <2>1. <<>> \in Seq(Sample) /\ DOMAIN <<>> = {}
    OBVIOUS
  <2>2. Keeps(0)
    BY <1>1, <2>1 DEF InOrder
  <2> QED BY <2>2
<1>4. ASSUME NEW n \in Nat, n \in T PROVE n + 1 \in T
  <2> SUFFICES ASSUME n + 1 <= Len(s) PROVE Keeps(n + 1)
    OBVIOUS
  <2>1. Keeps(n) /\ n + 1 \in 1 .. Len(s) /\ (n + 1) - 1 = n
    BY <1>4, <1>2
  <2>2. CASE s[n + 1].time = t
    <3>1. W[n + 1] = W[n]
      BY <1>1, <2>1, <2>2
    <3> QED BY <2>1, <3>1
  <2>3. CASE s[n + 1].time # t
    <3> PICK v : v = W[n]
      OBVIOUS
    <3>1. W[n + 1] = Append(v, s[n + 1]) /\ v \in Seq(Sample) /\ s[n + 1] \in Sample
      BY <1>1, <1>2, <2>1, <2>3
    <3> PICK w : w = Append(v, s[n + 1])
      OBVIOUS
    <3>2. /\ w \in Seq(Sample) /\ DOMAIN w = 1 .. Len(v) + 1 /\ DOMAIN v = 1 .. Len(v)
          /\ Len(v) \in Nat /\ w[Len(v) + 1] = s[n + 1]
          /\ \A i \in 1 .. Len(v) : w[i] = v[i]
      BY <3>1
    <3>3. \A i \in DOMAIN w : w[i].time # t /\ \E k \in 1 .. n + 1 : w[i] = s[k]
      BY <2>1, <2>3, <3>2
    <3>4. ASSUME InOrder(s) PROVE InOrder(w)
      <4>1. InOrder(v)
        BY <2>1, <3>4
      <4>2. \A i \in 1 .. Len(v) : v[i].time <= s[n + 1].time
        <5> TAKE i \in 1 .. Len(v)
        <5>1. PICK k \in 1 .. n : v[i] = s[k]
          BY <2>1, <3>2
        <5>2. k \in DOMAIN s /\ n + 1 \in DOMAIN s /\ k < n + 1
          BY <1>2, <2>1
        <5> QED BY <3>4, <5>1, <5>2 DEF InOrder
      <4> QED BY <3>2, <4>1, <4>2 DEF InOrder
    <3> QED BY <3>1, <3>2, <3>3, <3>4
  <2> QED BY <2>2, <2>3
<1>5. Len(s) \in T
  <2> HIDE DEF T
  <2> QED BY <1>2, <1>3, <1>4, SetInduction
<1>6. Keeps(Len(s))
  BY <1>2, <1>5
<1> QED BY <1>2, <1>6 DEF W

\* A write adds its entry at the end of the document; a replacement leaves no other at its time.
LEMMA WrittenIs ==
  ASSUME NEW style \in Styles, NEW s \in Seq(Sample), NEW e \in Sample
  PROVE  LET w == Written(style, s, e)
         IN  /\ w \in Seq(Sample) /\ w # <<>>
             /\ \A i \in DOMAIN w : w[i] = e \/ \E k \in DOMAIN s : w[i] = s[k]
             /\ InOrder(s) /\ (style # "seed" => \A i \in DOMAIN s : s[i].time <= e.time)
                  => InOrder(w)
             /\ style = "replace" /\ e.time = EndAt => OneAtEnd(w, {e.sample})
<1> PICK w : w = Written(style, s, e)
  OBVIOUS
<1> SUFFICES /\ w \in Seq(Sample) /\ w # <<>>
             /\ \A i \in DOMAIN w : w[i] = e \/ \E k \in DOMAIN s : w[i] = s[k]
             /\ InOrder(s) /\ (style # "seed" => \A i \in DOMAIN s : s[i].time <= e.time)
                  => InOrder(w)
             /\ style = "replace" /\ e.time = EndAt => OneAtEnd(w, {e.sample})
  OBVIOUS
<1>1. e.time \in Nat /\ DOMAIN s = 1 .. Len(s) /\ Len(s) \in Nat
  BY IntervalsAssumption DEF Sample
<1>2. CASE style = "seed"
  <2>1. w = <<e>> /\ DOMAIN w = {1} /\ w[1] = e
    BY <1>2 DEF Written
  <2>2. w \in Seq(Sample) /\ w # <<>>
    BY <2>1
  <2>3. InOrder(w)
    BY <1>1, <2>1 DEF InOrder
  <2> QED BY <1>2, <2>1, <2>2, <2>3
<1>3. ASSUME NEW v \in Seq(Sample), w = Append(v, e),
             \A i \in DOMAIN v : \E k \in DOMAIN s : v[i] = s[k],
             InOrder(s) => InOrder(v)
      PROVE  /\ w \in Seq(Sample) /\ w # <<>> /\ Len(v) \in Nat /\ DOMAIN v = 1 .. Len(v)
             /\ DOMAIN w = 1 .. Len(v) + 1 /\ w[Len(v) + 1] = e
             /\ \A i \in 1 .. Len(v) : w[i] = v[i]
             /\ \A i \in DOMAIN w : w[i] = e \/ \E k \in DOMAIN s : w[i] = s[k]
             /\ InOrder(s) /\ (\A i \in DOMAIN s : s[i].time <= e.time) => InOrder(w)
  <2>1. /\ w \in Seq(Sample) /\ w # <<>> /\ Len(v) \in Nat /\ DOMAIN v = 1 .. Len(v)
        /\ DOMAIN w = 1 .. Len(v) + 1 /\ w[Len(v) + 1] = e
        /\ \A i \in 1 .. Len(v) : w[i] = v[i]
    BY <1>3
  <2>2. \A i \in DOMAIN w : w[i] = e \/ \E k \in DOMAIN s : w[i] = s[k]
    BY <1>3, <2>1
  <2>3. ASSUME InOrder(s), \A i \in DOMAIN s : s[i].time <= e.time PROVE InOrder(w)
    <3>1. InOrder(v) /\ \A i \in 1 .. Len(v) : v[i].time <= e.time
      BY <1>3, <2>1, <2>3
    <3>2. \A i, k \in 1 .. Len(v) : i < k => w[i].time <= w[k].time
      BY <2>1, <3>1 DEF InOrder
    <3>3. \A i \in 1 .. Len(v) : w[i].time <= w[Len(v) + 1].time
      BY <2>1, <3>1
    <3> HIDE <1>3
    <3> QED BY <2>1, <3>2, <3>3 DEF InOrder
  <2> QED BY <2>1, <2>2, <2>3
<1>4. CASE style = "append"
  <2>1. w = Append(s, e)
    BY <1>4 DEF Written
  <2> QED BY <1>3, <1>4, <2>1
<1>5. CASE style = "replace"
  <2> PICK v : v = Without(s, e.time)[Len(s)]
    OBVIOUS
  <2>1. w = Append(v, e)
    BY <1>5 DEF Written, Replaced
  <2>2. /\ v \in Seq(Sample)
        /\ \A i \in DOMAIN v : v[i].time # e.time /\ \E k \in DOMAIN s : v[i] = s[k]
        /\ InOrder(s) => InOrder(v)
    <3>1. e.time \in Nat
      BY <1>1
    <3> QED BY <1>1, <3>1, WithoutKeeps, SMTT(30)
  <2>3. /\ w \in Seq(Sample) /\ w # <<>> /\ Len(v) \in Nat /\ DOMAIN v = 1 .. Len(v)
        /\ DOMAIN w = 1 .. Len(v) + 1 /\ w[Len(v) + 1] = e
        /\ \A i \in 1 .. Len(v) : w[i] = v[i]
        /\ \A i \in DOMAIN w : w[i] = e \/ \E k \in DOMAIN s : w[i] = s[k]
        /\ InOrder(s) /\ (\A i \in DOMAIN s : s[i].time <= e.time) => InOrder(w)
    BY <1>3, <2>1, <2>2
  <2>4. ASSUME e.time = EndAt PROVE OneAtEnd(w, {e.sample})
    <3>1. \A k \in DOMAIN w : w[k].time = EndAt => k = Len(v) + 1
      BY <2>2, <2>3, <2>4
    <3> QED BY <2>3, <2>4, <3>1 DEF OneAtEnd
  <2> QED BY <1>5, <2>3, <2>4
<1> QED BY <1>2, <1>4, <1>5 DEF Styles

LEMMA WrittenInOrder ==
  ASSUME NEW style \in Styles, NEW s \in Seq(Sample), NEW e \in Sample, NEW m \in Nat,
         InOrder(s), e.time <= m,
         \A i \in DOMAIN s : s[i].time <= m /\ (style # "seed" => s[i].time <= e.time)
  PROVE  /\ InOrder(Written(style, s, e))
         /\ \A i \in DOMAIN Written(style, s, e) :
              /\ Written(style, s, e)[i].time <= m
              /\ style # "seed" => Written(style, s, e)[i].time <= e.time
<1> DEFINE w == Written(style, s, e)
<1>1. \A i \in DOMAIN w : w[i] = e \/ \E k \in DOMAIN s : w[i] = s[k]
  BY WrittenIs
<1>2. InOrder(s) /\ (style # "seed" => \A i \in DOMAIN s : s[i].time <= e.time) => InOrder(w)
  BY WrittenIs
<1>3. e.time <= e.time
  BY IntervalsAssumption DEF Sample
<1> QED BY <1>1, <1>2, <1>3

\* Where an entry is written, and what else is left alone.
LEMMA BucketOfEnd ==
  ASSUME NEW name \in Histories, NEW t \in StartAt .. EndAt
  PROVE  DocOf(name, t) \in Docs /\ DocOf(name, t)[1] = name
<1> QED BY DEF DocOf, Docs

LEMMA StoredIs ==
  ASSUME docs \in [Docs -> Seq(Sample)], NEW style \in Styles, NEW name \in Names,
         NEW e \in Sample, NEW D, D = Stored(style, name, e)
  PROVE  /\ D \in [Docs -> Seq(Sample)]
         /\ \A d \in Docs : D[d] # docs[d] => /\ d[1] = name /\ d = DocOf(name, e.time)
                                              /\ D[d] = Written(style, docs[d], e)
         /\ name \in Histories =>
              D[DocOf(name, e.time)] = Written(style, docs[DocOf(name, e.time)], e)
<1>1. CASE name = "players"
  <2>1. name \notin Histories
    BY <1>1 DEF Histories, Borders
  <2> QED BY <1>1, <2>1 DEF Stored
<1>2. CASE name # "players"
  <2>1. name \in Histories /\ e.time \in StartAt .. EndAt
    BY <1>2 DEF Names, Sample
  <2> PICK c : c = DocOf(name, e.time)
    OBVIOUS
  <2>2. c \in Docs /\ c[1] = name
    BY <2>1, BucketOfEnd
  <2> PICK w : w = Written(style, docs[c], e)
    OBVIOUS
  <2>3. w \in Seq(Sample)
    BY <2>2, WrittenIs
  <2>4. D = [docs EXCEPT ![c] = w]
    BY <1>2 DEF Stored
  <2> QED BY <2>2, <2>3, <2>4
<1> QED BY <1>1, <1>2

-----------------------------------------------------------------------------
\* A job that starts has everything to write.
LEMMA WorkIs ==
  ASSUME ranking \in Rankings, NEW style \in Styles, NEW t \in StartAt .. EndAt, NEW n \in Nat,
         style = "replace" => t = EndAt, NEW work, work = Work(style, t, n)
  PROVE  /\ work \in Job /\ work # Idle /\ Placed(ranking, work)
         /\ work.style = style /\ work.e = [time |-> t, sample |-> n] /\ work.pc = "writing"
         /\ Left(ranking, work) = Later(Units(ranking, style), 1, 0)
<1> PICK units : units = Units(ranking, style)
  OBVIOUS
<1> PICK e : e = [time |-> t, sample |-> n]
  OBVIOUS
<1>1. e \in Sample /\ e.time = t /\ t \in Nat /\ e.sample = n
  BY IntervalsAssumption DEF Sample
<1>2. IsUnits(units)
  BY UnitsAreUnits
<1>3. 1 \in 1 .. Len(units)
  BY <1>2 DEF IsUnits
<1>4. /\ 1 \in 1 .. Len(units[1]) /\ units[1][1] \subseteq Names
      /\ Later(units, 1, 0) = units[1][1] \union Later(units, 1, 1)
  BY <1>2, <1>3, FirstPlace
<1>5. work = [pc |-> "writing", style |-> style, e |-> e, unit |-> 1, group |-> 1,
              pending |-> units[1][1]]
  BY DEF Work
<1>6. work \in Job
  BY <1>1, <1>4, <1>5 DEF Job
<1>7. work # Idle /\ work.style = style /\ work.e = e /\ work.pc = "writing" /\ work.unit = 1
      /\ work.group = 1 /\ work.pending = units[1][1]
  BY <1>5 DEF Idle
<1>8. Placed(ranking, work)
  BY <1>1, <1>3, <1>4, <1>7 DEF Placed
<1>9. Left(ranking, work) = Later(units, 1, 0)
  BY <1>4, <1>7 DEF Left
<1> QED BY <1>6, <1>7, <1>8, <1>9

\* A job of which a group is written goes on with the next.
LEMMA AdvancedIs ==
  ASSUME ranking \in Rankings, NEW job \in Job, job.e \in Sample, job.pc = "writing",
         job.style = "replace" => job.e.time = EndAt,
         job.unit \in 1 .. Len(Units(ranking, job.style)),
         job.group \in 1 .. Len(Units(ranking, job.style)[job.unit]),
         NEW next, next = Advanced(job)
  PROVE  /\ next \in Job
         /\ next # Idle => /\ Placed(ranking, next) /\ next.pc = "writing"
                           /\ next.style = job.style /\ next.e = job.e
         /\ Later(Units(ranking, job.style), job.unit, job.group)
              = IF next = Idle THEN {} ELSE Left(ranking, next)
<1> PICK units : units = Units(ranking, job.style)
  OBVIOUS
<1> PICK u, g : u = job.unit /\ g = job.group
  OBVIOUS
<1>0. job.style \in Styles
  BY DEF Job
<1>1. IsUnits(units)
  BY <1>0, UnitsAreUnits
<1>2. /\ Len(units) \in Nat /\ Len(units[u]) \in Nat /\ u \in Nat /\ g \in Nat
      /\ g < Len(units[u]) =>
           /\ g + 1 \in 1 .. Len(units[u])
           /\ Later(units, u, g) = units[u][g + 1] \union Later(units, u, g + 1)
      /\ ~(g < Len(units[u])) /\ u < Len(units) =>
           /\ u + 1 \in 1 .. Len(units) /\ 1 \in 1 .. Len(units[u + 1])
           /\ Later(units, u, g) = units[u + 1][1] \union Later(units, u + 1, 1)
      /\ ~(g < Len(units[u])) /\ ~(u < Len(units)) => Later(units, u, g) = {}
  <2>1. u \in 1 .. Len(units) /\ g \in 1 .. Len(units[u])
    OBVIOUS
  <2>2. u \in Nat /\ g \in Nat
    BY DEF Job
  <2> QED BY <1>1, <2>1, <2>2, NextPlace, SMTT(30)
<1>3. \A x \in 1 .. Len(units) : \A y \in 1 .. Len(units[x]) : units[x][y] \subseteq Names
  BY <1>1 DEF IsUnits
<1> DEFINE At(x, y, p) ==
      /\ next.pc = "writing" /\ next.style = job.style /\ next.e = job.e
      /\ next.unit = x /\ next.group = y /\ next.pending = p
<1>4. ASSUME NEW x, NEW y, NEW p, x \in 1 .. Len(units), y \in 1 .. Len(units[x]),
             p = units[x][y], At(x, y, p), Later(units, u, g) = p \union Later(units, x, y)
      PROVE  next # Idle /\ Placed(ranking, next) /\ Later(units, u, g) = Left(ranking, next)
  <2>1. next # Idle
    BY <1>4 DEF Idle
  <2>2. Placed(ranking, next)
    BY <1>4 DEF Placed
  <2>3. Left(ranking, next) = p \union Later(units, x, y)
    BY <1>4 DEF Left
  <2> QED BY <1>4, <2>1, <2>2, <2>3
<1>5. CASE g < Len(units[u])
  <2>1. next = [job EXCEPT !.group = g + 1, !.pending = units[u][g + 1]]
    BY <1>5 DEF Advanced
  <2>2. next = [job EXCEPT !.unit = u, !.group = g + 1, !.pending = units[u][g + 1]]
    BY <2>1 DEF Job
  <2>3. g + 1 \in 1 .. Len(units[u]) /\ u \in 1 .. Len(units) /\ g + 1 \in Nat
    BY <1>2, <1>5
  <2> PICK x, y : x = u /\ y = g + 1
    OBVIOUS
  <2> PICK p : p = units[x][y]
    OBVIOUS
  <2>4. next = [job EXCEPT !.unit = x, !.group = y, !.pending = p]
    BY <2>2
  <2>5. Later(units, u, g) = p \union Later(units, x, y)
    BY <1>2, <1>5
  <2>6. x \in 1 .. Len(units) /\ y \in 1 .. Len(units[x]) /\ x \in Nat /\ y \in Nat
    BY <1>2, <2>3
  <2>7. p \in SUBSET Names
    BY <1>3, <2>6
  <2>8. next \in Job /\ At(x, y, p)
    BY <2>4, <2>6, <2>7 DEF Job
  <2> HIDE DEF At
  <2>9. next # Idle /\ Placed(ranking, next) /\ Later(units, u, g) = Left(ranking, next)
    BY <1>4, <2>5, <2>6, <2>8
  <2> QED BY <2>8, <2>9 DEF At
<1>6. CASE ~(g < Len(units[u])) /\ u < Len(units)
  <2>1. next = [job EXCEPT !.unit = u + 1, !.group = 1, !.pending = units[u + 1][1]]
    BY <1>6 DEF Advanced
  <2>2. u + 1 \in 1 .. Len(units) /\ 1 \in 1 .. Len(units[u + 1]) /\ u + 1 \in Nat
    BY <1>2, <1>6
  <2> PICK x, y : x = u + 1 /\ y = 1
    OBVIOUS
  <2> PICK p : p = units[x][y]
    OBVIOUS
  <2>4. next = [job EXCEPT !.unit = x, !.group = y, !.pending = p]
    BY <2>1
  <2>5. Later(units, u, g) = p \union Later(units, x, y)
    BY <1>2, <1>6
  <2>6. x \in 1 .. Len(units) /\ y \in 1 .. Len(units[x]) /\ x \in Nat /\ y \in Nat
    BY <1>2, <2>2
  <2>7. p \in SUBSET Names
    BY <1>3, <2>6
  <2>8. next \in Job /\ At(x, y, p)
    BY <2>4, <2>6, <2>7 DEF Job
  <2> HIDE DEF At
  <2>9. next # Idle /\ Placed(ranking, next) /\ Later(units, u, g) = Left(ranking, next)
    BY <1>4, <2>5, <2>6, <2>8
  <2> QED BY <2>8, <2>9 DEF At
<1>7. CASE ~(g < Len(units[u])) /\ ~(u < Len(units))
  <2>1. next = Idle
    BY <1>7 DEF Advanced
  <2>2. Idle \in Job
    BY DEF Idle, Job, Styles
  <2> QED BY <1>2, <1>7, <2>1, <2>2
<1> QED BY <1>5, <1>6, <1>7

\* A write is acknowledged: what is left no longer holds its history.
LEMMA AcknowledgedIs ==
  ASSUME ranking \in Rankings, NEW old \in Job, Placed(ranking, old), old.pc = "writing",
         NEW name \in old.pending, NEW job \in Job,
         job.pc = "writing", job.style = old.style, job.e = old.e, job.unit = old.unit,
         job.group = old.group, job.pending = old.pending \ {name},
         NEW next, next = IF job.pending = {} THEN Advanced(job) ELSE job
  PROVE  /\ next \in Job
         /\ next # Idle => /\ Placed(ranking, next) /\ next.pc = "writing"
                           /\ next.style = old.style /\ next.e = old.e
         /\ Left(ranking, old) \subseteq
              {name} \union (IF next = Idle THEN {} ELSE Left(ranking, next))
<1> PICK units : units = Units(ranking, old.style)
  OBVIOUS
<1> PICK rest : rest = old.pending \ {name}
  OBVIOUS
<1>1. /\ job \in Job /\ job.style = old.style /\ job.e = old.e /\ job.pc = "writing"
      /\ job.unit = old.unit /\ job.group = old.group /\ job.pending = rest
  OBVIOUS
<1>2. /\ old.e \in Sample /\ old.unit \in 1 .. Len(units) /\ old.group \in 1 .. Len(units[old.unit])
      /\ old.pending \subseteq units[old.unit][old.group]
      /\ old.style = "replace" => old.e.time = EndAt
  BY DEF Placed
<1>3. Left(ranking, old) = old.pending \union Later(units, old.unit, old.group)
  BY DEF Left
<1>4. CASE rest = {}
  <2>1. next = Advanced(job)
    BY <1>1, <1>4
  <2>2. /\ next \in Job
        /\ next # Idle => /\ Placed(ranking, next) /\ next.pc = "writing"
                          /\ next.style = job.style /\ next.e = job.e
        /\ Later(Units(ranking, job.style), job.unit, job.group)
             = IF next = Idle THEN {} ELSE Left(ranking, next)
    BY <1>1, <1>2, <2>1, AdvancedIs
  <2>3. Later(units, old.unit, old.group) = IF next = Idle THEN {} ELSE Left(ranking, next)
    BY <1>1, <2>2
  <2> QED BY <1>1, <1>3, <1>4, <2>2, <2>3
<1>5. CASE rest # {}
  <2>1. next = job
    BY <1>1, <1>5
  <2>2. next # Idle
    BY <1>1, <2>1 DEF Idle
  <2>3. Placed(ranking, next)
    BY <1>1, <1>2, <2>1 DEF Placed
  <2>4. Left(ranking, next) = rest \union Later(units, old.unit, old.group)
    BY <1>1, <2>1 DEF Left
  <2> QED BY <1>1, <1>3, <2>1, <2>2, <2>3, <2>4
<1> QED BY <1>4, <1>5

\* A write fails: what is left of a refresh does not get less.
LEMMA FailedIs ==
  ASSUME ranking \in Rankings, NEW job \in Job, Placed(ranking, job), job.pc = "writing",
         NEW closed \in BOOLEAN, NEW next, next = Failed(job, closed)
  PROVE  /\ next \in Job
         /\ next # Idle => /\ Placed(ranking, next) /\ next.style = job.style /\ next.e = job.e
         /\ next # Idle /\ job.style # "seed" => /\ ~ranking.v2
                                                 /\ Left(ranking, job) \subseteq Left(ranking, next)
<1> PICK units : units = Units(ranking, job.style)
  OBVIOUS
<1>0. job.style \in Styles /\ IsUnits(units)
  BY UnitsAreUnits DEF Job
<1>1. /\ job.e \in Sample /\ job.unit \in 1 .. Len(units) /\ job.group \in 1 .. Len(units[job.unit])
      /\ job.pending \subseteq units[job.unit][job.group]
      /\ job.style = "replace" => job.e.time = EndAt
  BY DEF Placed
<1>2. CASE closed /\ ~ranking.v2 /\ job.style # "seed"
  <2>1. next = [job EXCEPT !.pc = "down", !.pending = {}]
    BY <1>2 DEF Failed
  <2>2. /\ next \in Job /\ next.pc = "down" /\ next.style = job.style /\ next.e = job.e
        /\ next.unit = job.unit /\ next.group = job.group /\ next.pending = {}
    BY <2>1 DEF Job
  <2>3. Placed(ranking, next)
    BY <1>1, <2>2 DEF Placed
  <2>4. Left(ranking, next) = Later(units, job.unit, 0)
    BY <2>2 DEF Left
  <2>5. Left(ranking, job) = job.pending \union Later(units, job.unit, job.group)
    BY DEF Left
  <2>6. /\ Later(units, job.unit, job.group) \subseteq Later(units, job.unit, 0)
        /\ units[job.unit][job.group] \subseteq Later(units, job.unit, 0)
    <3>1. job.group \in Nat
      BY DEF Job
    <3> QED BY <1>0, <1>1, <3>1, FirstPlace
  <2> QED BY <1>1, <1>2, <2>2, <2>3, <2>4, <2>5, <2>6
<1>3. CASE ~(closed /\ ~ranking.v2 /\ job.style # "seed") /\ job.style = "seed" /\ job.unit > 1
  <2> PICK g : g = Len(units[job.unit])
    OBVIOUS
  <2> PICK last : last = [job EXCEPT !.group = g]
    OBVIOUS
  <2>1. next = Advanced(last)
    BY <1>3 DEF Failed
  <2>2. g \in Nat /\ g \in 1 .. Len(units[job.unit])
    BY <1>0, <1>1 DEF IsUnits
  <2>3. /\ last \in Job /\ last.style = job.style /\ last.e = job.e /\ last.pc = "writing"
        /\ last.unit = job.unit /\ last.group = g
    BY <2>2 DEF Job
  <2>4. /\ next \in Job
        /\ next # Idle => /\ Placed(ranking, next) /\ next.pc = "writing"
                          /\ next.style = last.style /\ next.e = last.e
    BY <1>1, <2>1, <2>2, <2>3, AdvancedIs
  <2> QED BY <1>3, <2>3, <2>4
<1>4. CASE ~(closed /\ ~ranking.v2 /\ job.style # "seed") /\ ~(job.style = "seed" /\ job.unit > 1)
  <2>1. next = Idle
    BY <1>4 DEF Failed
  <2>2. Idle \in Job
    BY DEF Idle, Job, Styles
  <2> QED BY <2>1, <2>2
<1> QED BY <1>2, <1>3, <1>4

\* A unit is persisted again, from its first group on.
LEMMA RetriedIs ==
  ASSUME ranking \in Rankings, NEW job \in Job, Placed(ranking, job), job.pc = "down",
         NEW p, p = Units(ranking, job.style)[job.unit][1],
         NEW next, next.pc = "writing", next.style = job.style, next.e = job.e,
         next.unit = job.unit, next.group = 1, next.pending = p
  PROVE  /\ next # Idle /\ Placed(ranking, next) /\ p \in SUBSET Names
         /\ Left(ranking, next) = Left(ranking, job)
<1> PICK units : units = Units(ranking, job.style)
  OBVIOUS
<1> PICK u : u = job.unit
  OBVIOUS
<1>0. job.style \in Styles /\ IsUnits(units)
  BY UnitsAreUnits DEF Job
<1>1. /\ job.e \in Sample /\ u \in 1 .. Len(units)
      /\ job.style = "replace" => job.e.time = EndAt
  BY DEF Placed
<1>2. /\ 1 \in 1 .. Len(units[u]) /\ p \subseteq Names
      /\ Later(units, u, 0) = p \union Later(units, u, 1)
  <2>1. /\ 1 \in 1 .. Len(units[u]) /\ units[u][1] \subseteq Names
        /\ Later(units, u, 0) = units[u][1] \union Later(units, u, 1)
    BY <1>0, <1>1, FirstPlace
  <2> QED BY <2>1
<1>4. /\ next.pc = "writing" /\ next.style = job.style /\ next.e = job.e
      /\ next.unit = u /\ next.group = 1 /\ next.pending = p
  OBVIOUS
<1>5. next # Idle
  BY <1>4 DEF Idle
<1>6. Placed(ranking, next)
  BY <1>1, <1>2, <1>4 DEF Placed
<1>7. Left(ranking, next) = p \union Later(units, u, 1)
  BY <1>4 DEF Left
<1>8. Left(ranking, job) = Later(units, u, 0)
  BY DEF Left
<1> QED BY <1>2, <1>4, <1>5, <1>6, <1>7, <1>8

-----------------------------------------------------------------------------
\* The kinds of steps: a job goes on, a job starts, or nothing is written.

\* A job goes on: a write of it may have been applied, and it has become next.
JobStep(old, name, next) ==
  /\ old = jobs[1] /\ old # Idle /\ name \in Names
  /\ next \in Job
  /\ next # Idle => Placed(ranking, next) /\ next.style = old.style /\ next.e = old.e
  /\ jobs' = [jobs EXCEPT ![1] = next]
  /\ docs' = docs \/ docs' = Stored(old.style, name, old.e)
  /\ next # Idle => poll' = poll /\ entry' = entry
  /\ poll' = poll \/ poll' = "idle" \/ (old.style # "seed" /\ poll' = old.style)
  /\ entry' \in [slot : Int, busy : BOOLEAN]
  /\ late' \subseteq LateWrite /\ final' \subseteq Nat
  /\ UNCHANGED <<now, ranking, samples, overtaken>>

\* What a replacing job has got done, and what is known of the final samples.
Progress(old, name, next) ==
  /\ next # Idle /\ old.style = "replace" =>
       \A n \in Left(ranking, old) \ Left(ranking, next) :
         n = name /\ docs' = Stored(old.style, name, old.e)
  /\ \/ final' = final /\ (docs' = docs \/ old.style # "replace")
     \/ final = {} /\ final' = {}
     \/ final # {} /\ final' = final \union {old.e.sample}
     \/ /\ old.style = "replace" /\ next = Idle /\ final' = {old.e.sample}
        /\ docs' = Stored(old.style, name, old.e) /\ Left(ranking, old) \subseteq {name}

LEMMA IdleIsAJob == Idle \in Job /\ Idle.pc = "idle" /\ Idle.pending = {}
<1> QED BY DEF Idle, Job, Styles

\* Only the first of the places for jobs is ever used.
LEMMA OneWriter ==
  ASSUME TypeInv, WorkInv
  PROVE  /\ DOMAIN jobs = 1 .. 2 /\ jobs[1] \in Job /\ jobs[2] = Idle
         /\ jobs[1] # Idle => jobs[1].pc \in {"writing", "down"}
         /\ \A j \in DOMAIN jobs :
              jobs[j].pc # "idle" \/ jobs[j].pending # {} => j = 1 /\ jobs[1] # Idle
         /\ Free = DOMAIN jobs <=> jobs[1] = Idle
<1>1. DOMAIN jobs = 1 .. 2 /\ jobs[1] \in Job /\ jobs[2] = Idle
  BY DEF TypeInv, WorkInv
<1>2. jobs[1] # Idle => jobs[1].pc \in {"writing", "down"}
  BY DEF WorkInv, Placed
<1>3. \A j \in DOMAIN jobs : jobs[j].pc # "idle" \/ jobs[j].pending # {} => j = 1 /\ jobs[1] # Idle
  BY <1>1, IdleIsAJob
<1>4. Free = DOMAIN jobs <=> jobs[1] = Idle
  BY <1>1, <1>2, IdleIsAJob DEF Free
<1> QED BY <1>1, <1>2, <1>3, <1>4

\* What an acknowledged write changes.
Acknowledged(old, name, job, next) ==
  /\ job.pc = "writing" /\ job.style = old.style /\ job.e = old.e
  /\ job.unit = old.unit /\ job.group = old.group /\ job.pending = old.pending \ {name}
  /\ next = IF job.pending = {} THEN Advanced(job) ELSE job
  /\ docs' = Stored(job.style, name, job.e) /\ jobs' = [jobs EXCEPT ![1] = next]
  /\ final' = FinalAfter(job, next)
  /\ poll' = IF next = Idle THEN PollAfter ELSE poll
  /\ entry' = IF next = Idle /\ poll # "boot" THEN EntryAfter(FALSE) ELSE entry
  /\ UNCHANGED <<now, ranking, late, samples, overtaken>>

LEMMA JobGoesOn ==
  ASSUME TypeInv, WorkInv, NEW j \in DOMAIN jobs, Writing(j)
  PROVE  \E name, next : JobStep(jobs[1], name, next) /\ Progress(jobs[1], name, next)
<1> PICK old : old = jobs[1]
  OBVIOUS
<1>0. /\ ranking \in Rankings /\ old \in Job /\ DOMAIN jobs = 1 .. 2
      /\ entry \in [slot : Int, busy : BOOLEAN] /\ late \subseteq LateWrite /\ final \subseteq Nat
      /\ \A k \in DOMAIN jobs : jobs[k].pc # "idle" \/ jobs[k].pending # {} => k = 1 /\ old # Idle
  BY OneWriter DEF TypeInv
<1>1. old # Idle => Placed(ranking, old) /\ Owned(old)
  BY DEF WorkInv
<1>2. \A b \in BOOLEAN : EntryAfter(b) \in [slot : Int, busy : BOOLEAN]
  BY <1>0 DEF EntryAfter, Never
<1>3. CASE Acknowledge(j)
  <2>1. j = 1 /\ old # Idle /\ old.pc = "writing" /\ Placed(ranking, old)
    BY <1>0, <1>1, <1>3 DEF Acknowledge
  <2>2. PICK name \in old.pending : \E job \in Job : \E next : Acknowledged(old, name, job, next)
    <3> PICK name \in old.pending :
          LET job == [old EXCEPT !.pending = @ \ {name}]
              next == IF job.pending = {} THEN Advanced(job) ELSE job
          IN  /\ docs' = Stored(job.style, name, job.e) /\ jobs' = [jobs EXCEPT ![1] = next]
              /\ final' = FinalAfter(job, next)
              /\ poll' = IF next = Idle THEN PollAfter ELSE poll
              /\ entry' = IF next = Idle /\ poll # "boot" THEN EntryAfter(FALSE) ELSE entry
              /\ UNCHANGED <<now, ranking, late, samples, overtaken>>
      BY <1>3, <2>1 DEF Acknowledge
    <3> DEFINE job == [old EXCEPT !.pending = @ \ {name}]
    <3>1. /\ job \in Job /\ job.pc = "writing" /\ job.style = old.style /\ job.e = old.e
          /\ job.unit = old.unit /\ job.group = old.group /\ job.pending = old.pending \ {name}
      BY <1>0, <2>1 DEF Job
    <3>2. PICK next :
            /\ next = IF job.pending = {} THEN Advanced(job) ELSE job
            /\ docs' = Stored(job.style, name, job.e) /\ jobs' = [jobs EXCEPT ![1] = next]
            /\ final' = FinalAfter(job, next)
            /\ poll' = IF next = Idle THEN PollAfter ELSE poll
            /\ entry' = IF next = Idle /\ poll # "boot" THEN EntryAfter(FALSE) ELSE entry
            /\ UNCHANGED <<now, ranking, late, samples, overtaken>>
      OBVIOUS
    <3> HIDE DEF job
    <3>3. Acknowledged(old, name, job, next)
      BY <3>1, <3>2 DEF Acknowledged
    <3> QED BY <3>1, <3>3
  <2> PICK job \in Job : \E next : Acknowledged(old, name, job, next)
    BY <2>2
  <2> PICK next : Acknowledged(old, name, job, next)
    OBVIOUS
  <2> USE DEF Acknowledged
  <2>3. /\ next \in Job
        /\ next # Idle => /\ Placed(ranking, next) /\ next.pc = "writing"
                          /\ next.style = old.style /\ next.e = old.e
        /\ Left(ranking, old) \subseteq
             {name} \union (IF next = Idle THEN {} ELSE Left(ranking, next))
    BY <1>0, <2>1, AcknowledgedIs
  <2>4. name \in Names /\ old.e.sample \in Nat
    BY <1>0 DEF Job
  <2>5. docs' = Stored(old.style, name, old.e)
    OBVIOUS
  <2>6. final' = IF old.style # "replace" THEN final
                 ELSE IF next = Idle THEN {old.e.sample}
                 ELSE IF final = {} THEN {} ELSE final \union {old.e.sample}
    BY DEF FinalAfter
  <2>7. poll' = poll \/ poll' = "idle"
    BY DEF PollAfter
  <2>8. entry' \in [slot : Int, busy : BOOLEAN]
    BY <1>0, <1>2
  <2>9. JobStep(old, name, next)
    BY <1>0, <2>1, <2>3, <2>4, <2>5, <2>6, <2>7, <2>8 DEF JobStep
  <2>10. Progress(old, name, next)
    BY <2>3, <2>5, <2>6 DEF Progress
  <2> QED BY <2>9, <2>10
<1>4. CASE Fail(j)
  <2> PICK name \in jobs[j].pending, applied \in BOOLEAN, closed \in BOOLEAN :
        LET job == jobs[j] next == Failed(job, closed)
        IN  /\ job.pc = "writing" /\ mishaps < MaxMishaps /\ mishaps' = mishaps + 1
            /\ docs' = IF applied THEN Stored(job.style, name, job.e) ELSE docs
            /\ late' = late \union {[style |-> job.style, name |-> other, e |-> job.e]
                                    : other \in job.pending \ {name}}
            /\ online' = (online /\ ~closed)
            /\ jobs' = [jobs EXCEPT ![j] = next]
            /\ final' = IF job.style = "replace" /\ final # {} THEN final \union {job.e.sample} ELSE final
            /\ poll' \in IF next # Idle THEN {poll}
                         ELSE IF ranking.v2 \/ job.style = "seed" THEN {PollAfter}
                         ELSE {PollAfter, job.style}
            /\ entry' = IF next = Idle /\ poll # "boot" THEN EntryAfter(TRUE) ELSE entry
            /\ UNCHANGED <<now, ranking, lastPostEnd, samples, overtaken>>
    BY <1>4 DEF Fail
  <2>1. j = 1 /\ old # Idle
    BY <1>0
  <2> PICK next : next = Failed(old, closed)
    OBVIOUS
  <2>2. /\ old.pc = "writing" /\ name \in old.pending
        /\ docs' = IF applied THEN Stored(old.style, name, old.e) ELSE docs
        /\ late' = late \union {[style |-> old.style, name |-> other, e |-> old.e]
                                : other \in old.pending \ {name}}
        /\ jobs' = [jobs EXCEPT ![1] = next]
        /\ final' = IF old.style = "replace" /\ final # {} THEN final \union {old.e.sample} ELSE final
        /\ poll' \in IF next # Idle THEN {poll}
                     ELSE IF ranking.v2 \/ old.style = "seed" THEN {PollAfter}
                     ELSE {PollAfter, old.style}
        /\ entry' = IF next = Idle /\ poll # "boot" THEN EntryAfter(TRUE) ELSE entry
        /\ UNCHANGED <<now, ranking, samples, overtaken>>
    BY <2>1
  <2>3. /\ next \in Job
        /\ next # Idle => /\ Placed(ranking, next) /\ next.style = old.style /\ next.e = old.e
        /\ next # Idle /\ old.style # "seed" => /\ ~ranking.v2
                                                /\ Left(ranking, old) \subseteq Left(ranking, next)
    BY <1>0, <1>1, <2>1, <2>2, FailedIs
  <2>4. name \in Names /\ old.e.sample \in Nat
    BY <1>0, <2>2 DEF Job
  <2>5. docs' = docs \/ docs' = Stored(old.style, name, old.e)
    BY <2>2
  <2>6. final' = IF old.style = "replace" /\ final # {} THEN final \union {old.e.sample} ELSE final
    BY <2>2
  <2>7. poll' = poll \/ poll' = "idle" \/ (old.style # "seed" /\ poll' = old.style)
    BY <2>2 DEF PollAfter
  <2>8. entry' \in [slot : Int, busy : BOOLEAN]
    BY <1>0, <1>2, <2>2
  <2>9. late' \subseteq LateWrite
    <3>1. old.style \in Styles /\ old.pending \subseteq Names /\ old.e \in Sample
      BY <1>0, <1>1, <2>1 DEF Job, Placed
    <3> QED BY <1>0, <2>2, <3>1 DEF LateWrite
  <2>10. JobStep(old, name, next)
    <3>1. next # Idle => poll' = poll /\ entry' = entry
      BY <2>2
    <3> QED BY <1>0, <2>1, <2>2, <2>3, <2>4, <2>5, <2>6, <2>7, <2>8, <2>9, <3>1 DEF JobStep
  <2>11. Progress(old, name, next)
    BY <2>3, <2>6 DEF Progress
  <2> QED BY <2>10, <2>11
<1>5. CASE RetryPersist(j)
  <2>1. j = 1 /\ old # Idle /\ old.pc = "down" /\ Placed(ranking, old)
    BY <1>0, <1>1, <1>5 DEF RetryPersist
  <2> PICK p : p = Units(ranking, old.style)[old.unit][1]
    OBVIOUS
  <2>2. PICK next :
          /\ next.pc = "writing" /\ next.style = old.style /\ next.e = old.e
          /\ next.unit = old.unit /\ next.group = 1 /\ next.pending = p
          /\ p \in SUBSET Names => next \in Job
          /\ jobs' = [jobs EXCEPT ![1] = next]
          /\ UNCHANGED <<now, ranking, docs, poll, late, entry, samples, final, overtaken>>
    <3> DEFINE new == [old EXCEPT !.pc = "writing", !.group = 1, !.pending = p]
    <3>1. /\ new.pc = "writing" /\ new.style = old.style /\ new.e = old.e
          /\ new.unit = old.unit /\ new.group = 1 /\ new.pending = p
          /\ p \in SUBSET Names => new \in Job
      BY <1>0 DEF Job
    <3>2. jobs' = [jobs EXCEPT ![1] = new]
      BY <1>5, <2>1 DEF RetryPersist
    <3>3. UNCHANGED <<now, ranking, docs, poll, late, entry, samples, final, overtaken>>
      BY <1>5 DEF RetryPersist
    <3> HIDE DEF new
    <3> QED BY <3>1, <3>2, <3>3
  <2>3. /\ next # Idle /\ Placed(ranking, next) /\ p \in SUBSET Names
        /\ Left(ranking, next) = Left(ranking, old)
    BY <1>0, <2>1, <2>2, RetriedIs
  <2>4. "players" \in Names
    BY DEF Names
  <2>5. JobStep(old, "players", next)
    BY <1>0, <2>1, <2>2, <2>3, <2>4 DEF JobStep
  <2>6. Progress(old, "players", next)
    BY <2>2, <2>3 DEF Progress
  <2> QED BY <2>5, <2>6
<1> QED BY <1>3, <1>4, <1>5 DEF Writing

\* A job starts: nobody else was writing.
StartStep(style, t, n, work) ==
  /\ style \in Styles /\ t \in StartAt .. EndAt /\ n \in Nat /\ work = Work(style, t, n)
  /\ t <= now /\ (style # "seed" => t = now \/ t = EndAt)
  /\ style = "replace" => t = EndAt /\ AfterEnd
  /\ style = "append" => now < EndAt \/ (~ranking.v2 /\ poll = "append")
  /\ style = "seed" => ranking.kind = "event"
  /\ jobs[1] = Idle /\ jobs' = [jobs EXCEPT ![1] = work]
  /\ IF style = "seed"
       THEN poll = "boot" /\ poll' = poll /\ final' = {}
       ELSE /\ final' = final
            /\ IF ranking.v2 THEN poll' = "idle" /\ entry'.busy ELSE poll' = "persist"
  /\ entry' \in [slot : Int, busy : BOOLEAN] /\ samples' \in Nat
  /\ UNCHANGED <<now, ranking, docs, late, overtaken>>

\* Nothing is written and no job starts or goes on.
QuietStep ==
  /\ \/ poll' = poll
     \/ poll' # "boot" /\ (jobs[1] = Idle \/ (ranking.v2 /\ poll # "boot"))
  /\ poll' \in {"boot", "idle", "append", "replace", "persist"}
  /\ poll' = "replace" => poll = "replace" \/ AfterEnd
  /\ poll' = "append" /\ ~ranking.v2 =>
       poll = "append" \/ now <= EndAt \/ docs[DocOf("top", EndAt)] = <<>>
  /\ entry' = entry \/ ~entry.busy
  /\ entry' \in [slot : Int, busy : BOOLEAN] /\ samples' \in Nat
  /\ now' \in Nat /\ now <= now' /\ late' \subseteq late
  /\ UNCHANGED <<ranking, docs, jobs, final, overtaken>>

\* A write that nobody awaits reaches MongoDB.
LandStep(w) ==
  /\ w \in LateWrite /\ docs' = Stored(w.style, w.name, w.e)
  /\ overtaken' = overtaken \union {w.name} /\ late' \subseteq late
  /\ UNCHANGED <<now, ranking, jobs, poll, entry, samples, final>>

\* The process starts again.
RestartStep ==
  /\ jobs' = [j \in 1 .. 2 |-> Idle] /\ poll' = "boot"
  /\ final = {} => final' = {}
  /\ final \subseteq final' /\ final' \subseteq Nat
  /\ late' \subseteq LateWrite /\ entry' \in [slot : Int, busy : BOOLEAN]
  /\ UNCHANGED <<now, ranking, docs, samples, overtaken>>

-----------------------------------------------------------------------------
LEMMA WorkStarts ==
  ASSUME TypeInv, WorkInv, Free # {}, NEW work, Started(work), jobs[1] = Idle
  PROVE  jobs' = [jobs EXCEPT ![1] = work]
<1>1. Free = {1, 2}
  BY OneWriter, IdleIsAJob
<1>2. (CHOOSE j \in Free : \A k \in Free : j <= k) = 1
  BY <1>1
<1> QED BY <1>2 DEF Started

LEMMA SeedStarts ==
  ASSUME TypeInv, WorkInv, Seed
  PROVE  StartStep("seed", StartAt, 0, Work("seed", StartAt, 0))
<1>1. jobs[1] = Idle /\ Free # {}
  BY OneWriter DEF Seed
<1>2. jobs' = [jobs EXCEPT ![1] = Work("seed", StartAt, 0)]
  BY <1>1, WorkStarts DEF Seed
<1> QED BY <1>1, <1>2, IntervalsAssumption DEF Seed, StartStep, TypeInv, Styles

LEMMA PersistStarts ==
  ASSUME TypeInv, WorkInv, Persist
  PROVE  \E style, t, n, work : StartStep(style, t, n, work)
<1> PICK style, t, n : style = poll /\ t = Timestamp(poll) /\ n = samples + 1
  OBVIOUS
<1> PICK work : work = Work(style, t, n)
  OBVIOUS
<1>1. /\ ~ranking.v2 /\ style \in {"append", "replace"} /\ Free # {} /\ Started(work)
      /\ samples' = n /\ poll' = "persist"
      /\ UNCHANGED <<now, ranking, docs, late, entry, final, overtaken>>
  BY DEF Persist
<1>2. jobs[1] = Idle
  BY <1>1 DEF WorkInv, Owned
<1>3. jobs' = [jobs EXCEPT ![1] = work]
  BY <1>1, <1>2, WorkStarts
<1>4. /\ n \in Nat /\ now \in Nat /\ StartAt <= now /\ entry \in [slot : Int, busy : BOOLEAN]
  BY DEF TypeInv
<1>5. style = "replace" => AfterEnd
  BY DEF WorkInv
<1>6. t \in StartAt .. EndAt /\ t <= now /\ (t = now \/ t = EndAt) /\ (style = "replace" => t = EndAt)
  BY <1>4, <1>5, IntervalsAssumption DEF Timestamp, AfterEnd
<1>7. StartStep(style, t, n, work)
  BY <1>1, <1>2, <1>3, <1>4, <1>5, <1>6 DEF StartStep, Styles
<1> QED BY <1>7

LEMMA PersistAsideStarts ==
  ASSUME TypeInv, WorkInv, PersistAside
  PROVE  (\E style, t, n, work : StartStep(style, t, n, work)) \/ QuietStep
<1> PICK style, t, n : style = StyleNow /\ t = Timestamp(StyleNow) /\ n = samples + 1
  OBVIOUS
<1> PICK work, slot : work = Work(style, t, n) /\ slot = now \div SlotLength
  OBVIOUS
<1>1. /\ ranking.v2 /\ poll \in {"append", "replace"} /\ samples' = n /\ poll' = "idle"
      /\ IF Admitted(slot)
           THEN Free # {} /\ Started(work) /\ entry' = [slot |-> slot, busy |-> TRUE]
           ELSE UNCHANGED <<jobs, entry>>
      /\ UNCHANGED <<now, ranking, docs, late, final, overtaken>>
  BY DEF PersistAside
<1>2. /\ n \in Nat /\ now \in Nat /\ StartAt <= now /\ entry \in [slot : Int, busy : BOOLEAN]
  BY DEF TypeInv
<1>3. CASE ~Admitted(slot)
  <2>1. QuietStep
    BY <1>1, <1>2, <1>3 DEF QuietStep
  <2> QED BY <2>1
<1>4. CASE Admitted(slot)
  <2>1. jobs[1] = Idle
    BY <1>1, <1>4 DEF WorkInv, Owned, Admitted
  <2>2. jobs' = [jobs EXCEPT ![1] = work]
    BY <1>1, <1>4, <2>1, WorkStarts
  <2>3. style \in {"append", "replace"} /\ (style = "replace" => AfterEnd)
        /\ (style = "append" => now < EndAt)
    BY <1>1, <1>2, IntervalsAssumption DEF WorkInv, AfterEnd, StyleNow
  <2>4. t \in StartAt .. EndAt /\ t <= now /\ (t = now \/ t = EndAt)
        /\ (style = "replace" => t = EndAt)
    BY <1>2, <2>3, IntervalsAssumption DEF Timestamp, AfterEnd
  <2>5. slot \in Int
    BY <1>2, IntervalsAssumption DEF SlotLength
  <2>6. entry' \in [slot : Int, busy : BOOLEAN] /\ entry'.busy
    <3>1. entry' = [slot |-> slot, busy |-> TRUE]
      BY <1>1, <1>4
    <3> QED BY <2>5, <3>1
  <2>7. StartStep(style, t, n, work)
    BY <1>1, <1>2, <2>1, <2>2, <2>3, <2>4, <2>6 DEF StartStep, Styles
  <2> QED BY <2>7
<1> QED BY <1>3, <1>4

\* A history without data has none at the end.
LEMMA EmptyTop ==
  ASSUME TypeInv, Empty("top")
  PROVE  docs[DocOf("top", EndAt)] = <<>>
<1> PICK d : d = DocOf("top", EndAt)
  OBVIOUS
<1>1. d \in Docs /\ d[1] = "top"
  BY BucketOfEnd, IntervalsAssumption DEF Histories
<1>2. Places("top") = {}
  BY DEF Empty
<1>3. ASSUME NEW i \in DOMAIN docs[d] PROVE FALSE
  <2>1. <<d, i>> \in {d} \X DOMAIN docs[d]
    BY <1>3
  <2>2. <<d, i>> \in Places("top")
    BY <1>1, <2>1, Zenon DEF Places
  <2> QED BY <1>2, <2>2
<1>4. docs[d] \in Seq(Sample)
  BY <1>1 DEF TypeInv
<1>5. Len(docs[d]) \in Nat /\ DOMAIN docs[d] = 1 .. Len(docs[d])
  BY <1>4
<1>6. Len(docs[d]) = 0
  BY <1>3, <1>5
<1> QED BY <1>4, <1>6

LEMMA PollerIsQuiet ==
  ASSUME TypeInv, WorkInv,
         BootstrapCheck \/ Registered \/ RefreshServer \/ RefreshPostEnd \/ FetchFails
           \/ Evict \/ Recover \/ Tick
  PROVE  QuietStep
<1>0. /\ now \in Nat /\ now + 1 \in Nat /\ samples \in Nat /\ entry \in [slot : Int, busy : BOOLEAN]
      /\ poll \in {"boot", "idle", "append", "replace", "persist"}
      /\ [slot |-> Never, busy |-> FALSE] \in [slot : Int, busy : BOOLEAN]
  BY DEF TypeInv, Never
<1>1. CASE BootstrapCheck
  <2>1. jobs[1] = Idle
    BY <1>1 DEF BootstrapCheck, WorkInv, Owned
  <2>2. docs[DocOf("top", EndAt)] = <<>>
    BY <1>1, EmptyTop DEF BootstrapCheck
  <2>3. poll' \in {"append", "replace"} /\ (poll' = "replace" => AfterEnd)
    BY <1>0, <1>1, IntervalsAssumption DEF BootstrapCheck, RefreshStyle, AfterEnd
  <2> QED BY <1>0, <1>1, <2>1, <2>2, <2>3 DEF BootstrapCheck, QuietStep
<1>2. CASE Registered
  <2>1. jobs[1] = Idle
    BY <1>2, OneWriter DEF Registered
  <2> QED BY <1>0, <1>2, <2>1 DEF Registered, QuietStep
<1>3. CASE RefreshServer
  <2>1. jobs[1] = Idle \/ (ranking.v2 /\ poll # "boot")
    BY <1>3 DEF RefreshServer, PollerFree, WorkInv, Owned
  <2>2. poll' \in {"append", "replace"} /\ (poll' = "replace" => AfterEnd)
    BY <1>0, <1>3, IntervalsAssumption DEF RefreshServer, RefreshStyle, AfterEnd
  <2>3. now <= EndAt
    BY <1>3 DEF RefreshServer, Active
  <2> QED BY <1>0, <1>3, <2>1, <2>2, <2>3 DEF RefreshServer, QuietStep
<1>4. CASE RefreshPostEnd
  <2>1. jobs[1] = Idle \/ (ranking.v2 /\ poll # "boot")
    BY <1>4 DEF RefreshPostEnd, PollerFree, WorkInv, Owned
  <2>2. AfterEnd
    BY <1>0, <1>4, IntervalsAssumption DEF RefreshPostEnd, PostEndDue, AfterEnd
  <2> QED BY <1>0, <1>4, <2>1, <2>2 DEF RefreshPostEnd, QuietStep
<1>5. CASE FetchFails
  <2>1. jobs[1] = Idle \/ (ranking.v2 /\ poll # "boot")
    BY <1>5 DEF FetchFails, WorkInv, Owned
  <2> QED BY <1>0, <1>5, <2>1 DEF FetchFails, QuietStep
<1>6. CASE Evict
  BY <1>0, <1>6 DEF Evict, QuietStep
<1>7. CASE Recover
  BY <1>0, <1>7 DEF Recover, QuietStep
<1>8. CASE Tick
  BY <1>0, <1>8 DEF Tick, QuietStep
<1> QED BY <1>1, <1>2, <1>3, <1>4, <1>5, <1>6, <1>7, <1>8

LEMMA LandIs ==
  ASSUME TypeInv, Land \/ UNCHANGED vars
  PROVE  (\E w : LandStep(w)) \/ QuietStep
<1>1. /\ now \in Nat /\ samples \in Nat /\ entry \in [slot : Int, busy : BOOLEAN]
      /\ poll \in {"boot", "idle", "append", "replace", "persist"} /\ late \subseteq LateWrite
  BY DEF TypeInv
<1>2. CASE UNCHANGED vars
  BY <1>1, <1>2 DEF vars, QuietStep
<1>3. CASE Land
  <2> PICK w \in late :
        /\ late' = late \ {w}
        /\ \/ docs' = Stored(w.style, w.name, w.e) /\ overtaken' = overtaken \union {w.name}
           \/ UNCHANGED <<docs, overtaken>>
        /\ UNCHANGED <<now, ranking, poll, jobs, entry, samples, final>>
    BY <1>3 DEF Land
  <2>1. CASE docs' = Stored(w.style, w.name, w.e) /\ overtaken' = overtaken \union {w.name}
    BY <1>1, <2>1 DEF LandStep
  <2>2. CASE UNCHANGED <<docs, overtaken>>
    BY <1>1, <2>2 DEF QuietStep
  <2> QED BY <2>1, <2>2
<1> QED BY <1>2, <1>3

LEMMA RestartIs ==
  ASSUME TypeInv, WorkInv, Restart
  PROVE  RestartStep
<1>1. jobs' = [j \in 1 .. 2 |-> Idle] /\ poll' = "boot"
  BY OneWriter DEF Restart
<1>2. entry' \in [slot : Int, busy : BOOLEAN]
  BY DEF Restart, Never
<1>3. /\ final = {} => final' = {}
      /\ final \subseteq final' /\ final' \subseteq Nat
  <2>1. \A j \in DOMAIN jobs : jobs[j].e.sample \in Nat
    BY DEF TypeInv, Job
  <2>2. final' = IF final = {} THEN {} ELSE final \union {jobs[j].e.sample : j \in DOMAIN jobs \ Free}
    BY DEF Restart
  <2> QED BY <2>1, <2>2 DEF TypeInv
<1>4. late' \subseteq LateWrite
  <2>1. \A j \in DOMAIN jobs : \A name \in jobs[j].pending :
          [style |-> jobs[j].style, name |-> name, e |-> jobs[j].e] \in LateWrite
    <3> TAKE j \in DOMAIN jobs
    <3> TAKE name \in jobs[j].pending
    <3>1. j = 1 /\ jobs[1] # Idle /\ jobs[1] \in Job
      BY OneWriter
    <3>2. jobs[1].e \in Sample
      BY <3>1 DEF WorkInv, Placed
    <3> QED BY <3>1, <3>2 DEF LateWrite, Job
  <2>2. late \subseteq LateWrite
    BY DEF TypeInv
  <2> QED BY <2>1, <2>2 DEF Restart
<1> QED BY <1>1, <1>2, <1>3, <1>4 DEF Restart, RestartStep

LEMMA KindsOfSteps ==
  ASSUME TypeInv, WorkInv, [Next]_vars
  PROVE  \/ \E name, next : JobStep(jobs[1], name, next) /\ Progress(jobs[1], name, next)
         \/ \E style, t, n, work : StartStep(style, t, n, work)
         \/ QuietStep
         \/ \E w : LandStep(w)
         \/ RestartStep
<1>1. CASE Next
  <2>1. CASE \E j \in DOMAIN jobs : Writing(j)
    BY <2>1, JobGoesOn
  <2>2. CASE Seed \/ Persist \/ PersistAside
    BY <2>2, SeedStarts, PersistStarts, PersistAsideStarts
  <2>3. CASE BootstrapCheck \/ Registered \/ RefreshServer \/ RefreshPostEnd \/ FetchFails
               \/ Evict \/ Recover \/ Tick
    BY <2>3, PollerIsQuiet
  <2>4. CASE Land
    BY <2>4, LandIs
  <2>5. CASE Restart
    BY <2>5, RestartIs
  <2> QED BY <1>1, <2>1, <2>2, <2>3, <2>4, <2>5 DEF Next, Refresh
<1>2. CASE UNCHANGED vars
  BY <1>2, LandIs
<1> QED BY <1>1, <1>2

-----------------------------------------------------------------------------
(* A job that goes on *)

LEMMA JobKeepsType ==
  ASSUME TypeInv, WorkInv, NEW old, NEW name, NEW next, JobStep(old, name, next)
  PROVE  TypeInv'
<1>1. /\ old \in Job /\ old.e \in Sample /\ old.style \in Styles
  <2>1. old = jobs[1] /\ old # Idle
    BY DEF JobStep
  <2>2. old \in Job
    BY <2>1 DEF TypeInv
  <2>3. old.e \in Sample
    BY <2>1 DEF WorkInv, Placed
  <2> QED BY <2>2, <2>3 DEF Job
<1>2. docs' \in [Docs -> Seq(Sample)]
  <2> PICK D : D = Stored(old.style, name, old.e)
    OBVIOUS
  <2>1. D \in [Docs -> Seq(Sample)]
    BY <1>1, StoredIs DEF JobStep, TypeInv
  <2>2. docs' = docs \/ docs' = D
    BY DEF JobStep
  <2> QED BY <2>1, <2>2 DEF TypeInv
<1>3. jobs' \in [1 .. 2 -> Job]
  BY DEF JobStep, TypeInv
<1>4. poll' \in {"boot", "idle", "append", "replace", "persist"}
  BY <1>1 DEF JobStep, TypeInv, Styles
<1> QED BY <1>2, <1>3, <1>4 DEF JobStep, TypeInv

LEMMA JobKeepsWork ==
  ASSUME TypeInv, WorkInv, NEW old, NEW name, NEW next, JobStep(old, name, next)
  PROVE  WorkInv'
<1>1. /\ old # Idle /\ Placed(ranking, old) /\ Owned(old) /\ ranking' = ranking /\ now' = now
  BY DEF JobStep, WorkInv
<1>2. jobs'[2] = Idle /\ jobs'[1] = next
  BY DEF JobStep, TypeInv, WorkInv
<1>3. ASSUME next # Idle PROVE Placed(ranking', next) /\ Owned(next)'
  BY <1>1, <1>3 DEF JobStep, Owned, AfterEnd
<1>4. ASSUME poll' = "replace" PROVE AfterEnd'
  <2>1. poll = "replace" \/ old.style = "replace"
    BY <1>4 DEF JobStep
  <2> QED BY <1>1, <2>1 DEF WorkInv, Owned, AfterEnd
<1> QED BY <1>2, <1>3, <1>4 DEF WorkInv, Owned

LEMMA JobKeepsOrder ==
  ASSUME TypeInv, WorkInv, OrderInv, NEW old, NEW name, NEW next, JobStep(old, name, next)
  PROVE  OrderInv'
<1>1. /\ old \in Job /\ old.e \in Sample /\ old.style \in Styles /\ old.e.time <= now
      /\ name \in Names /\ docs \in [Docs -> Seq(Sample)] /\ now \in Nat /\ old = jobs[1]
      /\ old # Idle /\ overtaken' = overtaken /\ now' = now /\ jobs'[1] = next
      /\ next # Idle => next.style = old.style /\ next.e = old.e
  <2>1. /\ old = jobs[1] /\ old # Idle /\ name \in Names /\ overtaken' = overtaken /\ now' = now
        /\ jobs' = [jobs EXCEPT ![1] = next]
        /\ next # Idle => next.style = old.style /\ next.e = old.e
    BY DEF JobStep
  <2>2. Placed(ranking, old) /\ Owned(old)
    BY <2>1 DEF WorkInv
  <2>3. /\ jobs \in [1 .. 2 -> Job] /\ docs \in [Docs -> Seq(Sample)] /\ now \in Nat
    BY DEF TypeInv
  <2>4. old \in Job /\ jobs'[1] = next
    BY <2>1, <2>3
  <2>5. old.e \in Sample /\ old.e.time <= now
    BY <2>2 DEF Placed, Owned
  <2>6. old.style \in Styles
    BY <2>4 DEF Job
  <2> QED BY <2>1, <2>3, <2>4, <2>5, <2>6
<1> PICK D : D = Stored(old.style, name, old.e)
  OBVIOUS
<1>2. \A d \in Docs : D[d] # docs[d] => d[1] = name /\ D[d] = Written(old.style, docs[d], old.e)
  BY <1>1, StoredIs
<1>3. docs' = docs \/ docs' = D
  BY DEF JobStep
<1>4. SUFFICES ASSUME NEW d \in Docs, d[1] \in Undisturbed' PROVE Ordered(d)'
  BY DEF OrderInv
<1>5. Ordered(d)
  BY <1>1, <1>4 DEF OrderInv, Undisturbed
<1> PICK s : s = docs[d]
  OBVIOUS
<1> PICK w : w = docs'[d]
  OBVIOUS
<1>6. /\ s \in Seq(Sample) /\ InOrder(s)
      /\ \A i \in DOMAIN s : s[i].time <= now /\ (old.style # "seed" => s[i].time <= old.e.time)
  BY <1>1, <1>5 DEF Ordered
<1>7. /\ InOrder(w)
      /\ \A i \in DOMAIN w : w[i].time <= now /\ (old.style # "seed" => w[i].time <= old.e.time)
  <2>1. CASE w = s
    BY <1>6, <2>1
  <2>2. CASE w = Written(old.style, s, old.e)
    <3> HIDE DEF Styles
    <3>1. \A st \in Styles : \A e \in Sample :
            st = old.style /\ e = old.e =>
              /\ InOrder(Written(st, s, e))
              /\ \A i \in DOMAIN Written(st, s, e) :
                   /\ Written(st, s, e)[i].time <= now
                   /\ st # "seed" => Written(st, s, e)[i].time <= e.time
      BY <1>1, <1>6, WrittenInOrder
    <3> QED BY <1>1, <2>2, <3>1
  <2> QED BY <1>2, <1>3, <2>1, <2>2
<1>8. \A i \in DOMAIN w : next # Idle /\ next.style # "seed" => w[i].time <= next.e.time
  BY <1>1, <1>7
<1> QED BY <1>1, <1>7, <1>8 DEF Ordered

\* Where a history has its entries of the end.
LEMMA EndIsStored ==
  ASSUME docs \in [Docs -> Seq(Sample)], NEW style \in Styles, NEW name \in Names,
         NEW e \in Sample, NEW D, D = Stored(style, name, e), NEW n \in Histories,
         NEW c, c = DocOf(n, EndAt)
  PROVE  /\ c \in Docs /\ c[1] = n /\ docs[c] \in Seq(Sample)
         /\ D[c] = docs[c] \/ (n = name /\ D[c] = Written(style, docs[c], e) /\ D[c] # <<>>)
         /\ n = name /\ e.time = EndAt => D[c] = Written(style, docs[c], e) /\ D[c] # <<>>
<1>1. c \in Docs /\ c[1] = n /\ docs[c] \in Seq(Sample)
  BY BucketOfEnd, IntervalsAssumption
<1>2. \A d \in Docs : D[d] # docs[d] => d[1] = name /\ D[d] = Written(style, docs[d], e)
  BY StoredIs
<1>3. name \in Histories => D[DocOf(name, e.time)] = Written(style, docs[DocOf(name, e.time)], e)
  BY StoredIs
<1>4. Written(style, docs[c], e) # <<>>
  BY <1>1, WrittenIs
<1> QED BY <1>1, <1>2, <1>3, <1>4

\* A replacement keeps one entry at the end, its own where it writes.
LEMMA ReplacementStands ==
  ASSUME docs \in [Docs -> Seq(Sample)], NEW name \in Names, NEW e \in Sample, e.time = EndAt,
         docs' = docs \/ docs' = Stored("replace", name, e), UNCHANGED overtaken,
         NEW n \in Histories, NEW S
  PROVE  /\ Stands(n, S) => Stands(n, S \union {e.sample})'
         /\ Stands(n, S) /\ e.sample \in S => Stands(n, S)'
         /\ n = name /\ docs' = Stored("replace", name, e) => Stands(n, {e.sample})'
<1> PICK D : D = Stored("replace", name, e)
  OBVIOUS
<1> PICK c : c = DocOf(n, EndAt)
  OBVIOUS
<1>1. /\ c \in Docs /\ c[1] = n /\ docs[c] \in Seq(Sample)
      /\ D[c] = docs[c] \/ (n = name /\ D[c] = Written("replace", docs[c], e) /\ D[c] # <<>>)
      /\ n = name => D[c] = Written("replace", docs[c], e) /\ D[c] # <<>>
  BY EndIsStored DEF Styles
<1>2. D[c] = Written("replace", docs[c], e) => OneAtEnd(D[c], {e.sample})
  <2>1. docs[c] \in Seq(Sample) /\ "replace" \in Styles
    BY <1>1 DEF Styles
  <2> QED BY <2>1, WrittenIs
<1>3. \A s, A, B : OneAtEnd(s, A) /\ A \subseteq B => OneAtEnd(s, B)
  BY DEF OneAtEnd
<1>4. ASSUME NEW T, e.sample \in T, S \subseteq T, Stands(n, S) PROVE Stands(n, T)'
  <2>1. docs[c] # <<>> /\ (n \in Undisturbed => OneAtEnd(docs[c], S))
    BY <1>4 DEF Stands
  <2>2. docs'[c] # <<>> /\ (n \in Undisturbed => OneAtEnd(docs'[c], T))
    BY <1>1, <1>2, <1>3, <1>4, <2>1
  <2> QED BY <2>2 DEF Stands, Undisturbed
<1>5. ASSUME n = name, docs' = D PROVE Stands(n, {e.sample})'
  <2>1. docs'[c] # <<>> /\ OneAtEnd(docs'[c], {e.sample})
    BY <1>1, <1>2, <1>5
  <2> QED BY <2>1 DEF Stands
<1> QED BY <1>4, <1>5

\* Which histories a replacement has to write.
LEMMA ScopeIs ==
  ASSUME NEW r \in Rankings
  PROVE  Scope(r) \subseteq Histories
<1> QED BY DEF Scope, Histories, Borders

LEMMA JobKeepsReplace ==
  ASSUME TypeInv, WorkInv, ReplaceInv, NEW name, NEW next,
         JobStep(jobs[1], name, next), Progress(jobs[1], name, next)
  PROVE  ReplaceInv'
<1> PICK old : old = jobs[1]
  OBVIOUS
<1>1. /\ old \in Job /\ old # Idle /\ old.e \in Sample /\ name \in Names /\ ranking \in Rankings
      /\ docs \in [Docs -> Seq(Sample)] /\ jobs'[1] = next /\ ranking' = ranking
      /\ UNCHANGED overtaken
      /\ old.style = "replace" => old.e.time = EndAt
      /\ next # Idle => next.style = old.style /\ next.e = old.e
      /\ docs' = docs \/ docs' = Stored(old.style, name, old.e)
  BY DEF JobStep, TypeInv, WorkInv, Placed
<1> SUFFICES ASSUME next # Idle, next.style = "replace",
                    NEW n \in Scope(ranking) \ Left(ranking, next)
             PROVE  Stands(n, {old.e.sample})'
  BY <1>1 DEF ReplaceInv
<1>2. old.style = "replace" /\ n \in Histories
  BY <1>1, ScopeIs
<1>3. n \in Left(ranking, old) => n = name /\ docs' = Stored("replace", name, old.e)
  BY <1>2 DEF Progress
<1>4. n \notin Left(ranking, old) => Stands(n, {old.e.sample})
  BY <1>1, <1>2 DEF ReplaceInv
<1> PICK e, S : e = old.e /\ S = {old.e.sample}
  OBVIOUS
<1>5. e \in Sample /\ e.time = EndAt /\ e.sample \in S
      /\ (docs' = docs \/ docs' = Stored("replace", name, e))
  BY <1>1, <1>2
<1>6. /\ Stands(n, S) => Stands(n, S)'
      /\ n = name /\ docs' = Stored("replace", name, e) => Stands(n, {e.sample})'
  BY <1>1, <1>2, <1>5, ReplacementStands
<1>7. CASE n \in Left(ranking, old)
  BY <1>3, <1>6, <1>7
<1>8. CASE n \notin Left(ranking, old)
  BY <1>4, <1>6, <1>8
<1> QED BY <1>7, <1>8

LEMMA JobKeepsFinal ==
  ASSUME TypeInv, WorkInv, ReplaceInv, FinalInv, NEW name, NEW next,
         JobStep(jobs[1], name, next), Progress(jobs[1], name, next)
  PROVE  FinalInv'
<1> PICK old : old = jobs[1]
  OBVIOUS
<1>1. /\ old \in Job /\ old # Idle /\ old.e \in Sample /\ name \in Names /\ ranking \in Rankings
      /\ docs \in [Docs -> Seq(Sample)] /\ jobs'[1] = next /\ ranking' = ranking
      /\ UNCHANGED overtaken /\ now' = now
      /\ old.style = "replace" => old.e.time = EndAt
      /\ next # Idle => next.style = old.style /\ next.e = old.e
      /\ docs' = docs \/ docs' = Stored(old.style, name, old.e)
      /\ poll' = poll \/ poll' = "idle" \/ (old.style # "seed" /\ poll' = old.style)
  BY DEF JobStep, TypeInv, WorkInv, Placed
<1>2. Owned(old)
  BY <1>1 DEF WorkInv
<1> PICK before, after : before = final /\ after = final'
  OBVIOUS
<1> SUFFICES ASSUME after # {} PROVE FinalInv'
  BY DEF FinalInv
<1>3. old.style = "replace"
  <2>1. before # {} \/ old.style = "replace"
    BY DEF Progress
  <2> QED BY <1>1, <2>1 DEF FinalInv
<1>4. AfterEnd'
  BY <1>1, <1>2, <1>3 DEF Owned, AfterEnd
<1>5. ~ranking'.v2 => poll' # "append"
  BY <1>1, <1>2, <1>3 DEF Owned
<1>6. next # Idle => next.style = "replace"
  BY <1>1, <1>3
<1> PICK e : e = old.e
  OBVIOUS
<1>7. ASSUME NEW n \in Scope(ranking) PROVE Stands(n, after)'
  <2>1. n \in Histories /\ e \in Sample /\ e.time = EndAt
        /\ (docs' = docs \/ docs' = Stored("replace", name, e))
    BY <1>1, <1>3, <1>7, ScopeIs
  <2>2. ASSUME NEW S
        PROVE  /\ Stands(n, S) => Stands(n, S \union {e.sample})'
               /\ Stands(n, S) /\ e.sample \in S => Stands(n, S)'
               /\ n = name /\ docs' = Stored("replace", name, e) => Stands(n, {e.sample})'
    BY <1>1, <2>1, ReplacementStands
  <2>3. before # {} => Stands(n, before)
    BY <1>7 DEF FinalInv
  <2>4. CASE before # {} /\ after = before \union {e.sample}
    BY <2>2, <2>3, <2>4
  <2>5. CASE after = before /\ docs' = docs
    <3>1. Stands(n, before)
      BY <2>3, <2>5
    <3>2. Stands(n, before)'
      BY <1>1, <2>5, <3>1 DEF Stands, Undisturbed
    <3> QED BY <2>5, <3>2
  <2>6. CASE /\ after = {e.sample} /\ docs' = Stored("replace", name, e)
             /\ Left(ranking, old) \subseteq {name}
    <3>1. CASE n = name
      BY <2>2, <2>6, <3>1
    <3>2. CASE n # name
      <4>1. Stands(n, {e.sample})
        BY <1>1, <1>3, <1>7, <2>6, <3>2 DEF ReplaceInv
      <4>2. Stands(n, {e.sample})'
        BY <2>2, <4>1
      <4> QED BY <2>6, <4>2
    <3> QED BY <3>1, <3>2
  <2> QED BY <1>3, <2>4, <2>5, <2>6 DEF Progress
<1> QED BY <1>1, <1>4, <1>5, <1>6, <1>7 DEF FinalInv

-----------------------------------------------------------------------------
(* A job that starts *)

LEMMA StartKeepsType ==
  ASSUME TypeInv, WorkInv, NEW style, NEW t, NEW n, NEW work, StartStep(style, t, n, work)
  PROVE  /\ TypeInv' /\ WorkInv'
         /\ jobs'[1] = work /\ work.pc = "writing" /\ work.style = style /\ work.e.time = t
         /\ Left(ranking, work) = Later(Units(ranking, style), 1, 0)
<1>1. /\ ranking \in Rankings /\ style \in Styles /\ t \in StartAt .. EndAt /\ n \in Nat
      /\ style = "replace" => t = EndAt
      /\ work = Work(style, t, n) /\ now \in Nat /\ t <= now
  BY DEF StartStep, TypeInv
<1>2. /\ work \in Job /\ work # Idle /\ Placed(ranking, work)
      /\ work.style = style /\ work.e = [time |-> t, sample |-> n] /\ work.pc = "writing"
      /\ Left(ranking, work) = Later(Units(ranking, style), 1, 0)
  BY <1>1, WorkIs
<1>3. /\ jobs' \in [1 .. 2 -> Job] /\ jobs'[1] = work /\ jobs'[2] = Idle
  BY <1>2 DEF StartStep, TypeInv, WorkInv
<1>4. /\ poll' \in {"boot", "idle", "persist"} /\ (style = "seed" <=> poll' = "boot")
      /\ (style # "seed" => IF ranking.v2 THEN entry'.busy ELSE poll' = "persist")
  BY DEF StartStep
<1>5. final' \subseteq Nat
  BY DEF StartStep, TypeInv
<1>6. TypeInv'
  BY <1>3, <1>4, <1>5 DEF StartStep, TypeInv
<1>7. /\ Placed(ranking', work) /\ work.e.time <= now'
      /\ work.style = "replace" => AfterEnd'
      /\ work.style = "seed" => ranking'.kind = "event"
  BY <1>1, <1>2 DEF StartStep, AfterEnd
<1>8. Owned(work)'
  <2>1. ranking' = ranking
    BY DEF StartStep
  <2> QED BY <1>2, <1>4, <1>7, <2>1 DEF Owned
<1>9. WorkInv'
  BY <1>3, <1>4, <1>7, <1>8 DEF WorkInv
<1> QED BY <1>2, <1>3, <1>6, <1>9

LEMMA StartKeepsOrder ==
  ASSUME TypeInv, WorkInv, OrderInv, NEW style, NEW t, NEW n, NEW work,
         StartStep(style, t, n, work)
  PROVE  OrderInv'
<1>1. /\ jobs'[1] = work /\ work.style = style /\ work.e.time = t
  BY StartKeepsType
<1>2. /\ docs' = docs /\ overtaken' = overtaken /\ now' = now /\ now \in Nat
      /\ docs \in [Docs -> Seq(Sample)] /\ t \in StartAt .. EndAt
      /\ style # "seed" => t = now \/ t = EndAt
  BY DEF StartStep, TypeInv
<1>3. ASSUME NEW d \in Docs, d[1] \in Undisturbed' PROVE Ordered(d)'
  <2> PICK s : s = docs[d]
    OBVIOUS
  <2>1. InOrder(s) /\ \A i \in DOMAIN s : s[i].time <= now
    BY <1>2, <1>3 DEF OrderInv, Undisturbed, Ordered
  <2>2. \A i \in DOMAIN s : s[i].time \in StartAt .. EndAt
    <3>1. s \in Seq(Sample)
      BY <1>2, <1>3
    <3>2. \A i \in DOMAIN s : s[i] \in Sample
      BY <3>1
    <3> QED BY <3>2 DEF Sample
  <2>3. \A i \in DOMAIN s : style # "seed" => s[i].time <= t
    BY <1>2, <2>1, <2>2, IntervalsAssumption
  <2> QED BY <1>1, <1>2, <2>1, <2>3 DEF Ordered
<1> QED BY <1>3 DEF OrderInv

LEMMA StartKeepsFinal ==
  ASSUME TypeInv, WorkInv, ReplaceInv, FinalInv, NEW style, NEW t, NEW n, NEW work,
         StartStep(style, t, n, work)
  PROVE  ReplaceInv' /\ FinalInv'
<1>1. /\ jobs'[1] = work /\ work # Idle /\ work.style = style
      /\ Left(ranking, work) = Later(Units(ranking, style), 1, 0)
  <2>1. /\ jobs'[1] = work /\ work.pc = "writing" /\ work.style = style
        /\ Left(ranking, work) = Later(Units(ranking, style), 1, 0)
    BY StartKeepsType
  <2> QED BY <2>1, IdleIsAJob
<1>2. /\ ranking' = ranking /\ ranking \in Rankings /\ docs' = docs /\ overtaken' = overtaken
      /\ now' = now /\ now \in Nat
  BY DEF StartStep, TypeInv
<1>3. ReplaceInv'
  <2>1. style = "replace" => Scope(ranking) \ Left(ranking, work) = {}
    BY <1>1, <1>2, ReplacementCovers
  <2> QED BY <1>1, <1>2, <2>1 DEF ReplaceInv
<1>4. ASSUME final' # {} PROVE FinalInv'
  <2>1. final' = final /\ final # {} /\ style # "seed"
    BY <1>4 DEF StartStep
  <2>2. AfterEnd /\ (~ranking.v2 => poll # "append")
    BY <2>1 DEF FinalInv
  <2>3. style = "replace"
    BY <1>2, <2>1, <2>2, IntervalsAssumption DEF StartStep, AfterEnd, Styles
  <2>4. ~ranking'.v2 => poll' # "append"
    BY <2>1 DEF StartStep
  <2>5. \A h \in Scope(ranking) : Stands(h, final)
    BY <2>1 DEF FinalInv
  <2>6. \A h \in Scope(ranking) : Stands(h, final)'
    BY <1>2, <2>1, <2>5 DEF Stands, Undisturbed
  <2>7. AfterEnd'
    BY <1>2, <2>2 DEF AfterEnd
  <2> QED BY <1>1, <1>2, <2>1, <2>3, <2>4, <2>6, <2>7 DEF FinalInv
<1>5. final' = {} => FinalInv'
  BY DEF FinalInv
<1> QED BY <1>3, <1>4, <1>5

-----------------------------------------------------------------------------
(* Nothing is written, a late write lands, or the process starts again *)

LEMMA QuietKeeps ==
  ASSUME IInv, QuietStep
  PROVE  TypeInv' /\ WorkInv' /\ OrderInv' /\ ReplaceInv' /\ FinalInv'
<1>1. /\ TypeInv /\ WorkInv /\ OrderInv /\ ReplaceInv /\ FinalInv
      /\ now \in Nat /\ now' \in Nat /\ now <= now' /\ docs' = docs /\ jobs' = jobs
      /\ ranking' = ranking /\ final' = final /\ overtaken' = overtaken /\ StartAt <= now
      /\ ranking \in Rankings /\ jobs[1] \in Job /\ docs \in [Docs -> Seq(Sample)]
  BY DEF IInv, QuietStep, TypeInv
<1>2. TypeInv'
  BY <1>1, IntervalsAssumption DEF QuietStep, TypeInv
<1>3. AfterEnd => AfterEnd'
  BY <1>1, IntervalsAssumption DEF AfterEnd
<1>4. WorkInv'
  <2>1. ASSUME jobs[1] # Idle PROVE Placed(ranking, jobs[1]) /\ Owned(jobs[1])'
    <3> PICK job : job = jobs[1]
      OBVIOUS
    <3>1. Placed(ranking, job) /\ Owned(job) /\ job.e.time \in Nat
      BY <1>1, <2>1 DEF WorkInv, Job
    <3>2. job.e.time <= now'
      BY <1>1, <3>1 DEF Owned
    <3>3. (job.style = "seed" <=> poll' = "boot") /\ (job.style = "seed" => ranking.kind = "event")
      BY <2>1, <3>1 DEF QuietStep, Owned
    <3>4. job.style # "seed" => IF ranking.v2 THEN entry'.busy ELSE poll' = "persist"
      BY <2>1, <3>1 DEF QuietStep, Owned
    <3>5. job.style = "replace" => AfterEnd'
      BY <1>3, <3>1 DEF Owned
    <3> QED BY <1>1, <3>1, <3>2, <3>3, <3>4, <3>5 DEF Owned
  <2>2. poll' = "replace" => AfterEnd'
    BY <1>1, <1>3 DEF QuietStep, WorkInv
  <2> QED BY <1>1, <2>1, <2>2 DEF WorkInv
<1>5. OrderInv'
  <2>1. ASSUME NEW d \in Docs, d[1] \in Undisturbed' PROVE Ordered(d)'
    <3> PICK s : s = docs[d]
      OBVIOUS
    <3>1. Ordered(d)
      BY <1>1, <2>1 DEF OrderInv, Undisturbed
    <3>2. \A i \in DOMAIN s : s[i].time \in Nat
      <4>1. s \in Seq(Sample)
        BY <1>1, <2>1
      <4>2. \A i \in DOMAIN s : s[i] \in Sample
        BY <4>1
      <4> QED BY <4>2, IntervalsAssumption DEF Sample
    <3>3. \A i \in DOMAIN s : s[i].time <= now'
      BY <1>1, <3>1, <3>2 DEF Ordered
    <3> QED BY <1>1, <3>1, <3>3 DEF Ordered
  <2> QED BY <2>1 DEF OrderInv
<1>6. ReplaceInv'
  BY <1>1 DEF ReplaceInv, Stands, Undisturbed
<1>7. ASSUME final # {} PROVE FinalInv'
  <2>1. /\ AfterEnd /\ (~ranking.v2 => poll # "append")
        /\ jobs[1] # Idle => jobs[1].style = "replace"
        /\ \A name \in Scope(ranking) : Stands(name, final)
    BY <1>1, <1>7 DEF FinalInv
  <2>2. \A name \in Scope(ranking) : Stands(name, final)'
    BY <1>1, <2>1 DEF Stands, Undisturbed
  <2>3. ASSUME ~ranking.v2, poll' = "append" PROVE FALSE
    <3>1. "top" \in Scope(ranking)
      BY <1>1, <2>3 DEF Scope, Histories
    <3>2. docs[DocOf("top", EndAt)] # <<>>
      BY <2>1, <3>1 DEF Stands
    <3>3. ~(now <= EndAt)
      BY <1>1, <2>1, <2>3, IntervalsAssumption DEF AfterEnd
    <3> QED BY <2>1, <2>3, <3>2, <3>3 DEF QuietStep
  <2> QED BY <1>1, <1>3, <2>1, <2>2, <2>3 DEF FinalInv
<1>8. final = {} => FinalInv'
  BY <1>1 DEF FinalInv
<1> QED BY <1>2, <1>4, <1>5, <1>6, <1>7, <1>8

LEMMA LandKeeps ==
  ASSUME IInv, NEW w, LandStep(w)
  PROVE  TypeInv' /\ WorkInv' /\ OrderInv' /\ ReplaceInv' /\ FinalInv'
<1>1. /\ TypeInv /\ WorkInv /\ OrderInv /\ ReplaceInv /\ FinalInv
      /\ now' = now /\ jobs' = jobs /\ ranking' = ranking /\ final' = final /\ poll' = poll
      /\ entry' = entry /\ samples' = samples /\ late' \subseteq late
      /\ overtaken' = overtaken \union {w.name} /\ ranking \in Rankings
      /\ docs \in [Docs -> Seq(Sample)]
      /\ w.style \in Styles /\ w.name \in Names /\ w.e \in Sample
  BY DEF IInv, LandStep, TypeInv, LateWrite
<1> PICK D, style, name, e : D = docs' /\ style = w.style /\ name = w.name /\ e = w.e
  OBVIOUS
<1>2. D = Stored(style, name, e) /\ style \in Styles /\ name \in Names /\ e \in Sample
  BY <1>1 DEF LandStep
<1>3. /\ D \in [Docs -> Seq(Sample)]
      /\ \A d \in Docs : D[d] # docs[d] => d[1] = name
  BY <1>1, <1>2, StoredIs
<1>4. TypeInv'
  BY <1>1, <1>3 DEF TypeInv
<1>5. WorkInv'
  BY <1>1 DEF WorkInv, Owned, AfterEnd
<1>6. OrderInv'
  <2>1. ASSUME NEW d \in Docs, d[1] \in Undisturbed' PROVE Ordered(d)'
    <3>1. D[d] = docs[d] /\ d[1] \in Undisturbed
      BY <1>1, <1>3, <2>1 DEF Undisturbed
    <3>2. Ordered(d)
      BY <1>1, <2>1, <3>1 DEF OrderInv
    <3> QED BY <1>1, <3>1, <3>2 DEF Ordered
  <2> QED BY <2>1 DEF OrderInv
<1>7. ASSUME NEW n \in Scope(ranking), NEW S, Stands(n, S) PROVE Stands(n, S)'
  <2>1. n \in Histories
    BY <1>1, ScopeIs
  <2> PICK c : c = DocOf(n, EndAt)
    OBVIOUS
  <2>2. /\ c \in Docs /\ c[1] = n /\ docs[c] \in Seq(Sample)
        /\ D[c] = docs[c] \/ (n = name /\ D[c] = Written(style, docs[c], e) /\ D[c] # <<>>)
    BY <1>1, <1>2, <2>1, EndIsStored
  <2>3. D[c] # <<>>
    BY <1>7, <2>2 DEF Stands
  <2>4. n \in Undisturbed' => n \in Undisturbed /\ D[c] = docs[c]
    BY <1>1, <2>2 DEF Undisturbed
  <2> QED BY <1>7, <2>3, <2>4 DEF Stands
<1>8. ReplaceInv'
  BY <1>1, <1>7 DEF ReplaceInv
<1>9. FinalInv'
  BY <1>1, <1>7 DEF FinalInv, AfterEnd
<1> QED BY <1>4, <1>5, <1>6, <1>8, <1>9

LEMMA RestartKeeps ==
  ASSUME IInv, RestartStep
  PROVE  TypeInv' /\ WorkInv' /\ OrderInv' /\ ReplaceInv' /\ FinalInv'
<1>1. /\ TypeInv /\ WorkInv /\ OrderInv /\ ReplaceInv /\ FinalInv
      /\ now' = now /\ ranking' = ranking /\ docs' = docs /\ overtaken' = overtaken
      /\ jobs'[1] = Idle /\ jobs'[2] = Idle /\ poll' = "boot" /\ final \subseteq final'
      /\ final = {} => final' = {}
  BY DEF IInv, RestartStep
<1>2. TypeInv'
  BY <1>1, IdleIsAJob DEF TypeInv, RestartStep
<1>3. WorkInv'
  BY <1>1 DEF WorkInv
<1>4. OrderInv'
  BY <1>1 DEF OrderInv, Undisturbed, Ordered
<1>5. ReplaceInv'
  BY <1>1 DEF ReplaceInv
<1>6. ASSUME final' # {} PROVE FinalInv'
  <2>1. /\ AfterEnd /\ \A name \in Scope(ranking) : Stands(name, final)
    BY <1>1, <1>6 DEF FinalInv
  <2> PICK after : after = final'
    OBVIOUS
  <2>2. \A s : OneAtEnd(s, final) => OneAtEnd(s, after)
    BY <1>1 DEF OneAtEnd
  <2>3. \A name \in Scope(ranking) : Stands(name, after)'
    BY <1>1, <2>1, <2>2 DEF Stands, Undisturbed
  <2>4. AfterEnd'
    BY <1>1, <2>1 DEF AfterEnd
  <2> QED BY <1>1, <2>3, <2>4 DEF FinalInv
<1>7. final' = {} => FinalInv'
  BY DEF FinalInv
<1> QED BY <1>2, <1>3, <1>4, <1>5, <1>6, <1>7

-----------------------------------------------------------------------------
(* The theorems *)

\* An entry is written to the document of its time.
LEMMA BucketsKept ==
  ASSUME docs \in [Docs -> Seq(Sample)], BucketInv, NEW style \in Styles, NEW name \in Names,
         NEW e \in Sample, docs' = docs \/ docs' = Stored(style, name, e)
  PROVE  BucketInv'
<1> PICK D : D = Stored(style, name, e)
  OBVIOUS
<1>1. \A d \in Docs : D[d] # docs[d] => /\ d[1] = name /\ d = DocOf(name, e.time)
                                        /\ D[d] = Written(style, docs[d], e)
  BY StoredIs
<1>2. ASSUME NEW d \in Docs, NEW i \in DOMAIN docs'[d]
      PROVE  DocOf(d[1], docs'[d][i].time) = d
  <2>1. \A k \in DOMAIN docs[d] : DocOf(d[1], docs[d][k].time) = d
    BY <1>2 DEF BucketInv
  <2>2. CASE docs'[d] = docs[d]
    BY <1>2, <2>1, <2>2
  <2>3. CASE docs'[d] # docs[d]
    <3>1. docs' = D
      BY <2>3
    <3>2. d[1] = name /\ d = DocOf(name, e.time) /\ docs'[d] = Written(style, docs[d], e)
      BY <1>1, <1>2, <2>3, <3>1
    <3> PICK s : s = docs[d]
      OBVIOUS
    <3>3. s \in Seq(Sample)
      BY <1>2
    <3>4. \A k \in DOMAIN Written(style, s, e) :
            Written(style, s, e)[k] = e \/ \E m \in DOMAIN s : Written(style, s, e)[k] = s[m]
      BY <3>3, WrittenIs
    <3>5. docs'[d][i] = e \/ \E m \in DOMAIN s : docs'[d][i] = s[m]
      BY <1>2, <3>2, <3>4
    <3> QED BY <2>1, <3>2, <3>5
  <2> QED BY <2>2, <2>3
<1> QED BY <1>2 DEF BucketInv

LEMMA InitEstablishes == Init => IInv
<1> SUFFICES ASSUME Init PROVE IInv
  OBVIOUS
<1>1. /\ docs = [d \in Docs |-> <<>>] /\ jobs[1] = Idle /\ jobs[2] = Idle /\ final = {}
      /\ \A d \in Docs : docs[d] = <<>> /\ DOMAIN docs[d] = {}
  BY DEF Init
<1>2. TypeInv
  <2>1. jobs \in [1 .. 2 -> Job]
    BY IdleIsAJob DEF Init
  <2>2. docs \in [Docs -> Seq(Sample)]
    BY <1>1
  <2> QED BY <2>1, <2>2, IntervalsAssumption DEF Init, TypeInv, Never, Rankings
<1>3. WorkInv
  BY <1>1 DEF Init, WorkInv
<1>4. OrderInv /\ BucketInv
  BY <1>1 DEF OrderInv, Ordered, InOrder, BucketInv
<1>5. ReplaceInv /\ FinalInv
  BY <1>1 DEF ReplaceInv, FinalInv
<1> QED BY <1>2, <1>3, <1>4, <1>5 DEF IInv

LEMMA StepsKeep == IInv /\ [Next]_vars => IInv'
<1> SUFFICES ASSUME IInv, [Next]_vars PROVE IInv'
  OBVIOUS
<1>0. TypeInv /\ WorkInv /\ OrderInv /\ BucketInv /\ ReplaceInv /\ FinalInv
      /\ docs \in [Docs -> Seq(Sample)]
  BY DEF IInv, TypeInv
<1>1. ASSUME NEW name, NEW next, JobStep(jobs[1], name, next), Progress(jobs[1], name, next)
      PROVE  IInv'
  <2>1. jobs[1].style \in Styles /\ jobs[1].e \in Sample /\ name \in Names
        /\ (docs' = docs \/ docs' = Stored(jobs[1].style, name, jobs[1].e))
    BY <1>0, <1>1 DEF JobStep, TypeInv, WorkInv, Placed, Job
  <2>2. BucketInv'
    BY <1>0, <2>1, BucketsKept
  <2> QED BY <1>0, <1>1, <2>2, JobKeepsType, JobKeepsWork, JobKeepsOrder, JobKeepsReplace,
             JobKeepsFinal DEF IInv
<1>2. ASSUME NEW style, NEW t, NEW n, NEW work, StartStep(style, t, n, work) PROVE IInv'
  <2>1. BucketInv'
    BY <1>0, <1>2 DEF StartStep, BucketInv
  <2>2. TypeInv' /\ WorkInv'
    BY <1>0, <1>2, StartKeepsType
  <2>3. OrderInv'
    BY <1>0, <1>2, StartKeepsOrder
  <2>4. ReplaceInv' /\ FinalInv'
    BY <1>0, <1>2, StartKeepsFinal
  <2> QED BY <2>1, <2>2, <2>3, <2>4 DEF IInv
<1>3. CASE QuietStep
  BY <1>0, <1>3, QuietKeeps DEF IInv, QuietStep, BucketInv
<1>4. ASSUME NEW w, LandStep(w) PROVE IInv'
  <2>1. w.style \in Styles /\ w.name \in Names /\ w.e \in Sample
        /\ docs' = Stored(w.style, w.name, w.e)
    BY <1>4 DEF LandStep, LateWrite
  <2>2. BucketInv'
    BY <1>0, <2>1, BucketsKept
  <2> QED BY <1>4, <2>2, LandKeeps DEF IInv
<1>5. CASE RestartStep
  BY <1>0, <1>5, RestartKeeps DEF IInv, RestartStep, BucketInv
<1> QED BY <1>0, <1>1, <1>2, <1>3, <1>4, <1>5, KindsOfSteps

\* The invariant on which the theorems rest.
THEOREM Invariance == Spec => []IInv
<1> QED BY InitEstablishes, StepsKeep, PTL DEF Spec

\* The entries of an undisturbed document are in the order of time, none later than the end.
THEOREM OrderOfDocuments == Spec => []DocumentsInOrder
<1>1. IInv => DocumentsInOrder
  <2> SUFFICES ASSUME IInv, NEW name \in Undisturbed, NEW d \in Docs, d[1] = name
               PROVE  InOrder(docs[d]) /\ \A i \in DOMAIN docs[d] : docs[d][i].time <= EndAt
    BY DEF DocumentsInOrder
  <2> PICK s : s = docs[d]
    OBVIOUS
  <2>1. s \in Seq(Sample)
    BY DEF IInv, TypeInv
  <2>2. \A i \in DOMAIN s : s[i] \in Sample
    BY <2>1
  <2>3. \A i \in DOMAIN s : s[i].time <= EndAt
    BY <2>2, IntervalsAssumption DEF Sample
  <2>4. InOrder(docs[d])
    BY DEF IInv, OrderInv, Ordered
  <2> QED BY <2>3, <2>4
<1> QED BY <1>1, Invariance, PTL

\* After a refresh after the end, readers find exactly one entry at the end.
THEOREM FinalSample == Spec => []FinalSampleStored
<1>1. IInv => FinalSampleStored
  <2> SUFFICES ASSUME IInv, final # {},
                      NEW name \in Undisturbed \ (IF ranking.v2 THEN {"top"} ELSE {}),
                      ranking.kind = "event" \/ name \in {"top"} \union Borders
               PROVE  \E p \in AtEnd(name) : AtEnd(name) = {p} /\ Entry(p).sample \in final
    BY DEF FinalSampleStored
  <2>1. name \in Scope(ranking) /\ name \in Histories /\ name \in Undisturbed
    BY DEF IInv, TypeInv, Rankings, Scope, Undisturbed, Histories
  <2> PICK c : c = DocOf(name, EndAt)
    OBVIOUS
  <2>2. c \in Docs /\ c[1] = name
    BY <2>1, BucketOfEnd, IntervalsAssumption
  <2>3. OneAtEnd(docs[c], final)
    BY <2>1 DEF IInv, FinalInv, Stands
  <2>4. PICK i \in DOMAIN docs[c] : /\ docs[c][i].time = EndAt /\ docs[c][i].sample \in final
                                    /\ \A k \in DOMAIN docs[c] : docs[c][k].time = EndAt => k = i
    BY <2>3 DEF OneAtEnd
  <2>5. <<c, i>> \in AtEnd(name) /\ Entry(<<c, i>>).sample \in final
    <3>1. <<c, i>> \in {c} \X DOMAIN docs[c]
      BY <2>4
    <3>2. <<c, i>> \in Places(name)
      BY <2>2, <3>1, Zenon DEF Places
    <3> QED BY <2>4, <3>2 DEF AtEnd, Entry
  <2>6. ASSUME NEW p \in AtEnd(name) PROVE p = <<c, i>>
    <3>1. p \in Places(name) /\ Entry(p).time = EndAt
      BY <2>6 DEF AtEnd
    <3>2. PICK d \in Docs : d[1] = name /\ p \in {d} \X DOMAIN docs[d]
      BY <3>1, Zenon DEF Places
    <3>3. PICK k \in DOMAIN docs[d] : p = <<d, k>>
      BY <3>2
    <3>4. docs[d][k].time = EndAt
      BY <3>1, <3>3 DEF Entry
    <3>5. d = c
      BY <3>2, <3>3, <3>4 DEF IInv, BucketInv
    <3> QED BY <2>4, <3>3, <3>4, <3>5
  <2> QED BY <2>5, <2>6
<1> QED BY <1>1, Invariance, PTL
=============================================================================
