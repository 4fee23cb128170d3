------------------------------ MODULE ScoreForm -----------------------------
(***************************************************************************)
(* frontend views/InteractiveScoreView.vue and AutoView.vue with           *)
(* components/common/PlayerDeckFetcher.vue: two pages edit one form, which *)
(* the browser stores.  The interactive page goes through three steps      *)
(* (team, target, result) and analyses in a timer that reads the form when *)
(* it fires; a deck is fetched into the form.  The form is the power (all  *)
(* of formData but the target), the skills with their leader, kept beside  *)
(* it, and the target; each is a number, a player's that of the player,    *)
(* and the analysis of a target has as many alternatives as its number.    *)
(* The auto page edits the very object its defaults are in when nothing is *)
(* stored (AutoView.vue:139).  The filters and the preview of step two are *)
(* left out.                                                               *)
(***************************************************************************)
EXTENDS Integers, FiniteSets

CONSTANTS
  Teams,         \* players, and powers and skills; 0 is the default
  Targets,       \* what can be typed as a target; 0 is not valid
  MaxTimers,     \* bound: timers that are set at once
  MaxFetches     \* bound: requests under way at once

VARIABLES
  storage,   \* localStorage: scoreCalc_formData, whose power is Nothing until it is saved, and the skills
  page,      \* the component that is mounted
  fetcher,   \* its PlayerDeckFetcher
  typed      \* history: what was typed or fetched last, and the power a reset brought back instead of the default

vars == <<storage, page, fetcher, typed>>

Nothing == -1
NoTarget == -1
NoResult == [power |-> Nothing, skills |-> Nothing, target |-> NoTarget, alternatives |-> 0]
Default == [power |-> 0, skills |-> 0, target |-> 1, restored |-> 0]
Empty == [power |-> Nothing, skills |-> 0, target |-> NoTarget]

\* loadFromStorage: the defaults fill in what was not stored.  A target the auto page does not know
\* stays in its form.
Loaded(view) ==
  [power |-> IF storage.power = Nothing THEN Default.power ELSE storage.power, skills |-> storage.skills,
   target |-> IF view = "interactive" /\ storage.target = NoTarget THEN Default.target ELSE storage.target]

\* The auto page's form is its defaults themselves as long as nothing replaces it.
Mounted(view) ==
  [view |-> view, form |-> Loaded(view), shared |-> view = "auto" /\ storage.power = Nothing,
   defaults |-> Default.power, step |-> 1, metadata |-> "loading", computing |-> FALSE, error |-> FALSE,
   result |-> NoResult, timers |-> 0, alternative |-> -1, early |-> FALSE]
NewFetcher == [loading |-> FALSE, error |-> FALSE, requests |-> {}]

Init ==
  /\ storage = Empty /\ typed = Default /\ fetcher = NewFetcher
  /\ page \in {Mounted("auto"), Mounted("interactive")}

\* The watchers save what changes, formData and the skills apart.
Saved ==
  LET changes == page'.form.power # page.form.power \/ page'.form.target # page.form.target
  IN  storage' = IF changes THEN page'.form ELSE [storage EXCEPT !.skills = page'.form.skills]

\* The other page is opened, and saves what it loaded: the component that goes takes its timers
\* and requests with it.
Open ==
  /\ page' = Mounted(IF page.view = "auto" THEN "interactive" ELSE "auto")
  /\ storage' = IF storage.power = Nothing THEN storage ELSE page'.form
  /\ fetcher' = NewFetcher /\ UNCHANGED typed

-----------------------------------------------------------------------------
EditsTeam == page.view = "auto" \/ page.step = 1

\* A power or skills that are entered; a shared form is the defaults.
Entered(power, skills) ==
  [page EXCEPT !.form.power = power, !.form.skills = skills, !.defaults = IF page.shared THEN power ELSE @]

EditPower == \E power \in Teams \union {0} :
  /\ EditsTeam /\ page' = Entered(power, page.form.skills)
  /\ typed' = [typed EXCEPT !.power = power, !.restored = 0] /\ Saved /\ UNCHANGED fetcher

\* updateSkill, the leader, and resetSkills, whose defaults are copies.
EditSkills == \E skills \in Teams \union {0} :
  /\ EditsTeam /\ page' = Entered(page.form.power, skills)
  /\ typed' = [typed EXCEPT !.skills = skills] /\ Saved /\ UNCHANGED fetcher

EditTarget == \E target \in Targets :
  /\ page.view = "interactive" /\ page.step = 2 /\ page' = [page EXCEPT !.form.target = target]
  /\ typed' = [typed EXCEPT !.target = target] /\ Saved /\ UNCHANGED fetcher

\* resetAllSettings: a copy of the defaults, which may have been edited, replaces the form, and is
\* saved; the target is not among them.
ResetAllSettings ==
  /\ page.view = "auto"
  /\ page' = [page EXCEPT !.form = [power |-> page.defaults, skills |-> 0, target |-> NoTarget], !.shared = FALSE]
  /\ typed' = [Default EXCEPT !.restored = page.defaults] /\ storage' = page'.form /\ UNCHANGED fetcher

\* fetchDeck, by the button or by the enter key, which does not wait for loading.
FetchDeck == \E player \in Teams :
  /\ EditsTeam /\ Cardinality(fetcher.requests) < MaxFetches /\ player \notin fetcher.requests
  /\ fetcher' = [loading |-> TRUE, error |-> FALSE, requests |-> fetcher.requests \union {player}]
  /\ UNCHANGED <<storage, page, typed>>

\* The answer; onDeckFetched fills in power and skills.  Answers come in any order.
DeckFetched == \E player \in fetcher.requests :
  /\ fetcher' = [fetcher EXCEPT !.loading = FALSE, !.requests = @ \ {player}]
  /\ page' = Entered(player, player)
  /\ typed' = [typed EXCEPT !.power = player, !.skills = player, !.restored = 0] /\ Saved

FetchFails == \E player \in fetcher.requests :
  /\ fetcher' = [loading |-> FALSE, error |-> TRUE, requests |-> fetcher.requests \ {player}]
  /\ UNCHANGED <<storage, page, typed>>

-----------------------------------------------------------------------------
\* isStepValid
StepValid == page.step = 2 => page.form.target > 0

\* Faulty variant: the result that is there is shown until the timer fires.
FaultyRunAnalysis(p) ==
  IF p.metadata # "ready" THEN [p EXCEPT !.error = TRUE]
  ELSE [p EXCEPT !.error = FALSE, !.timers = @ + 1, !.alternative = -1, !.early = FALSE]

\* runAnalysis up to its timer.
RunAnalysis(p) ==
  IF p.metadata # "ready" THEN [p EXCEPT !.error = TRUE]
  ELSE [p EXCEPT !.computing = TRUE, !.error = FALSE, !.timers = @ + 1, !.alternative = -1, !.early = FALSE]

\* The result goes with the third step.
Step(s) ==
  IF s = 3 THEN RunAnalysis([page EXCEPT !.step = 3])
  ELSE [page EXCEPT !.step = s, !.result = NoResult]

\* The fetcher is there in the first step only.
StepTo(s) ==
  /\ page' = Step(s) /\ page'.timers <= MaxTimers
  /\ fetcher' = IF s = 1 /\ page.step = 1 THEN fetcher ELSE NewFetcher
  /\ UNCHANGED <<storage, typed>>

NextStep ==
  /\ page.view = "interactive" /\ page.step < 3 /\ StepValid
  /\ IF page.step = 1
       THEN /\ page' = [page EXCEPT !.step = 2] /\ fetcher' = NewFetcher
            /\ UNCHANGED <<storage, typed>>
       ELSE StepTo(3)
PrevStep == page.view = "interactive" /\ page.step > 1 /\ StepTo(page.step - 1)

\* The marks of the steps so far, and the button of the second step.
GoToStep == \E s \in 1..3 :
  /\ page.view = "interactive"
  /\ \/ s <= page.step
     \/ page.step = 2 /\ s = 3 /\ StepValid /\ ~page.computing
  /\ StepTo(s)

\* loadMetadata: the metadata and the songs, together.
LoadMetadata ==
  /\ page.view = "interactive" /\ page.metadata = "loading"
  /\ page' \in {[page EXCEPT !.metadata = "ready"], [page EXCEPT !.metadata = "failed", !.error = TRUE]}
  /\ UNCHANGED <<storage, fetcher, typed>>

Analyzed(form) ==
  [power |-> form.power, skills |-> form.skills, target |-> form.target, alternatives |-> form.target]

\* The timer of runAnalysis: the form of now is analysed, whatever the step is now.
TimerFires ==
  /\ page.timers > 0
  /\ LET over == [page EXCEPT !.timers = @ - 1, !.computing = FALSE]
     IN  page' \in {[over EXCEPT !.result = Analyzed(page.form)], [over EXCEPT !.error = TRUE]}
  /\ UNCHANGED <<storage, fetcher, typed>>

-----------------------------------------------------------------------------
Total == 1 + page.result.alternatives

\* goNextAlternative and goPrevAlternative: from the main plan through the alternatives and back.
NextAlternative == ((page.alternative + 2) % Total) - 1
PrevAlternative == IF page.alternative < 0 THEN Total - 2 ELSE page.alternative - 1

\* handleKeydown and the buttons beside the plan; goToMain.
Cycle ==
  /\ page.view = "interactive" /\ page.step = 3 /\ page.result # NoResult /\ Total > 1
  /\ \E to \in {NextAlternative, PrevAlternative, -1} :
       page' = [page EXCEPT !.alternative = to, !.early = @ \/ page.computing]
  /\ UNCHANGED <<storage, fetcher, typed>>

Next ==
  \/ Open \/ EditPower \/ EditSkills \/ EditTarget \/ ResetAllSettings \/ FetchDeck
  \/ DeckFetched \/ FetchFails \/ NextStep \/ PrevStep \/ GoToStep \/ LoadMetadata \/ TimerFires \/ Cycle

Spec == Init /\ [][Next]_vars

-----------------------------------------------------------------------------
Shown == page.step = 3 /\ ~page.computing /\ ~page.error /\ page.result # NoResult

\* The form of either page is what was typed or fetched last and not reset, however often the user
\* goes from one page to the other, but for the power that a reset of the auto page brings back when
\* its form was the defaults; the result beside it is the form's, although its timer may have been
\* set for an earlier visit to the step, before the form was edited, or be one of several; the
\* alternative it names exists (unless an arrow key was pressed while it was computed).
ShownIsCurrent ==
  /\ page.form.power = IF typed.restored = 0 THEN typed.power ELSE typed.restored
  /\ page.form.skills = typed.skills
  /\ page.form.target \in {typed.target} \union (IF typed.target = Default.target THEN {NoTarget} ELSE {})
  /\ Shown =>
       /\ page.result = Analyzed(page.form)
       /\ page.early \/ page.alternative \in -1 .. page.result.alternatives - 1
=============================================================================
