--------------------------- MODULE RouteSkeleton ----------------------------
(***************************************************************************)
(* What a tab shows while it goes from page to page: the skeleton of a     *)
(* page, or its content.                                                   *)
(*                                                                         *)
(* The skeleton stands while a navigation is under way and while a private *)
(* page has no account or has not read its data; once it stands it stays   *)
(* for a minimum time, so that it does not flicker. A watchdog gives up a  *)
(* navigation after ten seconds. The account is restored by a call, pages  *)
(* read their data by calls that a later page overtakes, any of them can   *)
(* find that the login is no longer valid, and the user goes on meanwhile. *)
(*                                                                         *)
(* A page comes either into the component that is there ("kept"), whose    *)
(* effects are written for that, or into a new one. A step is an event     *)
(* with the renderings and effects it leads to.                            *)
(***************************************************************************)
EXTENDS Naturals

CONSTANT MaxMoves    \* bound: what the user does, calls and reads that lead elsewhere

ASSUME MovesAssumption == MaxMoves \in Nat

VARIABLES
    ui,              \* the component, its timers and the navigation under way
    moves            \* bounded by MaxMoves

skeletonVars == <<ui, moves>>

\* "rooms" has a skeleton of its own, the others the plain loader; "admin" is
\* refused to this account
Page == {"home", "login", "forbidden", "rooms", "profile", "admin"}
Public == {"home", "login", "forbidden"}

\* "reason": /login?reason=session-invalid
Nowhere == [to |-> "NOWHERE", reason |-> FALSE]
To(page) == [to |-> page, reason |-> FALSE]
Relogin == [to |-> "login", reason |-> TRUE]

\* "home": mounted by the home page, and the account not yet restored;
\* "pending", "watchdog": routePending and its timer; "checked": authChecked;
\* "ready": pageReady; "load": the read of this page; "late": reads overtaken
\* by another page, of this component or of one that is gone; "since": how
\* long the gate has been closed, against its minimum; "timer": the release
\* is scheduled
Fresh(page, reduced) ==
    [page |-> page, home |-> page = "home", asked |-> Nowhere, pending |-> FALSE,
     watchdog |-> FALSE, checked |-> FALSE, account |-> FALSE, invalidating |-> FALSE,
     ready |-> FALSE, load |-> "NONE", late |-> {}, since |-> "NONE", timer |-> FALSE,
     holding |-> FALSE, reduced |-> reduced]

-----------------------------------------------------------------------------
(* Rendering.                                                              *)

\* routeLoading
Loading(c) == c.pending \/ (c.page \notin Public /\ ~ (c.checked /\ c.account /\ c.ready))

ShowsSkeleton(c) == Loading(c) \/ c.holding

\* routeLoadingMinimumMs
Minimum(c) == c.page = "rooms"

\* cancelMinimumDelay
Cancelled(c) == [c EXCEPT !.since = "NONE", !.timer = FALSE, !.holding = FALSE]

Released(c) == IF Loading(c) THEN [c EXCEPT !.since = "NONE", !.timer = FALSE] ELSE Cancelled(c)

ReleaseUntimed(c) == IF c.since = "NONE" THEN c ELSE Released(c)

\* requestRelease
ReleaseRequested(c) ==
    CASE c.since = "NONE" -> c
      [] c.since = "ELAPSED" -> Released(c)
      [] c.since = "RUNNING" -> [c EXCEPT !.timer = TRUE]

\* the layout effect of the presentation
Presented(c) ==
    IF c.reduced THEN Cancelled(c)
    ELSE IF Loading(c) THEN [c EXCEPT !.since = "RUNNING", !.timer = FALSE, !.holding = TRUE]
    ELSE ReleaseRequested(c)

Rendered(old, c) ==
    IF <<Loading(c), Minimum(c), c.reduced>> = <<Loading(old), Minimum(old), old.reduced>>
    THEN c ELSE Presented(c)

-----------------------------------------------------------------------------
(* Navigation and the effects of a page.                                   *)

\* go, which leaves a tab alone that is there already
Going(c, target) ==
    IF target = To(c.page) THEN c
    ELSE [c EXCEPT !.asked = target, !.pending = TRUE, !.watchdog = TRUE]

\* the cleanup of the page's effect: its read goes on and is not heard
Overtaken(c) ==
    IF c.load = "RUNNING" THEN [c EXCEPT !.load = "NONE", !.late = @ \cup {"HERE"}]
    ELSE [c EXCEPT !.load = "NONE"]

PageRead(c) == [Overtaken(c) EXCEPT !.ready = FALSE, !.load = "RUNNING"]

\* the effect of [account, authChecked, page]
PageEffect(c) ==
    IF ~ c.checked THEN Overtaken(c)
    ELSE IF c.page \in Public THEN [Overtaken(c) EXCEPT !.ready = TRUE]
    ELSE IF ~ c.account
         THEN IF c.invalidating THEN Overtaken(c) ELSE Going(Overtaken(c), To("login"))
    ELSE IF c.page = "admin"
         THEN Going([Overtaken(c) EXCEPT !.ready = FALSE], To("forbidden"))
    ELSE PageRead(c)

\* the component after an event, rendered, with its effects, rendered again
Run(old, c) ==
    LET shown == Rendered(old, c)
        same == <<c.account, c.checked, c.page>> = <<old.account, old.checked, old.page>>
    IN IF same THEN shown ELSE Rendered(shown, PageEffect(shown))

\* invalidateLogin
LoginInvalid(c) == Going([c EXCEPT !.invalidating = TRUE, !.account = FALSE], Relogin)

-----------------------------------------------------------------------------

SkeletonInit ==
    /\ \E page \in Page, reduced \in BOOLEAN : ui = Presented(Fresh(page, reduced))
    /\ moves = 0

\* the answer to /auth/me; a component mounted by the home page goes on, even
\* when it has come to another page since
RestoreAccount ==
    /\ ~ ui.checked
    /\ \E found \in BOOLEAN :
         LET restored == [ui EXCEPT !.account = found, !.checked = TRUE, !.home = FALSE]
         IN ui' = Run(ui, IF found /\ ui.home THEN Going(restored, To("rooms"))
                          ELSE restored)
    /\ UNCHANGED moves

Move == moves < MaxMoves /\ moves' = moves + 1

\* settlePageLoad: the read is done, or finds the login invalid; then the page
\* is ready, in any case
SettleLoad ==
    /\ ui.load = "RUNNING"
    /\ LET settled == [ui EXCEPT !.load = "DONE", !.ready = TRUE]
       IN \E after \in {settled, LoginInvalid(settled)} : ui' = Run(ui, after)
    /\ UNCHANGED moves

\* the read shows that this is not the page for it
RedirectLoad(page) ==
    /\ Move
    /\ ui.load = "RUNNING"
    /\ LET settled == [ui EXCEPT !.load = "DONE", !.ready = TRUE]
       IN ui' = Run(ui, Going(settled, To(page)))

\* an overtaken read has no say in the page, but a login it finds invalid is
\* given up, even by a component that is gone
SettleLate(whose) ==
    /\ whose \in ui.late
    /\ LET heard == [ui EXCEPT !.late = @ \ {whose}]
       IN \E invalid \in BOOLEAN :
            ui' = IF ~ invalid THEN Run(ui, heard)
                  ELSE IF whose = "HERE" THEN Run(ui, LoginInvalid(heard))
                  ELSE [heard EXCEPT !.asked = Relogin]
    /\ UNCHANGED moves

\* the page comes into the component: the watchdog is cleared, and the login
\* page takes note of the reason
ArriveKept ==
    /\ ui.asked # Nowhere
    /\ LET target == ui.asked
           here == [ui EXCEPT !.asked = Nowhere]
           shown == Rendered(ui, [here EXCEPT !.page = target.to])
           told == [shown EXCEPT !.pending = FALSE, !.watchdog = FALSE,
                                 !.invalidating = @ /\ ~ target.reason]
       IN ui' = IF target.to = ui.page THEN here ELSE Rendered(shown, PageEffect(told))
    /\ UNCHANGED moves

\* the page comes with a component of its own
ArriveNew ==
    /\ ui.asked.to \notin {"NOWHERE", ui.page}
    /\ ui' = Presented([Fresh(ui.asked.to, ui.reduced) EXCEPT
                          !.late = IF Overtaken(ui).late = {} THEN {} ELSE {"GONE"}])
    /\ UNCHANGED moves

\* the page never comes
FailNavigation ==
    /\ ui.asked # Nowhere
    /\ ui' = [ui EXCEPT !.asked = Nowhere]
    /\ UNCHANGED moves

WatchdogCancels(c) == [Cancelled(c) EXCEPT !.watchdog = FALSE]

WatchdogFired(c) == [Cancelled(c) EXCEPT !.pending = FALSE, !.watchdog = FALSE]

FireWatchdog ==
    /\ ui.watchdog
    /\ ui' = Run(ui, WatchdogFired(ui))
    /\ UNCHANGED moves

PassMinimum ==
    /\ ui.since = "RUNNING"
    /\ ui' = [ui EXCEPT !.since = "ELAPSED"]
    /\ UNCHANGED moves

\* finish, and onRelease
FireRelease ==
    /\ ui.timer
    /\ ui.since = "ELAPSED"
    /\ ui' = Released(ui)
    /\ UNCHANGED moves

\* a link of the page
Follow(page) ==
    /\ Move
    /\ ~ ShowsSkeleton(ui)
    /\ ui' = Run(ui, Going(ui, To(page)))

\* back and forward, in the browser
Browse(page) ==
    /\ Move
    /\ ui' = [ui EXCEPT !.asked = To(page)]

\* login
LogIn ==
    /\ Move
    /\ ui.page = "login" /\ ~ ShowsSkeleton(ui)
    /\ ui' = Run(ui, Going([ui EXCEPT !.account = TRUE], To("rooms")))

\* logout
LogOut ==
    /\ Move
    /\ ui.page \notin Public /\ ~ ShowsSkeleton(ui)
    /\ ui' = Run(ui, Going([ui EXCEPT !.account = FALSE], To("home")))

\* some other call of the page finds the login invalid
LoseLogin ==
    /\ Move
    /\ ui.page \notin Public
    /\ ui.account
    /\ ui' = Run(ui, LoginInvalid(ui))

ToggleReducedMotion ==
    /\ Move
    /\ ui' = Run(ui, [ui EXCEPT !.reduced = ~ @])

Arrive == ArriveKept \/ ArriveNew \/ FailNavigation

SkeletonNext ==
    \/ RestoreAccount \/ SettleLoad \/ Arrive
    \/ \E whose \in {"HERE", "GONE"} : SettleLate(whose)
    \/ FireWatchdog \/ PassMinimum \/ FireRelease
    \/ \E page \in Page : Follow(page) \/ Browse(page) \/ RedirectLoad(page)
    \/ LogIn \/ LogOut \/ LoseLogin \/ ToggleReducedMotion

SkeletonSpec == SkeletonInit /\ [][SkeletonNext]_skeletonVars

\* calls are answered or fail, the router comes to an end with a navigation,
\* and timers fire
SkeletonFairness ==
    /\ WF_skeletonVars(RestoreAccount)
    /\ WF_skeletonVars(SettleLoad)
    /\ WF_skeletonVars(Arrive)
    /\ WF_skeletonVars(FireWatchdog)
    /\ WF_skeletonVars(PassMinimum)
    /\ WF_skeletonVars(FireRelease)

-----------------------------------------------------------------------------
(* The properties.                                                         *)

\* A private page is shown only with an account and its own data, never with
\* the word of a read that another page has overtaken; and a skeleton gives
\* way before its minimum time only to the watchdog, to a user who wants no
\* motion, and to a public page in a new component.
SkeletonStandsItsTime ==
    [][ /\ ~ ShowsSkeleton(ui') /\ ui'.page \notin Public =>
             ui'.account /\ ui'.load = "DONE"
        /\ ShowsSkeleton(ui) /\ ~ ShowsSkeleton(ui') /\ ui.since = "RUNNING" =>
             \/ ui.watchdog /\ ui'.page = ui.page
             \/ ui'.reduced
             \/ ui'.page \in Public /\ ~ ui'.checked ]_ui

\* The page that was to be left has nothing to show: it is private without an
\* account, or refused. No navigation away from it is under way: it has failed,
\* or the user has gone elsewhere while the login was found invalid, and the
\* flag that keeps a page from asking for the login a second time is still set.
Stranded ==
    /\ ui.page \notin Public
    /\ ~ ui.account \/ ui.page = "admin"
    /\ ui.asked = Nowhere

\* A skeleton gives way to content in the end, except on a stranded page: the
\* watchdog gives up a navigation, and not the state that asked for it.
SkeletonEnds == ShowsSkeleton(ui) ~> (~ ShowsSkeleton(ui) \/ Stranded)
=============================================================================
