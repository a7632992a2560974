----------------------------- MODULE DataService -----------------------------
(***************************************************************************)
(* The web client: the cached data of lib/data-service.ts, and the pages   *)
(* that load it (src/pages/Problems.tsx, ProblemDetail.tsx, App.tsx).      *)
(*                                                                         *)
(* JavaScript runs one callback at a time.  A load waits where it awaits a *)
(* fetch; one that finds its data cached goes through in one go.  A load   *)
(* outlives the page that began it, and what it sets is then lost.  The    *)
(* page of a problem stays mounted when the address becomes another        *)
(* problem's.                                                              *)
(***************************************************************************)
EXTENDS Naturals, Sequences

CONSTANTS
    Problems,  \* the problems of problems.json
    Strays,    \* addresses of problems it does not have
    Retries,   \* attempts after the first, of each fetch
    Visits,    \* bound: pages visited, and loads retried
    Presses    \* bound: runs and submissions

Addresses == Problems \cup Strays
None == "none"

VARIABLES
    page,          \* the address: "problems", one of Addresses or "not-found"
    mount,         \* which mounted component the page is
    view,          \* its state
    problemsCache, \* data-service.ts has the problems
    starterCode,   \* and the starter code
    loads,         \* the loads begun so far
    requests       \* the requests made so far, with the page they came from

vars == <<page, mount, view, problemsCache, starterCode, loads, requests>>

\* What a component shows: the problem, its code, the number of the answer in
\* its console; and, for the properties, what its newest load and the older
\* ones that had not got their problem when it began asked for.
Fresh == [shown |-> None, code |-> "empty", loading |-> FALSE, failed |-> FALSE,
          busy |-> FALSE, console |-> 0, asked |-> {}]

Ended == {"done", "failed"}
Load(p, m) == [page |-> p, mount |-> m, at |-> "problems", tries |-> 0]

Init ==
    /\ page = "home" /\ mount = 0 /\ view = Fresh
    /\ problemsCache = FALSE /\ starterCode = FALSE
    /\ loads = <<>> /\ requests = <<>>

-------------------------------------------------------------------------------
(* Loads *)

At(l, step) == [loads EXCEPT ![l].at = step, ![l].tries = 0]

\* The last thing a load does to its page.
End(v) == [v EXCEPT !.loading = FALSE, !.code = "starter"]

\* A load sets the page there is, whichever began it.
SeenAnywhere(all, l, m, v, w) == w

\* React drops what is set in a component that is no longer mounted.
Seen(all, l, m, v, w) == IF all[l].mount = m THEN w ELSE v

\* Load l of `all' has the problems: the page (p, of mount m and state v)
\* shows its own.  A problem that there is not leads anybody to not-found.
HasProblems(all, l, p, m, v) ==
    LET target == all[l].page
        shown == [v EXCEPT !.shown = target]
        done == [all EXCEPT ![l].at = "done"]
    IN
      CASE target \in Strays ->
             /\ page' = "not-found" /\ mount' = m + 1 /\ view' = Fresh
             /\ loads' = done
        [] target = "problems" \/ (target \in Problems /\ starterCode) ->
             /\ page' = p /\ mount' = m
             /\ view' = Seen(all, l, m, v, End(shown))
             /\ loads' = done
        [] OTHER ->
             /\ page' = p /\ mount' = m
             /\ view' = Seen(all, l, m, v, shown)
             /\ loads' = [all EXCEPT ![l].at = "starterCode", ![l].tries = 0]

\* What the loads of mount m that have not got their problem asked for.
Waiting(m) ==
    {loads[l].page :
        l \in {k \in DOMAIN loads : loads[k].mount = m /\ loads[k].at = "problems"}}

\* loadProblems or loadData begins.
Begin(p, m, v) ==
    LET all == Append(loads, Load(p, m))
        loading == [v EXCEPT !.loading = TRUE, !.failed = FALSE,
                             !.asked = Waiting(m) \cup {p}]
    IN /\ Len(loads) < Visits
       /\ IF problemsCache
          THEN HasProblems(all, Len(all), p, m, loading)
          ELSE page' = p /\ mount' = m /\ view' = loading /\ loads' = all

\* getProblems: problems.json is fetched and valid.
GotProblems(l) ==
    /\ loads[l].at = "problems"
    /\ problemsCache' = TRUE
    /\ HasProblems(loads, l, page, mount, view)
    /\ UNCHANGED <<starterCode, requests>>

\* getStarterCodeTemplates likewise.
GotStarterCode(l) ==
    /\ loads[l].at = "starterCode"
    /\ starterCode' = TRUE
    /\ view' = Seen(loads, l, mount, view, End(view))
    /\ loads' = At(l, "done")
    /\ UNCHANGED <<page, mount, problemsCache, requests>>

\* A fetch fails, or what it brings is not valid: after a delay it is tried
\* again, without another look at the cache; in the end the load fails.
FetchFails(l) ==
    /\ loads[l].at \in {"problems", "starterCode"}
    /\ IF loads[l].tries < Retries
       THEN loads' = [loads EXCEPT ![l].tries = @ + 1] /\ UNCHANGED view
       ELSE /\ loads' = At(l, "failed")
            /\ view' = Seen(loads, l, mount, view,
                   [view EXCEPT !.loading = FALSE, !.failed = TRUE, !.console = 0])
    /\ UNCHANGED <<page, mount, problemsCache, starterCode, requests>>

-------------------------------------------------------------------------------
(* The user *)

\* A link, or the browser's history.
Visit(p) ==
    /\ p # page
    /\ IF p \in Addresses /\ page \in Addresses
       THEN Begin(p, mount, view)
       ELSE Begin(p, mount + 1, Fresh)
    /\ UNCHANGED <<problemsCache, starterCode, requests>>

Retry ==
    /\ ~view.loading /\ view.failed
    /\ Begin(page, mount, view)
    /\ UNCHANGED <<problemsCache, starterCode, requests>>

\* The editor is there.
Editing ==
    /\ page \in Addresses
    /\ ~view.loading /\ ~view.failed /\ view.shown # None

\* The user types, or handleLanguageChange puts the starter code there.
Edit(code) ==
    /\ Editing
    /\ code # view.code
    /\ view' = [view EXCEPT !.code = code]
    /\ UNCHANGED <<page, mount, problemsCache, starterCode, loads, requests>>

\* handleRun and handleSubmit: the buttons are disabled until the answer.
\* Empty code is only complained about.
Press ==
    /\ Editing /\ ~view.busy
    /\ IF view.code = "empty"
       THEN view' = [view EXCEPT !.console = 0] /\ UNCHANGED requests
       ELSE /\ Len(requests) < Presses
            /\ view' = [view EXCEPT !.busy = TRUE, !.console = 0]
            /\ requests' = Append(requests, [mount |-> mount, answered |-> FALSE])
    /\ UNCHANGED <<page, mount, problemsCache, starterCode, loads>>

\* The answer, or an error: either is shown.
Answer(r) ==
    /\ ~requests[r].answered
    /\ requests' = [requests EXCEPT ![r].answered = TRUE]
    /\ view' = IF requests[r].mount = mount
               THEN [view EXCEPT !.busy = FALSE, !.console = r] ELSE view
    /\ UNCHANGED <<page, mount, problemsCache, starterCode, loads>>

Loading(l) == GotProblems(l) \/ GotStarterCode(l) \/ FetchFails(l)

Next ==
    \/ \E p \in Addresses \cup {"problems"} : Visit(p)
    \/ Retry \/ Press
    \/ \E code \in {"empty", "typed", "starter"} : Edit(code)
    \/ \E l \in DOMAIN loads : Loading(l)
    \/ \E r \in DOMAIN requests : Answer(r)

\* A fetch comes to an end.
Fairness ==
    /\ \A l \in 1 .. Visits : WF_vars(l \in DOMAIN loads /\ Loading(l))
    /\ \A r \in 1 .. Presses : WF_vars(r \in DOMAIN requests /\ Answer(r))

Spec == Init /\ [][Next]_vars /\ Fairness

-------------------------------------------------------------------------------
(* Properties *)

\* A page whose loads are over, none of them badly, shows what its newest load
\* asked for, or an older load of its own that was still waiting when that one
\* began (ProblemDetail.tsx:98-106 sets whatever comes, whichever comes last);
\* never what a page left behind asked for, nor what it showed before.
ShownIsAsked ==
    LET over == \A l \in DOMAIN loads : loads[l].mount = mount => loads[l].at \in Ended
    IN page \in Problems \cup {"problems"} /\ over /\ ~view.failed
         => view.shown \in view.asked /\ page \in view.asked /\ ~view.loading

\* The console shows the answer to the last request of its page, and while an
\* answer is awaited, exactly one is.
AnswerOfLastPress ==
    LET mine == {r \in DOMAIN requests : requests[r].mount = mount}
        awaited == {r \in mine : ~requests[r].answered}
    IN /\ view.console # 0 => \A r \in mine : r <= view.console
       /\ \A r, s \in awaited : r = s
       /\ view.busy <=> awaited # {}

\* What a page shows is its own: of its problems, one that its loads asked for
\* last; of the answers, the one to its last request.
PageIsOwn == ShownIsAsked /\ AnswerOfLastPress
===============================================================================
