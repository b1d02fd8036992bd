------------------------------ MODULE Browser -------------------------------
(***************************************************************************)
(* The long-lived browser of a session: one cached page behind an async     *)
(* mutex, probed before every action, launched again when it is found dead  *)
(* (holmes-browser: manager.rs; holmes-tools: builtin/browser.rs).          *)
(*                                                                         *)
(* The browser tool is not read-only, so its actions run one at a time, each*)
(* under the registry's deadline, which drops it and with it its guards.    *)
(***************************************************************************)
EXTENDS Naturals

CONSTANTS
    Attaches,       \* cdp_endpoint is configured: the user's Chrome is attached to
    MaxCrashes      \* bound: times the connection to the browser dies

VARIABLES
    page,       \* ManagerState.page: none, live, or a handle whose handler died
    chrome,     \* ManagerState.browser: none, or whether it is ours to close
    locked,     \* the mutex over the state
    act,        \* the step of the action under way
    crashes

browserVars == <<page, chrome, locked, act, crashes>>

BrowserInit ==
    page = "none" /\ chrome = "none" /\ locked = FALSE /\ act = "idle" /\ crashes = 0

\* ensure_launched reads the cached page.  The guard of `if let Some(page) =
\* self.state.lock().await.page.clone()` lives to the end of that statement.
Begin ==
    /\ act = "idle" /\ ~locked
    /\ locked' = TRUE
    /\ act' = IF page = "none" THEN "launching" ELSE "probing"
    /\ UNCHANGED <<page, chrome, crashes>>

\* The probe answers: the page is used without the lock.
ProbeAnswers ==
    /\ act = "probing" /\ page = "live"
    /\ act' = "acting" /\ locked' = FALSE
    /\ UNCHANGED <<page, chrome, crashes>>

\* The probe fails or is not answered in time, of a live page that is busy too.
ProbeFails ==
    /\ act = "probing"
    /\ act' = "discarding"
    /\ UNCHANGED <<page, chrome, locked, crashes>>

\* `let mut state = self.state.lock().await`, in the same statement.
Discard ==
    /\ act = "discarding" /\ ~locked
    /\ page' = "none" /\ chrome' = "none" /\ act' = "launching" /\ locked' = TRUE
    /\ UNCHANGED crashes

\* Attach or launch, then open a page; the state is set last.
Launch ==
    /\ act = "launching"
    /\ page' = "live" /\ chrome' = IF Attaches THEN "users" ELSE "ours"
    /\ act' = "acting" /\ locked' = FALSE
    /\ UNCHANGED crashes

\* The connection, the sandbox check, the launch or the first page fails.
LaunchFails ==
    /\ act = "launching"
    /\ act' = "idle" /\ locked' = FALSE
    /\ UNCHANGED <<page, chrome, crashes>>

\* navigate, click, fill, get_content, execute_js, screenshot: done or failed.
ActionEnds ==
    /\ act = "acting"
    /\ act' = "idle"
    /\ UNCHANGED <<page, chrome, locked, crashes>>

\* The tool's deadline, or the turn is cancelled: the future is dropped.
Dropped ==
    /\ act # "idle"
    /\ act' = "idle" /\ locked' = FALSE
    /\ UNCHANGED <<page, chrome, crashes>>

\* The background handler ends: the browser crashed or its socket dropped.
HandlerDies ==
    /\ page = "live" /\ crashes < MaxCrashes
    /\ page' = "dead" /\ crashes' = crashes + 1
    /\ UNCHANGED <<chrome, locked, act>>

\* close, when the session ends: a browser of ours is shut down.
CloseBrowser ==
    /\ act = "idle" /\ ~locked /\ page # "none"
    /\ page' = "none" /\ chrome' = "none"
    /\ UNCHANGED <<locked, act, crashes>>

BrowserNext ==
    \/ Begin \/ ProbeAnswers \/ ProbeFails \/ Discard \/ Launch \/ LaunchFails
    \/ ActionEnds \/ Dropped \/ HandlerDies \/ CloseBrowser

\* The agent goes on using the browser, its actions end, the deadline fires for
\* those that do not; a probe that answers is heard, and launching works.
BrowserSpec ==
    /\ BrowserInit /\ [][BrowserNext]_browserVars
    /\ WF_browserVars(Begin) /\ SF_browserVars(ProbeAnswers \/ ProbeFails)
    /\ SF_browserVars(Discard) /\ SF_browserVars(Launch)
    /\ WF_browserVars(ActionEnds) /\ WF_browserVars(Dropped)

-----------------------------------------------------------------------------
\* "this probe lets us detect that and recover instead of failing forever with
\* "receiver gone"" (LIVENESS_PROBE): a page whose handler died is replaced, as
\* long as the agent goes on trying.
DeadPageIsReplaced == (page = "dead") ~> (page # "dead")
=============================================================================
