--------------------------- MODULE BrowserSession ---------------------------
(***************************************************************************)
(* The browser session of the worker (packages/browser-worker/src/         *)
(* session-state.ts) as operators on a record, and what both sides make of *)
(* its state before a turn: preflightFailure in the worker and             *)
(* WebProvider::preflight (crates/provider-web/src/lib.rs) in the daemon.  *)
(* A URL is what isAuthenticationUrl tells apart; a failure is its code; a *)
(* value that may be undefined is a set of at most one.                    *)
(***************************************************************************)
EXTENDS Naturals

BrowserSessionState == {"logged_out", "authenticating", "healthy",
                        "challenged", "needs_reauth"}

NewSession == [state |-> "logged_out", revision |-> 0]

\* Mutant of transition: a change of state that nobody counts.
transition_Uncounted(session, next) == [session EXCEPT !.state = next]

transition(session, next) ==
    IF session.state = next THEN session
    ELSE [state |-> next, revision |-> session.revision + 1]

beginAuthentication(session) == transition(session, "authenticating")
markHealthy(session)         == transition(session, "healthy")
markLoggedOut(session)       == transition(session, "logged_out")
markChallenge(session)       == transition(session, "challenged")
markNeedsReauth(session)     == transition(session, "needs_reauth")

\* URLs by what decides: whether they parse, the scheme, the host and, on
\* chatgpt.com, the path.
Urls == [scheme : {"https", "http"},
         host   : {"chatgpt", "identity_provider", "elsewhere"},
         path   : {"auth", "login", "other"}]
        \cup {[scheme |-> "invalid"]}

isAuthenticationUrl(url) ==
    /\ url.scheme = "https"
    /\ \/ url.host = "chatgpt" /\ url.path \in {"auth", "login"}
       \/ url.host = "identity_provider"

\* The session after a navigation, and the failure the observer is told.
observeNavigation(session, url) ==
    IF isAuthenticationUrl(url) THEN markNeedsReauth(session) ELSE session

navigationFailure(url) ==
    IF isAuthenticationUrl(url) THEN {"web_auth_required"} ELSE {}

canStartTurn(session) == session.state = "healthy"

\* Mutant of preflightFailure: signing in counts as signed in.
preflightFailure_TrustsSignIn(session) ==
    IF session.state \in {"healthy", "authenticating"} THEN {}
    ELSE IF session.state = "challenged" THEN {"web_security_challenge"}
    ELSE {"web_auth_required"}

preflightFailure(session) ==
    IF session.state = "healthy" THEN {}
    ELSE IF session.state = "challenged" THEN {"web_security_challenge"}
    ELSE {"web_auth_required"}

\* WebProvider::preflight; never retryable.
preflight(state) ==
    IF state = "healthy" THEN {}
    ELSE IF state = "challenged" THEN {"security_challenge"}
    ELSE {"auth_required"}
=============================================================================
