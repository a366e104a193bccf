----------------------------- MODULE PortalSession -----------------------------
(***************************************************************************)
(* Who is signed in to the portal in one tab, and where the login page     *)
(* sends them (portal/src/context/auth-context.tsx, lib/auth.ts, the       *)
(* login page, auth-guard.tsx, no-access.tsx, lib/login-routing.ts).       *)
(*                                                                         *)
(* A session is an object: signing the same person in twice makes two.     *)
(* Handlers run to their first await, answers come back in any order, and  *)
(* React's effects follow the handler that changed what they depend on.    *)
(***************************************************************************)
EXTENDS Integers, Sequences

CONSTANTS
  People,
  Rank,        \* person -> what whoami and the ID token's groups amount to
  Declared,    \* rank -> the instance's own login destination, or one it ignores
  MaxSessions, MaxLoads   \* bounds: sessions made, loads of a page

Ranks == {"admin", "platformAdmin", "orgScoped", "unitScoped", "marketplace", "noAccess"}
Pools == {"live", "baked"}     \* the user pool the identity document or the build names
NoOne == "no one"
SignedOut == <<NoOne, 0>>

VARIABLES
  tab,     \* the page shown, the provider's state, and the login form when it is mounted
  calls,   \* answers this page's code still waits for
  store,   \* localStorage: pool -> whose tokens are cached
  made,    \* sessions made so far
  loads

sessionPageVars == <<tab, calls, store, made, loads>>

NewForm(n) ==
  [mount |-> n, pending |-> FALSE, reset |-> FALSE, codeSent |-> FALSE, loading |-> FALSE,
   forwarding |-> FALSE, error |-> FALSE, routedFor |-> SignedOut, startedFor |-> SignedOut,
   timer |-> SignedOut, hadSession |-> FALSE, discarded |-> FALSE,
   ended |-> FALSE, handed |-> <<>>]    \* history: a session ended here; sessions routed

-----------------------------------------------------------------------------
(* Where somebody belongs *)

DefaultLoginDestinations == [r \in Ranks |-> IF r = "noAccess" THEN "no access" ELSE "admin"]
NormalizeLoginDestinations ==
  [r \in Ranks |-> IF Declared[r] = "" THEN DefaultLoginDestinations[r] ELSE Declared[r]]

\* /admin/... needs the admin group; any other path is its owner's to guard.
CanEnterReturnTo(who, r) == r # "admin" \/ Rank[who] = "admin"

\* A deployment that does not serve whoami leaves only the token's groups.
KnownRank(who, whoami) ==
  IF whoami = "served" \/ Rank[who] = "admin" THEN Rank[who] ELSE "noAccess"
ResolveDestination(who, whoami, r) ==
  IF r # "" /\ CanEnterReturnTo(who, r) THEN r
  ELSE NormalizeLoginDestinations[KnownRank(who, whoami)]

-----------------------------------------------------------------------------
(* What follows a render *)

\* The login page, or whatever is pushed, replaces the page; answers still come.
Go(w, page, r) == [w EXCEPT !.page = page, !.url = r, !.form = NewForm(w.form.mount + 1)]

\* AuthGuard.
Guarded(w) == IF w.page = "admin" /\ w.boot = NoOne /\ w.session = SignedOut
              THEN Go(w, "login", "admin") ELSE w

\* A return_to is gone with the session it was for.
Discarded(w) ==
  IF w.session # SignedOut THEN [w EXCEPT !.form.hadSession = TRUE]
  ELSE IF w.form.hadSession THEN [w EXCEPT !.form.hadSession = FALSE, !.form.discarded = TRUE]
  ELSE w

\* Mutant: what was routed already is forwarded again.
ForwardAgain(w) == ~w.form.pending /\ ~w.form.reset /\ w.session # SignedOut

MayForward(w) ==
  /\ w.session # SignedOut /\ ~w.form.pending /\ ~w.form.reset
  /\ w.form.routedFor # w.session /\ w.form.startedFor # w.session

\* The forwarding effect, whose cleanup stops a timer that has not fired.
Forwarded(w) ==
  IF <<w.form.mount, w.session, w.form.pending, w.form.reset>>
       = <<tab.form.mount, tab.session, tab.form.pending, tab.form.reset>>
  THEN w
  ELSE IF MayForward(w)
       THEN [w EXCEPT !.form.timer = w.session, !.form.startedFor = w.session, !.form.forwarding = TRUE]
       ELSE [w EXCEPT !.form.timer = SignedOut]

Ended(w) == IF w.form.mount = tab.form.mount /\ tab.session # SignedOut /\ w.session = SignedOut
            THEN [w EXCEPT !.form.ended = TRUE] ELSE w

Render(w) == tab' = LET g == Guarded(w)
                    IN  IF g.page = "login" THEN Forwarded(Discarded(Ended(g))) ELSE g

\* Mutant: the URL's, until router.replace has landed.
UrlReturnTo == tab.url

ReturnTo == IF tab.form.discarded THEN "" ELSE tab.url

-----------------------------------------------------------------------------
(* Loading a page, and the session the tab had *)

\* pruneForeignCognitoCredentials: with a pool known, no other pool's tokens stay.
Pruned(pool) == IF pool \in Pools THEN [p \in Pools |-> IF p = pool THEN store[p] ELSE NoOne]
                ELSE store

Loaded(page, r, pool) ==
  LET who == IF pool \in Pools /\ page # "sibling" THEN store[pool] ELSE NoOne
  IN  /\ store' = Pruned(pool)
      /\ Render([page |-> page, url |-> r, pool |-> pool, boot |-> who, session |-> SignedOut,
                 form |-> NewForm(tab.form.mount + 1)])
      /\ calls' = {}

\* resolveCoreIdentity: the published document, else what was built in, else nothing.
Load ==
  /\ loads < MaxLoads
  /\ \E page \in {"login", "admin"}, r \in {"", "admin", "sibling"}, pool \in Pools \cup {"none"} :
       /\ page = "admin" => r = ""
       /\ Loaded(page, r, pool)
  /\ loads' = loads + 1
  /\ UNCHANGED made

SignedIn(who) == <<who, made + 1>>
Makes(who) == /\ made < MaxSessions /\ made' = made + 1
              /\ store' = [store EXCEPT ![tab.pool] = who]

\* getCurrentSession: cached tokens, refreshed over the network if they are old. Its
\* answer becomes the session, whatever the session has become meanwhile.
BootAnswers ==
  /\ tab.boot # NoOne
  /\ \/ Makes(tab.boot) /\ Render([tab EXCEPT !.boot = NoOne, !.session = SignedIn(tab.boot)])
     \/ /\ Render([tab EXCEPT !.boot = NoOne, !.session = SignedOut])
        /\ store' \in {store, [store EXCEPT ![tab.pool] = NoOne]}
        /\ UNCHANGED made
  /\ UNCHANGED <<calls, loads>>

-----------------------------------------------------------------------------
(* The sign-in, new-password and reset forms *)

Form == tab.form
AtSignIn == tab.page = "login" /\ ~Form.reset /\ ~Form.pending
AtReset == tab.page = "login" /\ Form.reset
\* `late' is history: it was begun after a session had ended on this visit to the page.
CallCore(kind, s, r) ==
  [kind |-> kind, mount |-> Form.mount, session |-> s, returnTo |-> r, late |-> Form.ended]

SubmitLogin(kind) ==
  /\ ~Form.loading
  /\ calls' = calls \cup {CallCore(kind, SignedOut, ReturnTo)}
  /\ Render([tab EXCEPT !.form.loading = TRUE, !.form.error = FALSE])
  /\ UNCHANGED <<store, made, loads>>

SignIn == AtSignIn /\ ~Form.forwarding /\ SubmitLogin("sign in")
SetPassword == /\ tab.page = "login" /\ Form.pending /\ ~Form.reset
               /\ SubmitLogin("set password")
RequestReset == AtReset /\ ~Form.codeSent /\ SubmitLogin("request reset")
ConfirmReset == AtReset /\ Form.codeSent /\ SubmitLogin("confirm reset")

\* What an answer does to the form that asked, if it is still there.
Answered(c, w, f) == IF c.mount = Form.mount THEN [w EXCEPT !.form = f] ELSE w
Drop(c) == calls' = calls \ {c}
Ready(f) == [f EXCEPT !.loading = FALSE]
Failed(f) == [f EXCEPT !.loading = FALSE, !.error = TRUE]

\* login or setSession, and then routeAfterAuth with the return_to of the submit.
SignInAnswers ==
  \E c \in calls : \E who \in People :
    /\ c.kind \in {"sign in", "set password"} /\ tab.pool \in Pools
    /\ Makes(who)
    /\ LET s == SignedIn(who)
       IN  /\ calls' = (calls \ {c}) \cup {[c EXCEPT !.kind = "route", !.session = s]}
           /\ Render([Answered(c, tab, [Form EXCEPT !.routedFor = s, !.handed = Append(@, s)])
                        EXCEPT !.session = s])
    /\ UNCHANGED loads

NewPasswordRequired ==
  \E c \in calls :
    /\ c.kind = "sign in" /\ tab.pool \in Pools
    /\ Drop(c) /\ Render(Answered(c, tab, [Ready(Form) EXCEPT !.pending = TRUE]))
    /\ UNCHANGED <<store, made, loads>>

\* Nothing but a limit says that no code went out.
ResetAnswers ==
  \E c \in calls :
    /\ Drop(c)
    /\ \/ /\ c.kind = "request reset"
          /\ Render(Answered(c, tab, [Ready(Form) EXCEPT !.codeSent = TRUE]))
       \/ /\ c.kind = "confirm reset"
          /\ Render(Answered(c, tab, [Ready(Form) EXCEPT !.codeSent = FALSE, !.reset = FALSE]))
    /\ UNCHANGED <<store, made, loads>>

FormCallFails ==
  \E c \in calls :
    /\ c.kind \notin {"route", "forward"}
    /\ Drop(c) /\ Render(Answered(c, tab, IF c.kind = "request reset" THEN Ready(Form) ELSE Failed(Form)))
    /\ UNCHANGED <<store, made, loads>>

OpenReset == /\ AtSignIn /\ Render([tab EXCEPT !.form.reset = TRUE, !.form.codeSent = FALSE,
                                               !.form.error = FALSE])
             /\ UNCHANGED <<calls, store, made, loads>>
BackToSignIn == /\ AtReset /\ Render([tab EXCEPT !.form.reset = FALSE, !.form.error = FALSE])
                /\ UNCHANGED <<calls, store, made, loads>>

-----------------------------------------------------------------------------
(* Forwarding and routing *)

\* The timer hands its session to the routeAfterAuth of the latest render.
TimerFires ==
  /\ tab.page = "login" /\ Form.timer # SignedOut
  /\ LET s == Form.timer
     IN  /\ calls' = calls \cup {CallCore("forward", s, ReturnTo)}
         /\ Render([tab EXCEPT !.form.timer = SignedOut, !.form.routedFor = s,
                               !.form.handed = Append(@, s)])
  /\ UNCHANGED <<store, made, loads>>

Routes == {c \in calls : c.kind \in {"route", "forward"}}

\* isWithinPortal: a push; anything else is a load of another application's page, or of
\* this one's no-access page.
RouteAnswers ==
  \E c \in Routes : \E whoami \in {"served", "not served"} :
    LET to == ResolveDestination(c.session[1], whoami, c.returnTo)
    IN  /\ \/ to = "admin" /\ Drop(c) /\ UNCHANGED store
              /\ Render(Go(Answered(c, tab, Ready(Form)), "admin", ""))
           \/ to # "admin" /\ Loaded(to, "", tab.pool)
        /\ UNCHANGED <<made, loads>>

RouteFails ==
  \E c \in Routes :
    /\ Drop(c)
    /\ Render(Answered(c, tab, IF c.kind = "route" THEN Failed(Form)
                               ELSE [Form EXCEPT !.error = TRUE, !.forwarding = FALSE]))
    /\ UNCHANGED <<store, made, loads>>

\* router.replace('/login/') lands.
UrlReplaced ==
  /\ tab.page = "login" /\ Form.discarded /\ tab.url # ""
  /\ Render([tab EXCEPT !.url = ""])
  /\ UNCHANGED <<calls, store, made, loads>>

-----------------------------------------------------------------------------
(* Signing out *)

LoggedOut(w) == [w EXCEPT !.session = SignedOut]
Forget == store' = [store EXCEPT ![tab.pool] = NoOne] /\ UNCHANGED <<calls, made, loads>>

NotYou ==
  /\ AtSignIn /\ tab.session # SignedOut
  /\ Render(LoggedOut([tab EXCEPT !.form.timer = SignedOut, !.form.forwarding = FALSE]))
  /\ Forget

\* Nav's button; the guard then pushes.
SignOut == /\ tab.page = "admin" /\ tab.session # SignedOut
           /\ Render(LoggedOut(tab)) /\ Forget

\* NoAccess: its own push races the guard's where there is a guard.
SignOutForAnother ==
  /\ tab.session # SignedOut
  /\ \/ tab.page = "admin" /\ Rank[tab.session[1]] # "admin"
     \/ tab.page = "no access"
  /\ \E r \in {"", "admin"} : /\ tab.page = "no access" => r = ""
                              /\ Render(LoggedOut(Go(tab, "login", r)))
  /\ Forget

GoHome ==
  /\ tab.page = "admin" /\ tab.session # SignedOut /\ Rank[tab.session[1]] # "admin"
  /\ Render(Go(tab, "login", ""))
  /\ UNCHANGED <<calls, store, made, loads>>

-----------------------------------------------------------------------------
SessionPageInit ==
  /\ tab = [page |-> "sibling", url |-> "", pool |-> "none", boot |-> NoOne, session |-> SignedOut,
            form |-> NewForm(0)]
  /\ calls = {} /\ made = 0 /\ loads = 0
  /\ store \in [Pools -> {NoOne} \cup People]

SessionPageNext ==
  \/ Load \/ BootAnswers
  \/ SignIn \/ SetPassword \/ RequestReset \/ ConfirmReset
  \/ SignInAnswers \/ NewPasswordRequired \/ ResetAnswers \/ FormCallFails
  \/ OpenReset \/ BackToSignIn
  \/ TimerFires \/ RouteAnswers \/ RouteFails \/ UrlReplaced
  \/ NotYou \/ SignOut \/ SignOutForAnother \/ GoHome

SessionPageSpec == SessionPageInit /\ [][SessionPageNext]_sessionPageVars

-----------------------------------------------------------------------------
(* What signing in may never do *)

\* However answers, timers and sign-outs interleave, one visit to the login page routes
\* a session object once: a failed whoami is never asked again and again for it.
OneRoutePerSession ==
  \A i, j \in 1..Len(tab.form.handed) : tab.form.handed[i] = tab.form.handed[j] => i = j

\* Once a session has ended on a visit to the login page, nobody who signs in or is
\* forwarded there is routed to the return_to that the earlier person was interrupted at,
\* however late router.replace takes it out of the address and the answers come in. A
\* sign-in that was under way when the session ended is not covered: its handler goes on
\* with the routeAfterAuth of the render it was submitted from, return_to included.
ReturnToServesOneIdentity == \A c \in calls : c.late => c.returnTo = ""
================================================================================
