------------------------------- MODULE SignIn -------------------------------
(***************************************************************************)
(* Who is signed in, as one browser sees it: the auth provider, the two    *)
(* guards that send the operator between the console and the public pages, *)
(* the public pages themselves (web/features/auth, web/components/         *)
(* providers/auth-provider.tsx) and the menu of the top bar, against the   *)
(* session of the server (internal/handler/user.go).                       *)
(*                                                                         *)
(* A route is a page and the redirect parameter of its address.  Answers   *)
(* of requests arrive after the operator has gone elsewhere, and navigate  *)
(* all the same.                                                           *)
(***************************************************************************)
EXTENDS Integers

CONSTANTS
  Places,       \* pages of the console
  Home,         \* the one at "/"
  NeedsEmail, NeedsTurnstile,  \* what the public status says of registration
  MaxVisits,    \* bound: addresses opened, links followed and refreshes, together
  MaxExchanges  \* bound: exchanges of one GitHub code

Guarded == {"login", "register", "reset"}
PublicPages == Guarded \union {"confirm", "oauth"}
Forms == {"login", "register", "mail", "link", "confirm", "logout"}
None == ""
Unset == "unset"  \* no place is owed to the operator

\* What the constants are: assumed where they get their values.
SignInAssumption ==
  /\ Home \in Places /\ Places \intersect (PublicPages \union {None, Unset}) = {}
  /\ NeedsEmail \in BOOLEAN /\ NeedsTurnstile \in BOOLEAN
  /\ MaxVisits \in Nat /\ MaxExchanges \in Nat

VARIABLES
  session,   \* the cookie is that of a signed-in session
  provider,  \* user # null and isLoading
  self,      \* GET /user/self under way: refreshUser
  route,     \* page and redirect
  informed,  \* the public status has been answered
  token,     \* turnstileToken is not empty
  sent,      \* the requests of the forms: phase, and the redirect of the login form
  code,      \* the GitHub code: exchanges under way and answered, and whether it is used
  mailed,    \* codes the server has mailed: for registration, and for a new password
  wanted,    \* history: where a guard turned the operator away, until they go elsewhere by an
             \* address, a link or a form of another page; unset if the login form of an
             \* earlier visit has its request under way
  byGitHub,  \* history: GitHub's sign-in has taken the operator to the console since
  visits     \* counter of the bound

signInVars ==
  <<session, provider, self, route, informed, token, sent, code, mailed, wanted, byGitHub, visits>>

Quiet == [f \in Forms |-> [phase |-> "idle", to |-> None]]
NoCode == [given |-> FALSE, used |-> FALSE, asked |-> 0, flying |-> 0, granted |-> 0, denied |-> 0]
At(page, redirect) == [page |-> page, redirect |-> redirect]

\* A page load starts the application anew: it asks who is signed in.
Load(page, exchange) ==
  /\ route' = At(page, None) /\ provider' = [user |-> FALSE, loading |-> TRUE]
  /\ self' = "sent" /\ informed' = FALSE /\ token' = FALSE /\ sent' = Quiet
  /\ code' = [NoCode EXCEPT !.given = exchange] /\ byGitHub' = FALSE

SignInInit ==
  /\ session \in BOOLEAN /\ provider = [user |-> FALSE, loading |-> TRUE] /\ self = "sent"
  /\ route \in [page : Places \union PublicPages, redirect : {None}]
  /\ informed = FALSE /\ token = FALSE /\ sent = Quiet /\ code = NoCode
  /\ mailed = [register |-> FALSE, reset |-> FALSE]
  /\ wanted = Unset /\ byGitHub = FALSE /\ visits = 0

Visit == visits < MaxVisits /\ visits' = visits + 1
pageNow == route.page
client == <<provider, self, route, informed, token, sent, code>>

Open ==
  /\ Visit /\ \E p \in Places \union PublicPages : Load(p, FALSE)
  /\ wanted' = Unset
  /\ UNCHANGED <<session, mailed>>

-----------------------------------------------------------------------------
\* The provider.  Any failure counts as nobody.
refreshUser ==
  /\ Visit /\ pageNow \in Places /\ provider.user /\ self = "idle" /\ self' = "sent"
  /\ UNCHANGED <<session, provider, route, informed, token, sent, code, mailed, wanted, byGitHub>>

SelfRead ==
  /\ self = "sent" /\ self' \in {IF session THEN "known" ELSE "nobody", "nobody"}
  /\ UNCHANGED <<session, provider, route, informed, token, sent, code, mailed,
                 wanted, byGitHub, visits>>

SelfAnswer ==
  /\ self \in {"known", "nobody"} /\ self' = "idle"
  /\ provider' = [user |-> self = "known", loading |-> FALSE]
  /\ UNCHANGED <<session, route, informed, token, sent, code, mailed, wanted, byGitHub, visits>>

setUser(known) == provider' = [user |-> known, loading |-> FALSE]

-----------------------------------------------------------------------------
\* The guards.
DashboardAuthGuard ==
  /\ pageNow \in Places /\ ~provider.loading /\ ~provider.user
  /\ route' = At("login", IF pageNow = Home THEN None ELSE pageNow)
  /\ wanted' = IF sent["login"].phase = "idle" THEN pageNow ELSE Unset
  /\ byGitHub' = FALSE
  /\ UNCHANGED <<session, provider, self, informed, token, sent, code, mailed, visits>>

Target(redirect) == IF redirect = None THEN Home ELSE redirect

PublicAuthGuard ==
  /\ pageNow \in Guarded /\ ~provider.loading /\ provider.user
  /\ route' = At(Target(route.redirect), None)
  /\ UNCHANGED <<session, provider, self, informed, token, sent, code, mailed,
                 wanted, byGitHub, visits>>

\* What a guard lets the operator see.
Seen ==
  \/ pageNow \in Places /\ ~provider.loading /\ provider.user
  \/ pageNow \in Guarded /\ ~provider.loading /\ ~provider.user
  \/ pageNow \in PublicPages \ Guarded

\* A link of the sidebar or of a form: no page load, and no redirect.
Follow ==
  /\ Visit /\ Seen
  /\ \E p \in IF pageNow \in Places THEN Places ELSE {"login", "register", "reset"} :
       /\ p # pageNow /\ route' = At(p, None) /\ wanted' = Unset /\ byGitHub' = FALSE
  /\ UNCHANGED <<session, provider, self, informed, token, sent, code, mailed>>

StatusAnswer ==
  /\ pageNow \in Guarded /\ ~informed /\ informed' = TRUE
  /\ UNCHANGED <<session, provider, self, route, token, sent, code, mailed,
                 wanted, byGitHub, visits>>

\* The widget: a token, which expires.
TurnstileWidget ==
  /\ pageNow \in {"register", "reset"} /\ Seen /\ informed /\ NeedsTurnstile
  /\ token' = ~token
  /\ UNCHANGED <<session, provider, self, route, informed, sent, code, mailed,
                 wanted, byGitHub, visits>>

-----------------------------------------------------------------------------
\* A form's request: sent, then done or refused at the server, then answered.
Submit(f) ==
  /\ sent[f].phase = "idle"
  /\ sent' = [sent EXCEPT ![f] = [phase |-> "sent", to |-> Target(route.redirect)]]
  /\ UNCHANGED <<session, provider, self, route, informed, token, code, mailed,
                 wanted, byGitHub, visits>>

\* The forms that can be filled in: filling them in, showing the password and the messages
\* below the fields are left out.
LoginForm == pageNow = "login" /\ Seen
RegisterForm == pageNow = "register" /\ Seen
ResetForm == pageNow = "reset" /\ Seen
ConfirmForm == pageNow = "confirm"
UserMenu == pageNow \in Places /\ Seen

\* Before the status is known no token is asked for.
Verified == informed /\ NeedsTurnstile => token

handleLogin == LoginForm /\ Submit("login")
handleRegister == RegisterForm /\ Verified /\ Submit("register")
handleMailCode == RegisterForm /\ informed /\ NeedsEmail /\ Verified /\ Submit("mail")
handleMailLink == ResetForm /\ Verified /\ Submit("link")
handleConfirm == ConfirmForm /\ Submit("confirm")
handleLogout == UserMenu /\ Submit("logout")

\* What a request that is not refused does at the server.
Effect(f) ==
  /\ session' = CASE f = "login" -> TRUE [] f = "logout" -> FALSE [] OTHER -> session
  /\ mailed' = CASE f = "mail" -> [mailed EXCEPT !.register = TRUE]
                 [] f = "link" -> [mailed EXCEPT !.reset = TRUE]
                 [] f = "confirm" -> [mailed EXCEPT !.reset = FALSE]
                 [] OTHER -> mailed

Possible(f) ==
  /\ f = "register" => (NeedsEmail => mailed.register)
  /\ f = "confirm" => mailed.reset

FormServed(f) ==
  /\ sent[f].phase = "sent"
  /\ \/ Possible(f) /\ Effect(f) /\ sent' = [sent EXCEPT ![f].phase = "done"]
     \/ sent' = [sent EXCEPT ![f].phase = "refused"] /\ UNCHANGED <<session, mailed>>
  /\ UNCHANGED <<provider, self, route, informed, token, code, wanted, byGitHub, visits>>

Answer(f, phase) ==
  /\ sent[f].phase = phase /\ sent' = [sent EXCEPT ![f] = Quiet[f]]
  /\ UNCHANGED <<session, self, informed, token, code, mailed, visits>>

LoginAnswer ==
  /\ Answer("login", "done") /\ setUser(TRUE)
  /\ route' = At(sent["login"].to, None)
  /\ wanted' = IF pageNow = "login" THEN wanted ELSE Unset
  /\ UNCHANGED byGitHub

RegisterAnswer ==
  /\ Answer("register", "done") /\ route' = At("login", None) /\ wanted' = Unset
  /\ byGitHub' = FALSE /\ UNCHANGED provider

\* An error, the mails and the new password are shown, and nothing else happens.
ShownAnswer ==
  /\ \/ \E f \in Forms \ {"logout"} : Answer(f, "refused")
     \/ \E f \in {"mail", "link", "confirm"} : Answer(f, "done")
  /\ UNCHANGED <<provider, route, wanted, byGitHub>>

\* The guard and the menu both replace the address, in either order.  A failed request
\* forgets the user as well, and leaves the rest to the guard.
LogoutAnswer ==
  \/ /\ Answer("logout", "done") /\ setUser(FALSE) /\ wanted' = Unset /\ byGitHub' = FALSE
     /\ route' \in {At("login", None)}
               \union {At("login", IF p = Home THEN None ELSE p) : p \in Places \intersect {pageNow}}
  \/ Answer("logout", "refused") /\ setUser(FALSE) /\ UNCHANGED <<route, wanted, byGitHub>>

-----------------------------------------------------------------------------
\* GitHub sends the operator back with a code.
handleGitHubLogin ==
  /\ Visit /\ LoginForm /\ informed
  /\ Load("oauth", TRUE)
  /\ UNCHANGED <<session, mailed, wanted>>

\* The callback page exchanges the code after every render, the first included: the
\* mutation its effect depends on is a new object each time.
Exchange ==
  /\ pageNow = "oauth" /\ code.given /\ code.asked < MaxExchanges
  /\ code' = [code EXCEPT !.asked = @ + 1, !.flying = @ + 1]
  /\ UNCHANGED <<session, provider, self, route, informed, token, sent, mailed,
                 wanted, byGitHub, visits>>

ExchangeServed ==
  /\ code.flying > 0
  /\ \/ /\ ~code.used /\ session' = TRUE
        /\ code' = [code EXCEPT !.flying = @ - 1, !.used = TRUE, !.granted = @ + 1]
     \/ /\ code' = [code EXCEPT !.flying = @ - 1, !.denied = @ + 1] /\ UNCHANGED session
  /\ UNCHANGED <<provider, self, route, informed, token, sent, mailed, wanted, byGitHub, visits>>

ExchangeAnswer ==
  /\ \/ /\ code.granted > 0 /\ code' = [code EXCEPT !.granted = @ - 1]
        /\ setUser(TRUE) /\ route' = At(Home, None)
        /\ byGitHub' = TRUE /\ UNCHANGED wanted
     \/ /\ code.denied > 0 /\ code' = [code EXCEPT !.denied = @ - 1]
        /\ UNCHANGED <<provider, route, wanted, byGitHub>>
  /\ UNCHANGED <<session, self, informed, token, sent, mailed, visits>>

SignInNext ==
  \/ Open \/ Follow \/ refreshUser \/ SelfRead \/ SelfAnswer
  \/ DashboardAuthGuard \/ PublicAuthGuard \/ StatusAnswer \/ TurnstileWidget
  \/ handleLogin \/ handleRegister \/ handleMailCode \/ handleMailLink \/ handleConfirm
  \/ handleLogout \/ \E f \in Forms : FormServed(f)
  \/ LoginAnswer \/ RegisterAnswer \/ ShownAnswer \/ LogoutAnswer
  \/ handleGitHubLogin \/ Exchange \/ ExchangeServed \/ ExchangeAnswer

SignInSpec == SignInInit /\ [][SignInNext]_signInVars

-----------------------------------------------------------------------------
SignInTypeOK ==
  /\ session \in BOOLEAN /\ provider \in [user : BOOLEAN, loading : BOOLEAN]
  /\ self \in {"idle", "sent", "known", "nobody"}
  /\ route \in [page : Places \union PublicPages, redirect : Places \union {None}]
  /\ informed \in BOOLEAN /\ token \in BOOLEAN
  /\ \A f \in Forms : /\ sent[f].phase \in {"idle", "sent", "done", "refused"}
                      /\ sent[f].to \in Places \union {None}
  /\ code.flying + code.granted + code.denied <= MaxExchanges
  /\ mailed \in [register : BOOLEAN, reset : BOOLEAN]
  /\ wanted \in Places \union {Unset} /\ byGitHub \in BOOLEAN /\ visits \in 0 .. MaxVisits

\* Whoever is turned away from a page of the console and signs in arrives at that page,
\* through the guard of the console, the login form, the guard of the public pages and the
\* form's own navigation, whichever comes first
\* (dashboard-auth-guard.tsx:19-23, public-auth-guard.tsx:19-23, login-form.tsx:47-50).  The
\* code has one exception: GitHub does not bring the redirect back, and whoever signs in there
\* arrives at Home, whatever the page was, and at no third one (github-oauth-callback.tsx:22-26).
LandsWhereAsked ==
  wanted # Unset /\ pageNow \in Places => pageNow = IF byGitHub THEN Home ELSE wanted
=============================================================================
