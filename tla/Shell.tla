------------------------------- MODULE Shell --------------------------------
(***************************************************************************)
(* Who is at the browser: the login page (components/Login, app/login),    *)
(* the layouts of the three roles (app/fab, app/lab, app/manager) that let *)
(* a user in by the profile in localStorage, and signing out, over the     *)
(* tokens and the calls of Session.  The profile and the tokens are kept   *)
(* apart: an API call that fails touches the tokens only, and the layouts  *)
(* look at the profile only.                                               *)
(*                                                                         *)
(* Left out: reloading a page, which drops the calls of its tab, and a     *)
(* login page that is left while its call is under way.                    *)
(***************************************************************************)
EXTENDS Session

VARIABLES
    profile,          \* the role in SESSION_KEY, or "none"
    screen,           \* per tab: the page, and how far it has come up
    typed             \* per tab: whether both fields of the login form are filled

shellVars == <<profile, screen, typed>>

\* The roles of the accounts API, as the client renames them.
ServerRoles == {"fab_user", "lab_staff", "lab_manager"}
NormalizeRole(role) == IF role = "lab_staff" THEN "lab_member" ELSE role

Shells == {"fab", "lab", "manager"}
Forms == {"root", "login"}

RoleHome(role) ==
    CASE role = "fab_user" -> "fab"
      [] role = "lab_manager" -> "manager"
      [] role \in {"lab_member", "lab_mem"} -> "lab"
      [] OTHER -> "login"

\* Mutated form: the laboratory's layout knows its role by the older name only.
AdmitsOlderName(page) ==
    CASE page = "fab"     -> {"fab_user"}
      [] page = "lab"     -> {"lab_mem"}
      [] page = "manager" -> {"lab_manager"}
      [] page = "login"   -> {"none"}
      [] OTHER            -> {}

\* The profiles with which each page stays where it is.
Admits(page) ==
    CASE page = "fab"     -> {"fab_user"}
      [] page = "lab"     -> {"lab_member", "lab_mem"}
      [] page = "manager" -> {"lab_manager"}
      [] page = "login"   -> {"none"}
      [] OTHER            -> {}

Mounting(page) == [page |-> page, at |-> "mounting"]

ShellInit ==
    /\ Init
    /\ profile = "none"
    /\ screen = [t \in Tabs |-> [page |-> "root", at |-> "closed"]]
    /\ typed = [t \in Tabs |-> FALSE]

LoggingIn(t) == \E c \in Calls : call[t][c].kind = "login" /\ call[t][c] # Idle

\* A page comes up: by its address in a new tab, or by the browser's back and
\* forward buttons (whatever pages the tab has been to before).
Visit(t, page) ==
    /\ screen[t].at # "mounting" /\ ~LoggingIn(t)
    /\ screen' = [screen EXCEPT ![t] = Mounting(page)]
    /\ typed' = [typed EXCEPT ![t] = FALSE]
    /\ UNCHANGED <<profile, sessionVars>>

\* The effect that a page runs once it has come up: it stays, or is replaced.
\* The effect does not run again, so a page replaced by itself stays blank.
MountEffect(t) ==
    LET page == screen[t].page
        elsewhere == IF profile = "none" THEN "login" ELSE RoleHome(profile)
    IN  /\ screen[t].at = "mounting"
        /\ screen' = [screen EXCEPT ![t] =
                IF profile \in Admits(page) THEN [page |-> page, at |-> "shown"]
                ELSE IF elsewhere # page THEN Mounting(elsewhere)
                ELSE [page |-> page, at |-> "blank"]]
        /\ UNCHANGED <<profile, typed, sessionVars>>

Shown(t, pages) == screen[t].at = "shown" /\ screen[t].page \in pages

Type(t, filled) ==
    /\ Shown(t, {"login"}) /\ typed[t] # filled
    /\ typed' = [typed EXCEPT ![t] = filled]
    /\ UNCHANGED <<profile, screen, sessionVars>>

\* One fills both fields, or clears one; or takes a demo account.
TypeCredentials(t) == \E filled \in BOOLEAN : Type(t, filled)
FillDemo(t) == Type(t, TRUE)

\* The button is disabled while a login is under way.
SignInEnabled(t) == ~LoggingIn(t)

\* "Sign In": with a field blank nobody is asked.
Submit(t, c) ==
    /\ Shown(t, {"login"}) /\ SignInEnabled(t) /\ typed[t]
    /\ StartCall(t, c, "login")
    /\ UNCHANGED shellVars

\* The login is answered: the profile is written and the user's home comes up.
\* Or it failed, and the form stays with a message.
LoginEnds(t, c) ==
    /\ EndLogin(t, c)
    /\ IF call[t][c].at = "served"
       THEN \E role \in ServerRoles :
            /\ profile' = NormalizeRole(role)
            /\ screen' = [screen EXCEPT ![t] = Mounting(RoleHome(NormalizeRole(role)))]
            /\ typed' = [typed EXCEPT ![t] = FALSE]
       ELSE UNCHANGED shellVars

\* What a page of a role asks of the API.
Ask(t, c) == Shown(t, Shells) /\ StartCall(t, c, "api") /\ UNCHANGED shellVars

CallLogout(t) ==
    IF store = Nil THEN UNCHANGED sessionVars
    ELSE \E c \in Calls : StartCall(t, c, "logout")

\* Mutated form: the login page waits for the answer of the logout.
SignOutOnAnswer(t) ==
    /\ Shown(t, Shells)
    /\ profile' = "none"
    /\ CallLogout(t)
    /\ UNCHANGED <<screen, typed>>

\* The profile goes first, then the call, which is not waited for.
SignOut(t) ==
    /\ Shown(t, Shells)
    /\ profile' = "none"
    /\ CallLogout(t)
    /\ screen' = [screen EXCEPT ![t] = Mounting("login")]
    /\ UNCHANGED typed

\* What goes on behind the pages: the server, the network and the calls.
Behind(t, c) ==
    /\ \/ ServeApi(t, c) \/ ServeLogout(t, c) \/ ServeLogin(t, c)
       \/ JoinRefresh(t, c) \/ EndApi(t, c) \/ EndLogout(t, c)
       \/ RefreshStep(t, c)
    /\ UNCHANGED shellVars

ShellNext ==
    \/ (AccessExpires \/ RefreshExpires) /\ UNCHANGED shellVars
    \/ \E t \in Tabs :
        \/ \E page \in Shells \cup Forms : Visit(t, page)
        \/ MountEffect(t)
        \/ TypeCredentials(t) \/ FillDemo(t)
        \/ SignOut(t)
        \/ \E c \in Calls :
            Submit(t, c) \/ LoginEnds(t, c) \/ Ask(t, c) \/ Behind(t, c)

\* The browser settles every fetch, with an answer or a network error, its event
\* loop runs what waits for it, and React runs the effects of what it has shown.
ShellFairness ==
    \A t \in Tabs :
        /\ WF_<<sessionVars, shellVars>>(MountEffect(t))
        /\ \A c \in Calls : WF_<<sessionVars, shellVars>>(Behind(t, c) \/ LoginEnds(t, c))

ShellSpec ==
    ShellInit /\ [][ShellNext]_<<sessionVars, shellVars>> /\ ShellFairness

-----------------------------------------------------------------------------
\* No redirect goes round in circles or ends on an empty page, whoever signs in
\* or out meanwhile: a page that comes up ends as a page of the user's role or
\* as the login form (the guards of four pages and roleHome, which name the
\* roles each in their own way).
RedirectsSettle ==
    \A t \in Tabs : screen[t].at = "mounting" ~> screen[t].at = "shown"

\* In a browser with one tab the pages of a role are shown to its users only,
\* and the form only to nobody: also after signing out with tokens that are
\* expired or gone, when the logout or other calls are answered late or never
\* (onLogout of the layouts, which does not wait for api.auth.logout).
ScreenFitsProfile ==
    \A t \in Tabs : screen[t].at = "shown" =>
        IF screen[t].page = "login" THEN profile = "none"
        ELSE profile # "none" /\ screen[t].page = RoleHome(profile)
=============================================================================
