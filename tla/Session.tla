------------------------------ MODULE Session ------------------------------
(***************************************************************************)
(* A signed-in browser: the tokens that frontend/lib/api/index.ts keeps in *)
(* localStorage, the calls it makes with them, and the accounts API that   *)
(* issues, rotates and revokes them.  Every call carries the access token  *)
(* of the moment; the calls that come back with 401 share one refresh and  *)
(* are sent once more.  The network may lose a call or its answer.         *)
(*                                                                         *)
(* An access token and the refresh token issued with it are one pair.      *)
(* Pairs are numbered in the order they are issued, which is the order     *)
(* they expire in, and an access token expires before its refresh token.   *)
(* Tabs of one browser share localStorage and nothing else.                *)
(*                                                                         *)
(* Left out: a login whose answer is lost (it leaves a row that nobody     *)
(* uses until it expires), and reloading a tab.                            *)
(***************************************************************************)
EXTENDS Naturals, Sequences

CONSTANTS
    Tabs,
    Calls,        \* the calls a tab may have under way
    MaxPairs      \* bound on the pairs the server issues

ASSUME MaxPairsIsNatural == MaxPairs \in Nat

VARIABLES
    \* The server.
    rows,         \* pairs whose refresh token has a row
    issued,       \* for each pair issued: the pair of its login, and the pair
                  \* it was exchanged for
    stale,        \* the last pair whose refresh token has expired
    spent,        \* the last pair whose access token has expired
    \* The browser.
    store,        \* the pair in localStorage, or Nil
    call,         \* per tab and call: what it is, how far it is, the pairs it
                  \* was first and last sent with, and the refresh it waits on
    refresh       \* per tab: the refreshes under way, by the call that began it

serverVars == <<rows, issued, stale, spent>>
browserVars == <<store, call, refresh>>
sessionVars == <<serverVars, browserVars>>

NoCall == "none"
Nil == 0                   \* no pair

Kinds == {"api", "login", "logout"}
CallPhases == {"idle", "sent", "served", "denied", "waiting", "resent", "refused"}
RefreshPhases == {"none", "sent", "read", "issued", "refused"}
Idle == [kind |-> "api", at |-> "idle", first |-> Nil, with |-> Nil,
         pair |-> Nil, on |-> NoCall]
NoRefresh == [at |-> "none", old |-> Nil, pair |-> Nil]

Issued == 1..Len(issued)
Valid(p) == p > spent

Init ==
    /\ rows = {} /\ issued = <<>> /\ stale = 0 /\ spent = 0
    /\ store = Nil
    /\ call = [t \in Tabs |-> [c \in Calls |-> Idle]]
    /\ refresh = [t \in Tabs |-> [c \in Calls |-> NoRefresh]]

-----------------------------------------------------------------------------
\* The server.

\* The next pair; create_refresh_token prunes the user's expired rows.
NextPair == Len(issued) + 1
Issue(origin, kept) ==
    /\ Len(issued) < MaxPairs
    /\ issued' = Append(issued, origin)
    /\ rows' = {p \in kept : p > stale} \cup {NextPair}

SetCall(t, c, r) == call' = [call EXCEPT ![t][c] = r]

\* A call is refused for good: it throws, and a logout goes on from there.
Refused(k) ==
    IF k.kind = "logout" THEN [Idle EXCEPT !.kind = "logout", !.at = "refused"]
    ELSE Idle

\* A 401, the first time or after the refresh.
Denied(k) ==
    IF k.at = "sent" THEN [k EXCEPT !.at = "denied", !.with = Nil] ELSE Refused(k)

\* Time passes.  To a user who is deactivated the tokens are as good as expired:
\* the access token is refused, and the row of the refresh token is deleted.
AccessExpires ==
    /\ spent < Len(issued) /\ spent' = spent + 1
    /\ UNCHANGED <<rows, issued, stale, browserVars>>

RefreshExpires ==
    /\ stale < spent /\ stale' = stale + 1
    /\ UNCHANGED <<rows, issued, spent, browserVars>>

\* A handler behind JWTAuth.
ServeApi(t, c) ==
    LET k == call[t][c] IN
    /\ k.kind = "api" /\ k.at \in {"sent", "resent"}
    /\ SetCall(t, c, IF Valid(k.with) THEN Idle ELSE Denied(k))
    /\ UNCHANGED <<serverVars, store, refresh>>

\* logout_view deletes the row named in the body, which the browser made once,
\* with the token it had when the call was first sent.
ServeLogout(t, c) ==
    LET k == call[t][c] IN
    /\ k.kind = "logout" /\ k.at \in {"sent", "resent"}
    /\ IF Valid(k.with)
       THEN rows' = rows \ {k.first} /\ SetCall(t, c, [k EXCEPT !.at = "served", !.with = Nil])
       ELSE UNCHANGED rows /\ SetCall(t, c, Denied(k))
    /\ UNCHANGED <<issued, stale, spent, store, refresh>>

\* A wrong password, or a user who is not active, is answered with 401 too.
ServeLogin(t, c) ==
    LET k == call[t][c] IN
    /\ k.kind = "login" /\ k.at \in {"sent", "resent"}
    /\ \/ /\ Issue([login |-> NextPair, old |-> Nil], rows)
          /\ SetCall(t, c, [Idle EXCEPT !.kind = "login", !.at = "served",
                                         !.pair = NextPair])
       \/ /\ SetCall(t, c, Denied(k))
          /\ UNCHANGED <<rows, issued>>
    /\ UNCHANGED <<stale, spent, store, refresh>>

\* refresh_view reads the row, without a lock ...
ReadRefreshRow(t, c) ==
    LET r == refresh[t][c] IN
    /\ r.at = "sent"
    /\ IF r.old \in rows /\ r.old > stale
       THEN refresh' = [refresh EXCEPT ![t][c] = [r EXCEPT !.at = "read"]] /\ UNCHANGED rows
       ELSE /\ refresh' = [refresh EXCEPT ![t][c] = [r EXCEPT !.at = "refused"]]
            /\ rows' = rows \ {r.old}
    /\ UNCHANGED <<issued, stale, spent, store, call>>

Exchange(t, c, kept) ==
    LET r == refresh[t][c] IN
    /\ r.at = "read"
    /\ Issue([login |-> issued[r.old].login, old |-> r.old], kept)
    /\ refresh' = [refresh EXCEPT
            ![t][c] = [at |-> "issued", old |-> r.old, pair |-> NextPair]]
    /\ UNCHANGED <<stale, spent, store, call>>

\* Mutated form: the old row is kept.
RotateKeepingOld(t, c) == Exchange(t, c, rows)

\* ... and then deletes it, if it is still there, and issues the next pair.
Rotate(t, c) == Exchange(t, c, rows \ {refresh[t][c].old})

-----------------------------------------------------------------------------
\* The browser.

\* The login page has one login under way at most, and a logout without a
\* refresh token calls nobody.
StartCall(t, c, kind) ==
    /\ call[t][c] = Idle
    /\ kind = "login" => \A d \in Calls : call[t][d] = Idle \/ call[t][d].kind # "login"
    /\ kind = "logout" => store # Nil
    /\ SetCall(t, c, [Idle EXCEPT !.kind = kind, !.at = "sent",
                                  !.first = store, !.with = store])
    /\ UNCHANGED <<serverVars, store, refresh>>

\* Call c, refused, waits for the refresh that d has begun, or now begins.
WaitFor(t, c, d) ==
    /\ call[t][c].at = "denied" /\ store # Nil
    /\ SetCall(t, c, [call[t][c] EXCEPT !.at = "waiting", !.on = d])
    /\ refresh' = IF c = d
          THEN [refresh EXCEPT ![t][c] = [NoRefresh EXCEPT !.at = "sent", !.old = store]]
          ELSE refresh
    /\ UNCHANGED <<serverVars, store>>

\* Mutated form: a refresh for each call.
RefreshAlone(t, c) == WaitFor(t, c, c)

\* refreshInflight: the calls that come back with 401 share one refresh.
JoinRefresh(t, c) ==
    \/ \E d \in Calls : refresh[t][d].at # "none" /\ WaitFor(t, c, d)
    \/ (\A d \in Calls : refresh[t][d].at = "none") /\ WaitFor(t, c, c)

\* A call that waited, when the refresh has given it a pair or Nil.
Released(k, pair, with) ==
    IF pair = Nil THEN Refused(k)
    ELSE [k EXCEPT !.at = "resent", !.with = with, !.on = NoCall]

Waits(t, d) == {c \in Calls : call[t][c].at = "waiting" /\ call[t][c].on = d}

\* Mutated form: the headers are made once.
ResumeWithOldHeaders(t, d, pair) ==
    call' = [call EXCEPT ![t] = [c \in Calls |->
        IF c \in Waits(t, d) THEN Released(call[t][c], pair, call[t][c].first)
        ELSE call[t][c]]]

\* The refresh that d began settles, and the calls that wait for it go on in the
\* same turn of the event loop: they are sent again, or throw.
Resume(t, d, pair) ==
    call' = [call EXCEPT ![t] = [c \in Calls |->
        IF c \in Waits(t, d) THEN Released(call[t][c], pair, pair)
        ELSE call[t][c]]]

SettleRefresh(t, c, pair) ==
    /\ store' = pair
    /\ Resume(t, c, pair)
    /\ refresh' = [refresh EXCEPT ![t][c] = NoRefresh]
    /\ UNCHANGED serverVars

RefreshSucceeds(t, c) ==
    refresh[t][c].at = "issued" /\ SettleRefresh(t, c, refresh[t][c].pair)

\* Mutated form: doRefresh goes through call(), and a refresh that is refused
\* waits for the refresh under way.
RefreshWaitsForItself(t, c) ==
    refresh[t][c].at \in {"sent", "read", "issued"} /\ SettleRefresh(t, c, Nil)

\* The refresh was refused, or it or its answer is lost: the store is emptied.
RefreshFails(t, c) == refresh[t][c].at # "none" /\ SettleRefresh(t, c, Nil)

\* A call returns, or throws a 401 or a network error.
Ends(k) ==
    \/ k.at \in {"sent", "served", "resent", "refused"}
    \/ k.at = "denied" /\ store = Nil

EndApi(t, c) ==
    /\ call[t][c].kind = "api" /\ Ends(call[t][c])
    /\ SetCall(t, c, Idle)
    /\ UNCHANGED <<serverVars, store, refresh>>

EndLogin(t, c) ==
    /\ call[t][c].kind = "login" /\ Ends(call[t][c])
    /\ store' = IF call[t][c].at = "served" THEN call[t][c].pair ELSE store
    /\ SetCall(t, c, Idle)
    /\ UNCHANGED <<serverVars, refresh>>

\* logout empties the store whatever came of its call.
EndLogout(t, c) ==
    /\ call[t][c].kind = "logout" /\ Ends(call[t][c])
    /\ store' = Nil
    /\ SetCall(t, c, Idle)
    /\ UNCHANGED <<serverVars, refresh>>

CallStep(t, c) ==
    \/ ServeApi(t, c) \/ ServeLogout(t, c) \/ ServeLogin(t, c)
    \/ JoinRefresh(t, c)
    \/ EndApi(t, c) \/ EndLogin(t, c) \/ EndLogout(t, c)

RefreshStep(t, c) ==
    ReadRefreshRow(t, c) \/ Rotate(t, c) \/ RefreshSucceeds(t, c) \/ RefreshFails(t, c)

Next ==
    \/ AccessExpires \/ RefreshExpires
    \/ \E t \in Tabs, c \in Calls :
        \/ CallStep(t, c) \/ RefreshStep(t, c)
        \/ \E kind \in Kinds : StartCall(t, c, kind)

\* The browser settles every fetch, with an answer or a network error, and its
\* event loop runs what waits for it.
Fairness ==
    \A t \in Tabs, c \in Calls : WF_sessionVars(CallStep(t, c) \/ RefreshStep(t, c))

Spec == Init /\ [][Next]_sessionVars
FairSpec == Spec /\ Fairness

-----------------------------------------------------------------------------
PairOrNil == 0..Len(issued)
TypeOK ==
    /\ issued \in Seq([login : Nat, old : Nat])
    /\ rows \subseteq Issued
    /\ \A p \in Issued : issued[p].login \in 1..p /\ issued[p].old \in 0..(p - 1)
    /\ stale \in Nat /\ spent \in Nat /\ stale <= spent /\ spent <= Len(issued)
    /\ store \in PairOrNil
    /\ call \in [Tabs -> [Calls -> [kind : Kinds, at : CallPhases,
            first : PairOrNil, with : PairOrNil, pair : PairOrNil,
            on : Calls \cup {NoCall}]]]
    /\ refresh \in [Tabs -> [Calls -> [at : RefreshPhases,
            old : PairOrNil, pair : PairOrNil]]]

\* Each row represents one active session (models.py): refreshing never leaves
\* two rows for one login, whatever answers the network loses.
OneRowPerSession ==
    \A p, q \in rows : issued[p].login = issued[q].login => p = q

\* A tab never presents a refresh token that the server has exchanged already:
\* a session ends because the user signed out, the token expired or an answer
\* was lost, and never because two of its calls failed together (the shared
\* refreshInflight).
NoTokenPresentedTwice ==
    \A t \in Tabs, c \in Calls : refresh[t][c].at = "refused" =>
        \A p \in Issued : issued[p].old # refresh[t][c].old

\* A call is repeated with another access token than the one that was refused.
RetryIsAuthorised ==
    \A t \in Tabs, c \in Calls :
        call[t][c].at = "resent" => call[t][c].with # call[t][c].first

\* What carries these for a tab that is alone.  A pair has been exchanged for
\* another when that other names it.
Exchanged == {issued[q].old : q \in Issued}

UnderWay(t, c) == refresh[t][c].at # "none"
HasLoggedIn(t, c) == call[t][c].kind = "login" /\ call[t][c].at = "served"

OneRefresh ==
    /\ \A t, u \in Tabs, c, d \in Calls :
        UnderWay(t, c) /\ UnderWay(u, d) => t = u /\ c = d
    /\ \A t \in Tabs, c \in Calls : UnderWay(t, c) => call[t][c].at = "waiting"

\* Between the read of a row and its rotation no other row of its session
\* appears.
RowsOfRefresh ==
    \A t \in Tabs, c \in Calls : refresh[t][c].at = "read" =>
        /\ refresh[t][c].old \in Issued
        /\ \A p \in rows : issued[p].login = issued[refresh[t][c].old].login
                               => p = refresh[t][c].old

\* The store, the pair on its way from a login and the one on its way from a
\* refresh are different pairs and have not been exchanged; only while the
\* answer of a refresh is on its way the store is behind.
StoreIsFresh ==
    store # Nil /\ store \in Exchanged =>
        \E t \in Tabs, c \in Calls :
            refresh[t][c].at = "issued" /\ refresh[t][c].old = store

RefreshIsFresh ==
    \A t \in Tabs, c \in Calls :
        LET r == refresh[t][c] IN
        /\ r.at \in {"sent", "read", "refused"} =>
                r.old # Nil /\ r.old \notin Exchanged
        /\ r.at = "issued" =>
                /\ r.pair # Nil /\ r.pair \notin Exchanged
                /\ r.pair # store
                /\ \A u \in Tabs, d \in Calls : call[u][d].first # r.pair

LoginIsFresh ==
    \A t \in Tabs, c \in Calls : HasLoggedIn(t, c) =>
        /\ call[t][c].pair # Nil /\ call[t][c].pair \notin Exchanged
        /\ call[t][c].pair # store
        /\ \A u \in Tabs, d \in Calls :
            /\ HasLoggedIn(u, d) /\ call[u][d].pair = call[t][c].pair
                    => u = t /\ d = c
            /\ UnderWay(u, d) => /\ refresh[u][d].old # call[t][c].pair
                                 /\ refresh[u][d].pair # call[t][c].pair

\* The inductive invariant of a browser with one tab: the types, how the rows
\* and the pairs under way relate (above), and what follows.
SessionInv ==
    /\ TypeOK
    /\ OneRefresh
    /\ OneRowPerSession /\ RowsOfRefresh
    /\ StoreIsFresh /\ RefreshIsFresh /\ LoginIsFresh
    /\ RetryIsAuthorised

\* Every call comes to an end, also when refreshes are refused or lost.
CallsSettle ==
    \A t \in Tabs, c \in Calls : (call[t][c] # Idle) ~> (call[t][c] = Idle)

\* A logout that the server has answered leaves no row of the session it ended.
LogoutRevokes ==
    [][\A t \in Tabs, c \in Calls :
        /\ call[t][c].kind = "logout" /\ call[t][c].at = "served"
        /\ call'[t][c] = Idle
        => \A p \in rows' :
            issued[p].login # issued[call[t][c].first].login]_sessionVars
=============================================================================
