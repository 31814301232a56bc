--------------------------- MODULE SessionProofs ---------------------------
(***************************************************************************)
(* What holds of Session for any calls and any number of pairs, when one   *)
(* tab is open: a session has one row, no token is presented twice, and a  *)
(* repeated call carries another token.  The pages around it (Shell) take  *)
(* none of that away, and show only what fits the stored profile.          *)
(***************************************************************************)
EXTENDS Shell, TLAPS

OneTab == \A t, u \in Tabs : t = u

Origins == [login : Nat, old : Nat]
CallRecords == [kind : Kinds, at : CallPhases, first : PairOrNil,
                with : PairOrNil, pair : PairOrNil, on : Calls \cup {NoCall}]
RefreshRecords == [at : RefreshPhases, old : PairOrNil, pair : PairOrNil]

-----------------------------------------------------------------------------
\* Types.

LEMMA TablesTyped ==
    ASSUME TypeOK
    PROVE  /\ Len(issued) \in Nat /\ issued \in Seq(Origins)
           /\ call \in [Tabs -> [Calls -> CallRecords]]
           /\ refresh \in [Tabs -> [Calls -> RefreshRecords]]
           /\ Nil \in PairOrNil
BY DEF TypeOK, CallRecords, RefreshRecords, Origins, PairOrNil, Nil

\* What the server adds when it issues a pair.
LEMMA IssueAdds ==
    ASSUME TypeOK, NEW origin \in Origins, NEW kept, Issue(origin, kept)
    PROVE  /\ NextPair \in Nat /\ NextPair > Len(issued)
           /\ issued' \in Seq(Origins) /\ Len(issued') = NextPair
           /\ Issued' = Issued \cup {NextPair} /\ NextPair \notin Issued
           /\ \A p \in Issued : issued'[p] = issued[p]
           /\ issued'[NextPair] = origin
           /\ rows' \subseteq kept \cup {NextPair}
           /\ PairOrNil \subseteq PairOrNil' /\ NextPair \in PairOrNil'
<1> USE TablesTyped
<1>1. issued' = Append(issued, origin)
  BY DEF Issue
<1>2. Len(issued') = Len(issued) + 1 /\ issued' \in Seq(Origins)
  BY <1>1
<1>3. Issued' = Issued \cup {NextPair} /\ NextPair \notin Issued
  BY <1>2 DEF Issued, NextPair
<1>4. (\A p \in Issued : issued'[p] = issued[p]) /\ issued'[NextPair] = origin
  BY <1>1 DEF Issued, NextPair
<1>5. rows' \subseteq kept \cup {NextPair}
  BY DEF Issue
<1> QED
  BY <1>2, <1>3, <1>4, <1>5 DEF PairOrNil, NextPair

\* The types of the server's tables after a pair is issued.
LEMMA IssueTypes ==
    ASSUME TypeOK, NEW origin \in Origins, NEW kept, Issue(origin, kept),
           kept \subseteq rows, UNCHANGED <<stale, spent>>,
           origin.login \in 1..NextPair, origin.old \in 0..Len(issued)
    PROVE  /\ issued' \in Seq([login : Nat, old : Nat])
           /\ rows' \subseteq Issued'
           /\ \A p \in Issued' : /\ issued'[p].login \in 1..p
                                 /\ issued'[p].old \in 0..(p - 1)
           /\ stale' \in Nat /\ spent' \in Nat
           /\ stale' <= spent' /\ spent' <= Len(issued')
<1> USE IssueAdds
<1>1. NextPair = Len(issued) + 1
  BY DEF NextPair
<1>2. \A p \in Issued' : /\ issued'[p].login \in 1..p
                         /\ issued'[p].old \in 0..(p - 1)
  <2> TAKE p \in Issued'
  <2>1. CASE p = NextPair
    BY <2>1, <1>1, TablesTyped
  <2>2. CASE p \in Issued
    BY <2>2 DEF TypeOK
  <2> QED
    BY <2>1, <2>2
<1> QED
  BY <1>2 DEF TypeOK, Origins

LEMMA CallTypes ==
    ASSUME NEW k \in CallRecords, Nil \in PairOrNil
    PROVE  Denied(k) \in CallRecords /\ Refused(k) \in CallRecords
BY DEF Denied, Refused, Idle, CallRecords, CallPhases, Kinds, NoCall

LEMMA SetCallTypes ==
    ASSUME TypeOK, NEW t \in Tabs, NEW c \in Calls, NEW k, SetCall(t, c, k),
           k \in CallRecords', PairOrNil \subseteq PairOrNil'
    PROVE  call' \in [Tabs -> [Calls -> CallRecords']]
<1>1. CallRecords \subseteq CallRecords'
  BY DEF CallRecords
<1>2. call \in [Tabs -> [Calls -> CallRecords]]
  BY TablesTyped
<1>3. call \in [Tabs -> [Calls -> CallRecords']]
  BY <1>1, <1>2
<1> QED
  BY <1>3 DEF SetCall

LEMMA InitTypes == Init => TypeOK
BY DEF Init, TypeOK, Issued, PairOrNil, Idle, NoRefresh, Kinds, CallPhases,
       RefreshPhases, NoCall, Nil

\* A step that changes one call and, of the rest, perhaps drops rows or empties
\* or keeps the store.
LEMMA CallStepTypes ==
    ASSUME TypeOK, NEW t \in Tabs, NEW c \in Calls, NEW k \in CallRecords,
           SetCall(t, c, k), rows' \subseteq rows, store' \in PairOrNil,
           UNCHANGED <<issued, stale, spent, refresh>>
    PROVE  TypeOK'
<1>1. CallRecords' = CallRecords /\ PairOrNil' = PairOrNil
  BY DEF CallRecords, PairOrNil
<1>2. call' \in [Tabs -> [Calls -> CallRecords]]
  BY <1>1, SetCallTypes
<1> QED
  BY <1>1, <1>2 DEF TypeOK, CallRecords, Issued

LEMMA NextTypes ==
    ASSUME TypeOK, RowsOfRefresh, [Next]_sessionVars PROVE TypeOK'
<1> USE TablesTyped
<1>1. CASE AccessExpires
  BY <1>1 DEF AccessExpires, browserVars, TypeOK, Issued, PairOrNil
<1>2. CASE RefreshExpires
  BY <1>2 DEF RefreshExpires, browserVars, TypeOK, Issued, PairOrNil
<1>3. ASSUME NEW t \in Tabs, NEW c \in Calls, CallStep(t, c) PROVE TypeOK'
  <2> DEFINE k == call[t][c]
  <2>0. k \in CallRecords /\ Denied(k) \in CallRecords /\ Idle \in CallRecords
    BY CallTypes DEF CallRecords, Idle, Kinds, CallPhases, NoCall
  <2>1. CASE ServeApi(t, c)
    BY <2>0, <2>1, CallStepTypes DEF ServeApi, serverVars, TypeOK
  <2>2. CASE ServeLogout(t, c)
    <3>1. [k EXCEPT !.at = "served", !.with = Nil] \in CallRecords
      BY <2>0 DEF CallRecords, CallPhases
    <3>2. CASE Valid(k.with)
      BY <3>1, <3>2, <2>2, CallStepTypes DEF ServeLogout, TypeOK
    <3>3. CASE ~Valid(k.with)
      BY <2>0, <3>3, <2>2, CallStepTypes DEF ServeLogout, TypeOK
    <3> QED
      BY <3>2, <3>3
  <2>3. CASE ServeLogin(t, c)
    <3>1. CASE UNCHANGED <<rows, issued>> /\ SetCall(t, c, Denied(k))
      BY <2>0, <3>1, <2>3, CallStepTypes DEF ServeLogin, TypeOK
    <3>2. CASE /\ Issue([login |-> NextPair, old |-> Nil], rows)
               /\ SetCall(t, c, [Idle EXCEPT !.kind = "login", !.at = "served",
                                             !.pair = NextPair])
      <4> DEFINE origin == [login |-> NextPair, old |-> Nil]
      <4>1. origin \in Origins /\ origin.login \in 1..NextPair
                /\ origin.old \in 0..Len(issued)
        BY DEF Origins, NextPair, Nil
      <4>2. UNCHANGED <<stale, spent, store, refresh>>
        BY <2>3 DEF ServeLogin
      <4>3. /\ PairOrNil \subseteq PairOrNil' /\ NextPair \in PairOrNil'
        BY <4>1, <3>2, IssueAdds
      <4>4. call' \in [Tabs -> [Calls -> CallRecords']]
        BY <2>0, <3>2, <4>3, SetCallTypes
           DEF CallRecords, Idle, Kinds, CallPhases, NoCall
      <4>5. refresh' \in [Tabs -> [Calls -> RefreshRecords']]
        BY <4>2, <4>3 DEF RefreshRecords
      <4>6. /\ issued' \in Seq([login : Nat, old : Nat])
            /\ rows' \subseteq Issued'
            /\ \A p \in Issued' : /\ issued'[p].login \in 1..p
                                  /\ issued'[p].old \in 0..(p - 1)
            /\ stale' \in Nat /\ spent' \in Nat
            /\ stale' <= spent' /\ spent' <= Len(issued')
        BY <4>1, <4>2, <3>2, IssueTypes
      <4> QED
        BY <4>2, <4>3, <4>4, <4>5, <4>6 DEF TypeOK, CallRecords, RefreshRecords
    <3> QED
      BY <2>3, <3>1, <3>2 DEF ServeLogin
  <2>4. ASSUME NEW d \in Calls, WaitFor(t, c, d) PROVE TypeOK'
    <3>1. [k EXCEPT !.at = "waiting", !.on = d] \in CallRecords
      BY <2>0 DEF CallRecords, CallPhases
    <3>2. CallRecords' = CallRecords /\ PairOrNil' = PairOrNil /\ Issued' = Issued
      BY <2>4 DEF WaitFor, serverVars, CallRecords, PairOrNil, Issued
    <3>3. call' \in [Tabs -> [Calls -> CallRecords']]
      BY <2>4, <3>1, <3>2, SetCallTypes DEF WaitFor
    <3>4. [NoRefresh EXCEPT !.at = "sent", !.old = store] \in RefreshRecords
      BY DEF TypeOK, NoRefresh, RefreshRecords, RefreshPhases
    <3>5. refresh' \in [Tabs -> [Calls -> RefreshRecords]]
      BY <2>4, <3>4 DEF WaitFor
    <3> QED
      BY <2>4, <3>2, <3>3, <3>5
         DEF WaitFor, serverVars, TypeOK, CallRecords, RefreshRecords
  <2>5. CASE EndApi(t, c)
    BY <2>0, <2>5, CallStepTypes DEF EndApi, serverVars, TypeOK
  <2>6. CASE EndLogin(t, c)
    <3>1. store' \in PairOrNil
      BY <2>0, <2>6 DEF EndLogin, TypeOK, CallRecords
    <3> QED
      BY <2>0, <2>6, <3>1, CallStepTypes DEF EndLogin, serverVars, TypeOK
  <2>7. CASE EndLogout(t, c)
    BY <2>0, <2>7, CallStepTypes DEF EndLogout, serverVars, TypeOK
  <2> QED
    BY <1>3, <2>1, <2>2, <2>3, <2>4, <2>5, <2>6, <2>7 DEF CallStep, JoinRefresh
<1>4. ASSUME NEW t \in Tabs, NEW c \in Calls, RefreshStep(t, c) PROVE TypeOK'
  <2> DEFINE r == refresh[t][c]
  <2>0. r \in RefreshRecords
    BY DEF RefreshRecords
  <2>1. CASE ReadRefreshRow(t, c)
    <3>1. /\ PairOrNil' = PairOrNil /\ Issued' = Issued /\ rows' \subseteq rows
          /\ UNCHANGED <<issued, stale, spent, store, call>>
      BY <2>1 DEF ReadRefreshRow, PairOrNil, Issued
    <3>2. [r EXCEPT !.at = "read"] \in RefreshRecords
            /\ [r EXCEPT !.at = "refused"] \in RefreshRecords
      BY <2>0 DEF RefreshRecords, RefreshPhases
    <3>3. refresh' \in [Tabs -> [Calls -> RefreshRecords]]
      <4>1. PICK q \in RefreshRecords : refresh' = [refresh EXCEPT ![t][c] = q]
        BY <2>1, <3>2 DEF ReadRefreshRow
      <4> QED
        BY <4>1
    <3> QED
      BY <3>1, <3>3 DEF TypeOK, RefreshRecords
  <2>2. CASE Rotate(t, c)
    <3> DEFINE origin == [login |-> issued[r.old].login, old |-> r.old]
               kept == rows \ {r.old}
    <3>0. r.at = "read" /\ Issue(origin, kept) /\ UNCHANGED <<stale, spent, store, call>>
      BY <2>2 DEF Rotate, Exchange
    <3>1. r.old \in Issued
      BY <1>4, <3>0 DEF RowsOfRefresh
    <3>2. /\ origin \in Origins /\ origin.login \in 1..NextPair
          /\ origin.old \in 0..Len(issued)
      <4>1. r.old \in 1..Len(issued) /\ issued[r.old].login \in 1..r.old
        BY <3>1 DEF Issued, TypeOK
      <4> QED
        BY <4>1 DEF Origins, NextPair
    <3>3. PairOrNil \subseteq PairOrNil' /\ NextPair \in PairOrNil'
      BY <3>0, <3>2, IssueAdds
    <3>4. refresh' = [refresh EXCEPT ![t][c] =
                [at |-> "issued", old |-> r.old, pair |-> NextPair]]
      BY <2>2 DEF Rotate, Exchange, RefreshRecords
    <3>5. [at |-> "issued", old |-> r.old, pair |-> NextPair] \in RefreshRecords'
      BY <2>0, <3>3 DEF RefreshRecords, RefreshPhases
    <3>6. refresh \in [Tabs -> [Calls -> RefreshRecords']]
      BY <3>3 DEF RefreshRecords
    <3>7. refresh' \in [Tabs -> [Calls -> RefreshRecords']]
      BY <3>4, <3>5, <3>6
    <3>8. call' \in [Tabs -> [Calls -> CallRecords']]
      BY <3>0, <3>3 DEF CallRecords
    <3>9. /\ issued' \in Seq([login : Nat, old : Nat])
          /\ rows' \subseteq Issued'
          /\ \A p \in Issued' : /\ issued'[p].login \in 1..p
                                /\ issued'[p].old \in 0..(p - 1)
          /\ stale' \in Nat /\ spent' \in Nat
          /\ stale' <= spent' /\ spent' <= Len(issued')
      BY <3>0, <3>2, IssueTypes
    <3> QED
      BY <3>0, <3>3, <3>7, <3>8, <3>9 DEF TypeOK, CallRecords, RefreshRecords
  <2>3. ASSUME NEW pair \in PairOrNil, SettleRefresh(t, c, pair) PROVE TypeOK'
    <3>1. PairOrNil' = PairOrNil /\ Issued' = Issued
      BY <2>3 DEF SettleRefresh, serverVars, PairOrNil, Issued
    <3>2. \A d \in Calls : Released(call[t][d], pair, pair) \in CallRecords
      <4> SUFFICES ASSUME NEW d \in Calls
                   PROVE  Released(call[t][d], pair, pair) \in CallRecords
        OBVIOUS
      <4> DEFINE k == call[t][d]
      <4>1. k \in CallRecords /\ Refused(k) \in CallRecords
        BY CallTypes
      <4>2. [k EXCEPT !.at = "resent", !.with = pair, !.on = NoCall] \in CallRecords
        BY <4>1 DEF CallRecords, CallPhases, NoCall
      <4> QED
        BY <4>1, <4>2 DEF Released
    <3>3. call' \in [Tabs -> [Calls -> CallRecords]]
      BY <2>3, <3>2 DEF SettleRefresh, Resume
    <3>4. NoRefresh \in RefreshRecords
      BY DEF NoRefresh, RefreshRecords, RefreshPhases
    <3>5. refresh' \in [Tabs -> [Calls -> RefreshRecords]]
      BY <2>3, <3>4 DEF SettleRefresh
    <3> QED
      BY <2>3, <3>1, <3>3, <3>5
         DEF SettleRefresh, serverVars, TypeOK, CallRecords, RefreshRecords
  <2> QED
    BY <1>4, <2>0, <2>1, <2>2, <2>3
       DEF RefreshStep, RefreshSucceeds, RefreshFails, RefreshRecords
<1>5. ASSUME NEW t \in Tabs, NEW c \in Calls, NEW kind \in Kinds,
             StartCall(t, c, kind)
      PROVE  TypeOK'
  <2>1. [Idle EXCEPT !.kind = kind, !.at = "sent", !.first = store, !.with = store]
            \in CallRecords
    BY DEF Idle, CallRecords, CallPhases, TypeOK, NoCall
  <2> QED
    BY <1>5, <2>1, CallStepTypes DEF StartCall, serverVars, TypeOK
<1>6. CASE UNCHANGED sessionVars
  BY <1>6 DEF sessionVars, serverVars, browserVars, TypeOK, Issued, PairOrNil
<1> QED
  BY <1>1, <1>2, <1>3, <1>4, <1>5, <1>6 DEF Next

-----------------------------------------------------------------------------
\* The rows and the pairs under way.

Fresh == OneRefresh /\ OneRowPerSession /\ RowsOfRefresh
            /\ StoreIsFresh /\ RefreshIsFresh /\ LoginIsFresh /\ RetryIsAuthorised

LEMMA InitFresh == Init => Fresh
BY DEF Init, Fresh, OneRefresh, OneRowPerSession, RowsOfRefresh, StoreIsFresh,
       RefreshIsFresh, LoginIsFresh, RetryIsAuthorised, UnderWay, HasLoggedIn,
       Idle, NoRefresh

\* A step of one call that issues nothing.
LEMMA CallStepFresh ==
    ASSUME TypeOK, Fresh, NEW t \in Tabs, NEW c \in Calls, NEW k \in CallRecords,
           SetCall(t, c, k), call[t][c].at # "waiting", rows' \subseteq rows, store' \in {store, Nil},
           UNCHANGED <<issued, refresh>>,
           k.first \in {call[t][c].first, store, Nil},
           k.at = "resent" => call[t][c] = k,
           k.kind = "login" /\ k.at = "served" => call[t][c] = k
    PROVE  Fresh'
<1> USE TablesTyped
<1>1. /\ call'[t][c] = k
      /\ \A u \in Tabs, d \in Calls : ~(u = t /\ d = c) => call'[u][d] = call[u][d]
  BY DEF SetCall
<1>2. Issued' = Issued /\ Exchanged' = Exchanged
  BY DEF Issued, Exchanged
<1>3. \A u \in Tabs, d \in Calls :
            call'[u][d].kind = "login" /\ call'[u][d].at = "served" =>
                call'[u][d] = call[u][d]
  BY <1>1
<1>4. OneRefresh'
  BY <1>1 DEF Fresh, OneRefresh, UnderWay
<1>5. OneRowPerSession' /\ RowsOfRefresh'
  BY <1>2 DEF Fresh, OneRowPerSession, RowsOfRefresh
<1>6. StoreIsFresh'
  BY <1>2 DEF Fresh, StoreIsFresh
<1>7. RefreshIsFresh'
  <2> SUFFICES ASSUME NEW u \in Tabs, NEW d \in Calls
               PROVE  /\ refresh[u][d].at \in {"sent", "read", "refused"} =>
                            refresh[u][d].old # Nil /\ refresh[u][d].old \notin Exchanged
                      /\ refresh[u][d].at = "issued" =>
                            /\ refresh[u][d].pair # Nil
                            /\ refresh[u][d].pair \notin Exchanged
                            /\ refresh[u][d].pair # store'
                            /\ \A v \in Tabs, e \in Calls :
                                    call'[v][e].first # refresh[u][d].pair
    BY <1>2 DEF RefreshIsFresh
  <2>1. /\ refresh[u][d].at \in {"sent", "read", "refused"} =>
                refresh[u][d].old # Nil /\ refresh[u][d].old \notin Exchanged
        /\ refresh[u][d].at = "issued" =>
                /\ refresh[u][d].pair # Nil /\ refresh[u][d].pair \notin Exchanged
                /\ refresh[u][d].pair # store
                /\ \A v \in Tabs, e \in Calls :
                        call[v][e].first # refresh[u][d].pair
    BY DEF Fresh, RefreshIsFresh
  <2> QED
    BY <1>1, <2>1
<1>8. LoginIsFresh'
  BY <1>2, <1>3 DEF Fresh, LoginIsFresh, HasLoggedIn, UnderWay
<1>9. RetryIsAuthorised'
  BY <1>1 DEF Fresh, RetryIsAuthorised
<1> QED
  BY <1>4, <1>5, <1>6, <1>7, <1>8, <1>9 DEF Fresh

\* A login gives the browser a new pair and the server a session of its own.
LEMMA LoginFresh ==
    ASSUME TypeOK, Fresh, NEW t \in Tabs, NEW c \in Calls,
           call[t][c].at # "waiting",
           Issue([login |-> NextPair, old |-> Nil], rows),
           SetCall(t, c, [Idle EXCEPT !.kind = "login", !.at = "served",
                                      !.pair = NextPair]),
           UNCHANGED <<store, refresh>>
    PROVE  Fresh'
<1> DEFINE origin == [login |-> NextPair, old |-> Nil]
           k == [Idle EXCEPT !.kind = "login", !.at = "served", !.pair = NextPair]
<1> USE TablesTyped
<1>1. origin \in Origins
  BY DEF Origins, NextPair, Nil
<1>2. /\ NextPair \in Nat /\ NextPair > Len(issued)
      /\ Issued' = Issued \cup {NextPair} /\ NextPair \notin Issued
      /\ \A p \in Issued : issued'[p] = issued[p]
      /\ issued'[NextPair] = origin
      /\ rows' \subseteq rows \cup {NextPair}
  BY <1>1, IssueAdds
<1>3. NextPair # Nil /\ \A p \in PairOrNil : p # NextPair
  BY <1>2 DEF PairOrNil, Nil
<1>4. /\ k.kind = "login" /\ k.at = "served" /\ k.pair = NextPair /\ k.first = Nil
  BY DEF Idle
<1>5. /\ call'[t][c] = k
      /\ \A u \in Tabs, d \in Calls : ~(u = t /\ d = c) => call'[u][d] = call[u][d]
  BY DEF SetCall
<1> HIDE DEF k
<1>6. Exchanged' = Exchanged \cup {Nil}
  BY <1>2 DEF Exchanged
<1>7. NextPair \notin Exchanged
  <2>1. \A q \in Issued : issued[q].old # NextPair
    BY <1>2 DEF TypeOK, Issued
  <2> QED
    BY <2>1 DEF Exchanged
<1>8. OneRefresh'
  BY <1>5 DEF Fresh, OneRefresh, UnderWay
<1>9. \A p \in Issued : issued'[p].login # NextPair
  <2> TAKE p \in Issued
  <2>1. p \in 1..Len(issued) /\ issued[p].login \in 1..p
    BY DEF TypeOK, Issued
  <2> QED
    BY <1>2, <2>1
<1>10. rows \subseteq Issued
  BY DEF TypeOK
<1>11. OneRowPerSession'
  BY <1>2, <1>9, <1>10 DEF Fresh, OneRowPerSession
<1>12. RowsOfRefresh'
  <2> SUFFICES ASSUME NEW u \in Tabs, NEW d \in Calls, refresh[u][d].at = "read"
               PROVE  /\ refresh[u][d].old \in Issued'
                      /\ \A p \in rows' :
                            issued'[p].login = issued'[refresh[u][d].old].login
                                => p = refresh[u][d].old
    BY DEF RowsOfRefresh
  <2>1. /\ refresh[u][d].old \in Issued
        /\ \A p \in rows : issued[p].login = issued[refresh[u][d].old].login
                               => p = refresh[u][d].old
    BY DEF Fresh, RowsOfRefresh
  <2>2. issued'[NextPair].login = NextPair
    BY <1>2
  <2> QED
    BY <1>2, <1>9, <1>10, <2>1, <2>2
<1>13. StoreIsFresh'
  BY <1>6 DEF Fresh, StoreIsFresh
<1>14. RefreshIsFresh'
  <2> SUFFICES ASSUME NEW u \in Tabs, NEW d \in Calls
               PROVE  /\ refresh[u][d].at \in {"sent", "read", "refused"} =>
                            refresh[u][d].old # Nil /\ refresh[u][d].old \notin Exchanged'
                      /\ refresh[u][d].at = "issued" =>
                            /\ refresh[u][d].pair # Nil
                            /\ refresh[u][d].pair \notin Exchanged'
                            /\ refresh[u][d].pair # store
                            /\ \A v \in Tabs, e \in Calls :
                                    call'[v][e].first # refresh[u][d].pair
    BY DEF RefreshIsFresh
  <2>1. /\ refresh[u][d].at \in {"sent", "read", "refused"} =>
                refresh[u][d].old # Nil /\ refresh[u][d].old \notin Exchanged
        /\ refresh[u][d].at = "issued" =>
                /\ refresh[u][d].pair # Nil /\ refresh[u][d].pair \notin Exchanged
                /\ refresh[u][d].pair # store
                /\ \A v \in Tabs, e \in Calls :
                        call[v][e].first # refresh[u][d].pair
    BY DEF Fresh, RefreshIsFresh
  <2> QED
    BY <1>4, <1>5, <1>6, <2>1
<1>15. LoginIsFresh'
  <2> SUFFICES ASSUME NEW u \in Tabs, NEW d \in Calls,
                      call'[u][d].kind = "login", call'[u][d].at = "served"
               PROVE  /\ call'[u][d].pair # Nil /\ call'[u][d].pair \notin Exchanged'
                      /\ call'[u][d].pair # store
                      /\ \A v \in Tabs, e \in Calls :
                        /\ (/\ call'[v][e].kind = "login" /\ call'[v][e].at = "served"
                            /\ call'[v][e].pair = call'[u][d].pair)
                                => v = u /\ e = d
                        /\ refresh[v][e].at # "none" =>
                                /\ refresh[v][e].old # call'[u][d].pair
                                /\ refresh[v][e].pair # call'[u][d].pair
    BY DEF LoginIsFresh, HasLoggedIn, UnderWay
  <2>1. \A v \in Tabs, e \in Calls :
            /\ call[v][e].pair \in PairOrNil
            /\ refresh[v][e].old \in PairOrNil /\ refresh[v][e].pair \in PairOrNil
    BY DEF CallRecords, RefreshRecords
  <2>2. store \in PairOrNil
    BY DEF TypeOK
  <2>3. CASE u = t /\ d = c
    BY <1>3, <1>4, <1>5, <1>6, <1>7, <2>1, <2>2, <2>3
  <2>4. CASE ~(u = t /\ d = c)
    BY <1>3, <1>4, <1>5, <1>6, <2>1, <2>4
       DEF Fresh, LoginIsFresh, HasLoggedIn, UnderWay
  <2> QED
    BY <2>3, <2>4
<1>16. RetryIsAuthorised'
  BY <1>4, <1>5 DEF Fresh, RetryIsAuthorised
<1> QED
  BY <1>8, <1>11, <1>12, <1>13, <1>14, <1>15, <1>16 DEF Fresh

\* A call that was refused waits for a refresh, which it may begin.
LEMMA JoinFresh ==
    ASSUME TypeOK, Fresh, OneTab, NEW t \in Tabs, NEW c \in Calls, JoinRefresh(t, c)
    PROVE  Fresh'
<1> DEFINE fresh == [NoRefresh EXCEPT !.at = "sent", !.old = store]
<1> USE TablesTyped
<1>1. PICK d \in Calls :
        /\ WaitFor(t, c, d)
        /\ \/ refresh[t][d].at # "none"
           \/ d = c /\ \A e \in Calls : refresh[t][e].at = "none"
  BY DEF JoinRefresh
<1> DEFINE k == [call[t][c] EXCEPT !.at = "waiting", !.on = d]
<1>2. /\ call[t][c].at = "denied" /\ store # Nil /\ SetCall(t, c, k)
      /\ UNCHANGED <<rows, issued, store>>
      /\ refresh' = IF c = d THEN [refresh EXCEPT ![t][c] = fresh] ELSE refresh
  BY <1>1 DEF WaitFor, serverVars
<1>3. /\ k \in CallRecords /\ k.at = "waiting" /\ k.first = call[t][c].first
  <2>1. call[t][c] \in CallRecords
    OBVIOUS
  <2> QED
    BY <2>1 DEF CallRecords, CallPhases
<1>4. /\ fresh.at = "sent" /\ fresh.old = store /\ fresh.pair = Nil
  BY DEF NoRefresh
<1>5. CASE c # d
  BY <1>2, <1>3, <1>5, CallStepFresh
<1>6. CASE c = d
  <2>1. \A e \in Calls : refresh[t][e].at = "none"
    BY <1>1, <1>2, <1>6 DEF Fresh, OneRefresh, UnderWay
  <2>2. \A u \in Tabs, e \in Calls : refresh[u][e].at = "none"
    BY <2>1 DEF OneTab
  <2>3. /\ call'[t][c] = k
        /\ \A u \in Tabs, e \in Calls : ~(u = t /\ e = c) => call'[u][e] = call[u][e]
    BY <1>2 DEF SetCall
  <2>4. /\ refresh'[t][c] = fresh
        /\ \A u \in Tabs, e \in Calls :
            ~(u = t /\ e = c) => refresh'[u][e] = refresh[u][e]
    BY <1>2, <1>6
  <2>5. Issued' = Issued /\ Exchanged' = Exchanged
    BY <1>2 DEF Issued, Exchanged
  <2>6. store \notin Exchanged
    BY <1>2, <2>2 DEF Fresh, StoreIsFresh
  <2> HIDE DEF k, fresh
  <2>7. OneRefresh'
    <3>1. \A u \in Tabs, e \in Calls : refresh'[u][e].at # "none" => u = t /\ e = c
      BY <2>2, <2>4
    <3> QED
      BY <1>3, <2>3, <3>1 DEF OneRefresh, UnderWay
  <2>8. OneRowPerSession'
    BY <1>2, <2>5 DEF Fresh, OneRowPerSession
  <2>9. RowsOfRefresh'
    BY <1>4, <2>2, <2>4 DEF RowsOfRefresh
  <2>10. StoreIsFresh'
    BY <1>2, <2>5, <2>6 DEF StoreIsFresh
  <2>11. RefreshIsFresh'
    <3> SUFFICES ASSUME NEW u \in Tabs, NEW e \in Calls
                 PROVE  /\ refresh'[u][e].at \in {"sent", "read", "refused"} =>
                            /\ refresh'[u][e].old # Nil
                            /\ refresh'[u][e].old \notin Exchanged
                        /\ refresh'[u][e].at # "issued"
      BY <2>5 DEF RefreshIsFresh
    <3> QED
      BY <1>2, <1>4, <2>2, <2>4, <2>6
  <2>12. LoginIsFresh'
    <3> SUFFICES ASSUME NEW u \in Tabs, NEW e \in Calls,
                        call'[u][e].kind = "login", call'[u][e].at = "served"
                 PROVE  /\ call'[u][e].pair # Nil /\ call'[u][e].pair \notin Exchanged
                        /\ call'[u][e].pair # store
                        /\ \A v \in Tabs, f \in Calls :
                            /\ (/\ call'[v][f].kind = "login" /\ call'[v][f].at = "served"
                                /\ call'[v][f].pair = call'[u][e].pair)
                                    => v = u /\ f = e
                            /\ refresh'[v][f].at # "none" =>
                                    /\ refresh'[v][f].old # call'[u][e].pair
                                    /\ refresh'[v][f].pair # call'[u][e].pair
      BY <1>2, <2>5 DEF LoginIsFresh, HasLoggedIn, UnderWay
    <3>1. call'[u][e] = call[u][e]
      BY <1>3, <2>3
    <3>2. HasLoggedIn(u, e)
      BY <3>1 DEF HasLoggedIn
    <3>3. /\ call[u][e].pair # Nil /\ call[u][e].pair \notin Exchanged
          /\ call[u][e].pair # store
          /\ \A v \in Tabs, f \in Calls :
              /\ HasLoggedIn(v, f) /\ call[v][f].pair = call[u][e].pair
                      => v = u /\ f = e
              /\ UnderWay(v, f) => /\ refresh[v][f].old # call[u][e].pair
                                   /\ refresh[v][f].pair # call[u][e].pair
      BY <3>2 DEF Fresh, LoginIsFresh
    <3> QED
      BY <1>3, <1>4, <2>2, <2>3, <2>4, <3>1, <3>3 DEF HasLoggedIn, UnderWay
  <2>13. RetryIsAuthorised'
    BY <1>3, <2>3 DEF Fresh, RetryIsAuthorised
  <2> QED
    BY <2>7, <2>8, <2>9, <2>10, <2>11, <2>12, <2>13 DEF Fresh
<1> QED
  BY <1>5, <1>6

\* The server reads the row that a refresh names.
LEMMA ReadFresh ==
    ASSUME TypeOK, Fresh, NEW t \in Tabs, NEW c \in Calls, ReadRefreshRow(t, c)
    PROVE  Fresh'
<1> DEFINE r == refresh[t][c]
<1> USE TablesTyped
<1>1. /\ r.at = "sent" /\ r \in RefreshRecords
      /\ UNCHANGED <<issued, store, call>> /\ rows' \subseteq rows
  BY DEF ReadRefreshRow, RefreshRecords
<1>2. PICK at \in {"read", "refused"} :
        /\ refresh' = [refresh EXCEPT ![t][c] = [r EXCEPT !.at = at]]
        /\ at = "read" => r.old \in rows
  BY DEF ReadRefreshRow
<1> DEFINE q == [r EXCEPT !.at = at]
<1>3. q.at = at /\ q.old = r.old /\ q.pair = r.pair
  BY <1>1 DEF RefreshRecords
<1>4. /\ refresh'[t][c] = q
      /\ \A u \in Tabs, e \in Calls :
            ~(u = t /\ e = c) => refresh'[u][e] = refresh[u][e]
  BY <1>2
<1>5. Issued' = Issued /\ Exchanged' = Exchanged /\ rows \subseteq Issued
  BY <1>1 DEF Issued, Exchanged, TypeOK
<1> HIDE DEF q
<1>6. OneRefresh'
  <2>1. \A u \in Tabs, d \in Calls :
            refresh'[u][d].at # "none" => refresh[u][d].at # "none"
    BY <1>1, <1>4
  <2> QED
    BY <1>1, <2>1 DEF Fresh, OneRefresh, UnderWay
<1>7. OneRowPerSession'
  BY <1>1, <1>5 DEF Fresh, OneRowPerSession
<1>8. RowsOfRefresh'
  <2> SUFFICES ASSUME NEW u \in Tabs, NEW d \in Calls, refresh'[u][d].at = "read"
               PROVE  /\ refresh'[u][d].old \in Issued
                      /\ \A p \in rows' :
                            issued[p].login = issued[refresh'[u][d].old].login
                                => p = refresh'[u][d].old
    BY <1>1, <1>5 DEF RowsOfRefresh
  <2>1. CASE u = t /\ d = c
    BY <1>1, <1>2, <1>3, <1>4, <1>5, <2>1 DEF Fresh, OneRowPerSession
  <2>2. CASE ~(u = t /\ d = c)
    BY <1>1, <1>4, <2>2 DEF Fresh, RowsOfRefresh
  <2> QED
    BY <2>1, <2>2
<1>9. StoreIsFresh'
  BY <1>1, <1>4, <1>5 DEF Fresh, StoreIsFresh
<1>10. RefreshIsFresh'
  <2> SUFFICES ASSUME NEW u \in Tabs, NEW d \in Calls
               PROVE  /\ refresh'[u][d].at \in {"sent", "read", "refused"} =>
                            /\ refresh'[u][d].old # Nil
                            /\ refresh'[u][d].old \notin Exchanged
                      /\ refresh'[u][d].at = "issued" =>
                            /\ refresh'[u][d].pair # Nil
                            /\ refresh'[u][d].pair \notin Exchanged
                            /\ refresh'[u][d].pair # store
                            /\ \A v \in Tabs, e \in Calls :
                                    call[v][e].first # refresh'[u][d].pair
    BY <1>1, <1>5 DEF RefreshIsFresh
  <2>1. CASE u = t /\ d = c
    BY <1>1, <1>2, <1>3, <1>4, <2>1 DEF Fresh, RefreshIsFresh
  <2>2. CASE ~(u = t /\ d = c)
    BY <1>4, <2>2 DEF Fresh, RefreshIsFresh
  <2> QED
    BY <2>1, <2>2
<1>11. \A u \in Tabs, d \in Calls :
        /\ refresh'[u][d].old = refresh[u][d].old
        /\ refresh'[u][d].pair = refresh[u][d].pair
        /\ refresh'[u][d].at # "none" => refresh[u][d].at # "none"
  BY <1>1, <1>3, <1>4
<1>12. LoginIsFresh'
  BY <1>1, <1>5, <1>11 DEF Fresh, LoginIsFresh, HasLoggedIn, UnderWay
<1>13. RetryIsAuthorised'
  BY <1>1 DEF Fresh, RetryIsAuthorised
<1> QED
  BY <1>6, <1>7, <1>8, <1>9, <1>10, <1>12, <1>13 DEF Fresh

\* The server exchanges a pair for the next one.
LEMMA RotateFresh ==
    ASSUME TypeOK, Fresh, NEW t \in Tabs, NEW c \in Calls, Rotate(t, c)
    PROVE  Fresh'
<1> DEFINE r == refresh[t][c]
           origin == [login |-> issued[r.old].login, old |-> r.old]
           q == [at |-> "issued", old |-> r.old, pair |-> NextPair]
<1> USE TablesTyped
<1>1. /\ r.at = "read" /\ Issue(origin, rows \ {r.old})
      /\ refresh' = [refresh EXCEPT ![t][c] = q] /\ UNCHANGED <<store, call>>
  BY DEF Rotate, Exchange
<1>2. /\ r.old \in Issued
      /\ \A p \in rows : issued[p].login = issued[r.old].login => p = r.old
      /\ r.old # Nil /\ r.old \notin Exchanged
  BY <1>1 DEF Fresh, RowsOfRefresh, RefreshIsFresh
<1>3. origin \in Origins
  <2>1. r.old \in 1..Len(issued) /\ issued[r.old].login \in 1..r.old
    BY <1>2 DEF Issued, TypeOK
  <2> QED
    BY <2>1 DEF Origins
<1>4. /\ NextPair \in Nat /\ NextPair > Len(issued)
      /\ Issued' = Issued \cup {NextPair} /\ NextPair \notin Issued
      /\ \A p \in Issued : issued'[p] = issued[p]
      /\ issued'[NextPair] = origin
      /\ rows' \subseteq (rows \ {r.old}) \cup {NextPair}
  BY <1>1, <1>3, IssueAdds
<1>5. NextPair # Nil /\ \A p \in PairOrNil : p # NextPair
  BY <1>4 DEF PairOrNil, Nil
<1>6. Exchanged' = Exchanged \cup {r.old}
  <2>1. origin.old = r.old
    OBVIOUS
  <2>2. Exchanged' = {issued'[p].old : p \in Issued'}
    BY DEF Exchanged
  <2> HIDE DEF origin
  <2> QED
    BY <1>4, <2>1, <2>2 DEF Exchanged
<1>7. NextPair \notin Exchanged /\ r.old # NextPair
  <2>1. \A p \in Issued : issued[p].old # NextPair
    BY <1>4 DEF TypeOK, Issued
  <2> QED
    BY <1>2, <1>4, <2>1 DEF Exchanged
<1>8. /\ q.at = "issued" /\ q.old = r.old /\ q.pair = NextPair
      /\ refresh'[t][c] = q
      /\ \A u \in Tabs, d \in Calls :
            ~(u = t /\ d = c) => refresh'[u][d] = refresh[u][d]
  BY <1>1
<1> HIDE DEF q
<1>9. /\ call[t][c].at = "waiting"
      /\ \A u \in Tabs, d \in Calls :
            ~(u = t /\ d = c) => refresh[u][d].at = "none"
  BY <1>1 DEF Fresh, OneRefresh, UnderWay
<1>10. OneRefresh'
  BY <1>1, <1>8, <1>9 DEF OneRefresh, UnderWay
<1>11. OneRowPerSession'
  <2>1. rows \subseteq Issued
    BY DEF TypeOK
  <2>2. \A p \in rows \ {r.old} : issued'[p].login # issued'[NextPair].login
    BY <1>2, <1>4, <2>1
  <2> QED
    BY <1>4, <2>1, <2>2 DEF Fresh, OneRowPerSession
<1>12. RowsOfRefresh'
  BY <1>8, <1>9 DEF RowsOfRefresh
<1>13. StoreIsFresh'
  BY <1>1, <1>6, <1>8, <1>9 DEF Fresh, StoreIsFresh
<1>14. /\ store \in PairOrNil
       /\ \A u \in Tabs, d \in Calls :
            /\ call[u][d].first \in PairOrNil /\ call[u][d].pair \in PairOrNil
            /\ refresh[u][d].pair \in PairOrNil
  BY DEF TypeOK, CallRecords, RefreshRecords
<1>15. RefreshIsFresh'
  <2> SUFFICES ASSUME NEW u \in Tabs, NEW d \in Calls
               PROVE  /\ refresh'[u][d].at \notin {"sent", "read", "refused"}
                      /\ refresh'[u][d].at = "issued" =>
                            /\ refresh'[u][d].pair # Nil
                            /\ refresh'[u][d].pair \notin Exchanged'
                            /\ refresh'[u][d].pair # store
                            /\ \A v \in Tabs, e \in Calls :
                                    call[v][e].first # refresh'[u][d].pair
    BY <1>1 DEF RefreshIsFresh
  <2> QED
    BY <1>5, <1>6, <1>7, <1>8, <1>9, <1>14
<1>16. LoginIsFresh'
  <2> SUFFICES ASSUME NEW u \in Tabs, NEW e \in Calls,
                      call[u][e].kind = "login", call[u][e].at = "served"
               PROVE  /\ call[u][e].pair # Nil /\ call[u][e].pair \notin Exchanged'
                      /\ call[u][e].pair # store
                      /\ \A v \in Tabs, f \in Calls :
                            /\ (/\ call[v][f].kind = "login" /\ call[v][f].at = "served"
                                /\ call[v][f].pair = call[u][e].pair)
                                    => v = u /\ f = e
                            /\ refresh'[v][f].at # "none" =>
                                    /\ refresh'[v][f].old # call[u][e].pair
                                    /\ refresh'[v][f].pair # call[u][e].pair
    BY <1>1 DEF LoginIsFresh, HasLoggedIn, UnderWay
  <2>1. /\ call[u][e].pair # Nil /\ call[u][e].pair \notin Exchanged
        /\ call[u][e].pair # store
        /\ \A v \in Tabs, f \in Calls :
            (/\ call[v][f].kind = "login" /\ call[v][f].at = "served"
             /\ call[v][f].pair = call[u][e].pair) => v = u /\ f = e
        /\ call[u][e].pair # r.old
    BY <1>1 DEF Fresh, LoginIsFresh, HasLoggedIn, UnderWay
  <2>2. \A v \in Tabs, f \in Calls : refresh'[v][f].at # "none" =>
            refresh'[v][f].old = r.old /\ refresh'[v][f].pair = NextPair
    BY <1>8, <1>9
  <2>3. call[u][e].pair # NextPair
    BY <1>5, <1>14
  <2> QED
    BY <1>6, <2>1, <2>2, <2>3
<1>17. RetryIsAuthorised'
  BY <1>1 DEF Fresh, RetryIsAuthorised
<1> QED
  BY <1>10, <1>11, <1>12, <1>13, <1>15, <1>16, <1>17 DEF Fresh

\* A refresh settles: the calls that waited go on.
LEMMA SettleFresh ==
    ASSUME TypeOK, Fresh, NEW t \in Tabs, NEW c \in Calls, UnderWay(t, c),
           NEW pair, SettleRefresh(t, c, pair),
           \/ pair = Nil
           \/ refresh[t][c].at = "issued" /\ pair = refresh[t][c].pair
    PROVE  Fresh'
<1> USE TablesTyped
<1>1. /\ UNCHANGED <<rows, issued>> /\ store' = pair
      /\ refresh' = [refresh EXCEPT ![t][c] = NoRefresh]
  BY DEF SettleRefresh, serverVars
<1>2. Issued' = Issued /\ Exchanged' = Exchanged
  BY <1>1 DEF Issued, Exchanged
<1>3. \A u \in Tabs, d \in Calls : refresh'[u][d].at = "none"
  BY <1>1 DEF Fresh, OneRefresh, UnderWay, NoRefresh
<1>4. \A u \in Tabs, d \in Calls :
        \/ call'[u][d] = call[u][d]
        \/ call'[u][d] = Released(call[u][d], pair, pair)
  BY DEF SettleRefresh, Resume
<1>5. \A u \in Tabs, d \in Calls :
        LET k == Released(call[u][d], pair, pair) IN
        /\ ~(k.kind = "login" /\ k.at = "served")
        /\ k.at = "resent" => /\ pair # Nil /\ k.with = pair
                              /\ k.first = call[u][d].first
  <2> SUFFICES ASSUME NEW u \in Tabs, NEW d \in Calls
               PROVE  LET k == Released(call[u][d], pair, pair) IN
                      /\ ~(k.kind = "login" /\ k.at = "served")
                      /\ k.at = "resent" => /\ pair # Nil /\ k.with = pair
                                            /\ k.first = call[u][d].first
    OBVIOUS
  <2> DEFINE k == call[u][d]
             s == [k EXCEPT !.at = "resent", !.with = pair, !.on = NoCall]
  <2>0. k \in CallRecords
    OBVIOUS
  <2>1. s.at = "resent" /\ s.with = pair /\ s.first = k.first
    BY <2>0 DEF CallRecords
  <2>2. Refused(k).at \notin {"served", "resent"}
    BY DEF Refused, Idle
  <2> HIDE DEF s
  <2>3. Released(k, pair, pair) = IF pair = Nil THEN Refused(k) ELSE s
    BY DEF Released, s
  <2> QED
    BY <2>1, <2>2, <2>3
<1>6. OneRefresh'
  BY <1>3 DEF OneRefresh, UnderWay
<1>7. OneRowPerSession' /\ RowsOfRefresh'
  BY <1>1, <1>2, <1>3 DEF Fresh, OneRowPerSession, RowsOfRefresh
<1>8. pair # Nil => /\ pair \notin Exchanged
                    /\ \A u \in Tabs, d \in Calls : call[u][d].first # pair
  BY DEF Fresh, RefreshIsFresh
<1>9. StoreIsFresh'
  BY <1>1, <1>2, <1>8 DEF StoreIsFresh
<1>10. RefreshIsFresh'
  BY <1>3 DEF RefreshIsFresh
<1>11. LoginIsFresh'
  <2> SUFFICES ASSUME NEW u \in Tabs, NEW e \in Calls,
                      call'[u][e].kind = "login", call'[u][e].at = "served"
               PROVE  /\ call'[u][e].pair # Nil /\ call'[u][e].pair \notin Exchanged
                      /\ call'[u][e].pair # pair
                      /\ \A v \in Tabs, f \in Calls :
                            (/\ call'[v][f].kind = "login" /\ call'[v][f].at = "served"
                             /\ call'[v][f].pair = call'[u][e].pair)
                                    => v = u /\ f = e
    BY <1>1, <1>2, <1>3 DEF LoginIsFresh, HasLoggedIn, UnderWay
  <2>1. \A v \in Tabs, f \in Calls :
            call'[v][f].kind = "login" /\ call'[v][f].at = "served" =>
                call'[v][f] = call[v][f]
    BY <1>4, <1>5
  <2>2. /\ call[u][e].pair # Nil /\ call[u][e].pair \notin Exchanged
        /\ call[u][e].pair # refresh[t][c].pair
        /\ \A v \in Tabs, f \in Calls :
            (/\ call[v][f].kind = "login" /\ call[v][f].at = "served"
             /\ call[v][f].pair = call[u][e].pair) => v = u /\ f = e
    BY <2>1 DEF Fresh, LoginIsFresh, HasLoggedIn, UnderWay
  <2>3. call'[u][e] = call[u][e]
    BY <2>1
  <2>4. /\ call'[u][e].pair # Nil /\ call'[u][e].pair \notin Exchanged
        /\ call'[u][e].pair # pair
    BY <1>3, <2>2, <2>3
  <2>5. ASSUME NEW v \in Tabs, NEW f \in Calls,
               call'[v][f].kind = "login", call'[v][f].at = "served",
               call'[v][f].pair = call'[u][e].pair
        PROVE  v = u /\ f = e
    BY <2>1, <2>2, <2>3, <2>5
  <2> QED
    BY <2>4, <2>5
<1>12. RetryIsAuthorised'
  <2> SUFFICES ASSUME NEW u \in Tabs, NEW d \in Calls, call'[u][d].at = "resent"
               PROVE  call'[u][d].with # call'[u][d].first
    BY DEF RetryIsAuthorised
  <2>1. CASE call'[u][d] = call[u][d]
    BY <2>1 DEF Fresh, RetryIsAuthorised
  <2>2. CASE call'[u][d] = Released(call[u][d], pair, pair)
    <3>1. Released(call[u][d], pair, pair).at = "resent"
      BY <2>2
    <3>2. /\ pair # Nil
          /\ Released(call[u][d], pair, pair).with = pair
          /\ Released(call[u][d], pair, pair).first = call[u][d].first
      BY <1>5, <3>1
    <3>3. call[u][d].first # pair
      BY <1>8, <3>2
    <3> QED
      BY <2>2, <3>2, <3>3
  <2> QED
    BY <1>4, <2>1, <2>2
<1> QED
  BY <1>6, <1>7, <1>9, <1>10, <1>11, <1>12 DEF Fresh

\* The browser keeps the pair of a login.
LEMMA EndLoginFresh ==
    ASSUME TypeOK, Fresh, NEW t \in Tabs, NEW c \in Calls, EndLogin(t, c)
    PROVE  Fresh'
<1> USE TablesTyped
<1>1. /\ call[t][c].at # "waiting" /\ SetCall(t, c, Idle)
      /\ UNCHANGED <<rows, issued, refresh>>
  BY DEF EndLogin, Ends, serverVars
<1>2. Idle \in CallRecords /\ Idle.at = "idle" /\ Idle.first = Nil
  BY DEF Idle, CallRecords, Kinds, CallPhases, NoCall
<1>3. CASE ~HasLoggedIn(t, c)
  BY <1>1, <1>2, <1>3, CallStepFresh DEF EndLogin, HasLoggedIn
<1>4. CASE HasLoggedIn(t, c)
  <2> DEFINE p == call[t][c].pair
  <2>1. /\ call'[t][c] = Idle
        /\ \A u \in Tabs, d \in Calls : ~(u = t /\ d = c) => call'[u][d] = call[u][d]
    BY <1>1 DEF SetCall
  <2>2. Issued' = Issued /\ Exchanged' = Exchanged
    BY <1>1 DEF Issued, Exchanged
  <2>3. /\ store' = p /\ p # Nil /\ p \notin Exchanged
        /\ \A u \in Tabs, d \in Calls :
            /\ HasLoggedIn(u, d) /\ call[u][d].pair = p => u = t /\ d = c
            /\ UnderWay(u, d) => refresh[u][d].pair # p
    BY <1>4 DEF EndLogin, HasLoggedIn, Fresh, LoginIsFresh
  <2>4. OneRefresh'
    BY <1>1, <2>1 DEF Fresh, OneRefresh, UnderWay
  <2>5. OneRowPerSession' /\ RowsOfRefresh'
    BY <1>1, <2>2 DEF Fresh, OneRowPerSession, RowsOfRefresh
  <2>6. StoreIsFresh'
    BY <2>2, <2>3 DEF StoreIsFresh
  <2>7. RefreshIsFresh'
    <3> SUFFICES ASSUME NEW u \in Tabs, NEW d \in Calls
                 PROVE  /\ refresh[u][d].at \in {"sent", "read", "refused"} =>
                            refresh[u][d].old # Nil /\ refresh[u][d].old \notin Exchanged
                        /\ refresh[u][d].at = "issued" =>
                            /\ refresh[u][d].pair # Nil
                            /\ refresh[u][d].pair \notin Exchanged
                            /\ refresh[u][d].pair # p
                            /\ \A v \in Tabs, e \in Calls :
                                    call'[v][e].first # refresh[u][d].pair
      BY <1>1, <2>2, <2>3 DEF RefreshIsFresh
    <3>1. /\ refresh[u][d].at \in {"sent", "read", "refused"} =>
                refresh[u][d].old # Nil /\ refresh[u][d].old \notin Exchanged
          /\ refresh[u][d].at = "issued" =>
                /\ refresh[u][d].pair # Nil /\ refresh[u][d].pair \notin Exchanged
                /\ \A v \in Tabs, e \in Calls :
                        call[v][e].first # refresh[u][d].pair
      BY DEF Fresh, RefreshIsFresh
    <3> QED
      BY <1>2, <2>1, <2>3, <3>1 DEF UnderWay
  <2>8. LoginIsFresh'
    <3> SUFFICES ASSUME NEW u \in Tabs, NEW e \in Calls,
                        call'[u][e].kind = "login", call'[u][e].at = "served"
                 PROVE  /\ call'[u][e].pair # Nil /\ call'[u][e].pair \notin Exchanged
                        /\ call'[u][e].pair # p
                        /\ \A v \in Tabs, f \in Calls :
                            /\ (/\ call'[v][f].kind = "login" /\ call'[v][f].at = "served"
                                /\ call'[v][f].pair = call'[u][e].pair)
                                    => v = u /\ f = e
                            /\ refresh[v][f].at # "none" =>
                                    /\ refresh[v][f].old # call'[u][e].pair
                                    /\ refresh[v][f].pair # call'[u][e].pair
      BY <1>1, <2>2, <2>3 DEF LoginIsFresh, HasLoggedIn, UnderWay
    <3>1. /\ ~(u = t /\ e = c) /\ call'[u][e] = call[u][e]
          /\ \A v \in Tabs, f \in Calls :
                call'[v][f].at = "served" => call'[v][f] = call[v][f]
      BY <1>2, <2>1
    <3>2. call[u][e].pair # p
      BY <2>3, <3>1 DEF HasLoggedIn
    <3> QED
      BY <3>1, <3>2 DEF Fresh, LoginIsFresh, HasLoggedIn, UnderWay
  <2>9. RetryIsAuthorised'
    BY <1>2, <2>1 DEF Fresh, RetryIsAuthorised
  <2> QED
    BY <2>4, <2>5, <2>6, <2>7, <2>8, <2>9 DEF Fresh
<1> QED
  BY <1>3, <1>4

-----------------------------------------------------------------------------
LEMMA QuietFresh ==
    ASSUME Fresh, UNCHANGED <<rows, issued, store, call, refresh>>
    PROVE  Fresh'
BY DEF Fresh, OneRefresh, OneRowPerSession, RowsOfRefresh, StoreIsFresh,
       RefreshIsFresh, LoginIsFresh, RetryIsAuthorised, UnderWay, HasLoggedIn,
       Exchanged, Issued

LEMMA NextFresh ==
    ASSUME OneTab, TypeOK, Fresh, [Next]_sessionVars PROVE Fresh'
<1> USE TablesTyped
<1>0. /\ Idle \in CallRecords /\ Idle.at = "idle" /\ Idle.first = Nil
  BY DEF Idle, CallRecords, Kinds, CallPhases, NoCall
<1>1. CASE AccessExpires
  BY <1>1, QuietFresh DEF AccessExpires, browserVars
<1>2. CASE RefreshExpires
  BY <1>2, QuietFresh DEF RefreshExpires, browserVars
<1>3. ASSUME NEW t \in Tabs, NEW c \in Calls, CallStep(t, c) PROVE Fresh'
  <2> DEFINE k == call[t][c]
  <2>0. k \in CallRecords /\ Denied(k) \in CallRecords
    BY CallTypes
  <2>1. k.at \in {"sent", "resent"} =>
            /\ Denied(k).at \notin {"resent", "served"}
            /\ Denied(k).first \in {k.first, Nil}
    BY <2>0 DEF Denied, Refused, Idle, CallRecords
  <2>2. CASE ServeApi(t, c)
    BY <1>0, <2>0, <2>1, <2>2, CallStepFresh DEF ServeApi, serverVars
  <2>3. CASE ServeLogout(t, c)
    <3> DEFINE s == [k EXCEPT !.at = "served", !.with = Nil]
    <3>1. s \in CallRecords /\ s.at = "served" /\ s.kind = k.kind /\ s.first = k.first
      BY <2>0 DEF CallRecords, CallPhases
    <3>2. /\ rows' \subseteq rows /\ UNCHANGED <<issued, store, refresh>>
          /\ k.kind = "logout" /\ k.at \in {"sent", "resent"}
          /\ SetCall(t, c, s) \/ SetCall(t, c, Denied(k))
      BY <2>3 DEF ServeLogout
    <3> HIDE DEF s
    <3>3. CASE SetCall(t, c, s)
      BY <3>1, <3>2, <3>3, CallStepFresh
    <3>4. CASE SetCall(t, c, Denied(k))
      BY <2>0, <2>1, <3>2, <3>4, CallStepFresh
    <3> QED
      BY <3>2, <3>3, <3>4
  <2>4. CASE ServeLogin(t, c)
    <3>1. CASE UNCHANGED <<rows, issued>> /\ SetCall(t, c, Denied(k))
      BY <2>0, <2>1, <2>4, <3>1, CallStepFresh DEF ServeLogin
    <3>2. CASE /\ Issue([login |-> NextPair, old |-> Nil], rows)
               /\ SetCall(t, c, [Idle EXCEPT !.kind = "login", !.at = "served",
                                             !.pair = NextPair])
      BY <2>4, <3>2, LoginFresh DEF ServeLogin
    <3> QED
      BY <2>4, <3>1, <3>2 DEF ServeLogin
  <2>5. CASE JoinRefresh(t, c)
    BY <2>5, JoinFresh
  <2>6. CASE EndApi(t, c)
    BY <1>0, <2>6, CallStepFresh DEF EndApi, Ends, serverVars
  <2>7. CASE EndLogin(t, c)
    BY <2>7, EndLoginFresh
  <2>8. CASE EndLogout(t, c)
    BY <1>0, <2>8, CallStepFresh DEF EndLogout, Ends, serverVars
  <2> QED
    BY <1>3, <2>2, <2>3, <2>4, <2>5, <2>6, <2>7, <2>8 DEF CallStep
<1>4. ASSUME NEW t \in Tabs, NEW c \in Calls, RefreshStep(t, c) PROVE Fresh'
  <2>1. CASE RefreshSucceeds(t, c)
    BY <2>1, SettleFresh DEF RefreshSucceeds, UnderWay
  <2>2. CASE RefreshFails(t, c)
    BY <2>2, SettleFresh DEF RefreshFails, UnderWay
  <2> QED
    BY <1>4, <2>1, <2>2, ReadFresh, RotateFresh DEF RefreshStep
<1>5. ASSUME NEW t \in Tabs, NEW c \in Calls, NEW kind \in Kinds,
             StartCall(t, c, kind)
      PROVE  Fresh'
  <2> DEFINE s == [Idle EXCEPT !.kind = kind, !.at = "sent",
                               !.first = store, !.with = store]
  <2>1. s \in CallRecords /\ s.at = "sent" /\ s.first = store
    BY DEF Idle, CallRecords, CallPhases, TypeOK, NoCall
  <2>2. /\ call[t][c].at = "idle" /\ SetCall(t, c, s)
        /\ UNCHANGED <<rows, issued, store, refresh>>
    BY <1>0, <1>5 DEF StartCall, serverVars
  <2> HIDE DEF s
  <2> QED
    BY <2>1, <2>2, CallStepFresh
<1>6. CASE UNCHANGED sessionVars
  BY <1>6, QuietFresh DEF sessionVars, serverVars, browserVars
<1> QED
  BY <1>1, <1>2, <1>3, <1>4, <1>5, <1>6 DEF Next

LEMMA FreshSuffices == TypeOK /\ Fresh => SessionInv /\ NoTokenPresentedTwice
<1>1. TypeOK /\ Fresh => SessionInv
  BY DEF Fresh, SessionInv
<1>2. Fresh => NoTokenPresentedTwice
  BY DEF Fresh, RefreshIsFresh, Exchanged, NoTokenPresentedTwice
<1> QED
  BY <1>1, <1>2

LEMMA SessionSafety ==
    ASSUME OneTab PROVE Spec => [](SessionInv /\ NoTokenPresentedTwice)
<1>1. Init => TypeOK /\ Fresh
  BY InitTypes, InitFresh
<1>2. (TypeOK /\ Fresh) /\ [Next]_sessionVars => (TypeOK /\ Fresh)'
  BY NextTypes, NextFresh DEF Fresh
<1> QED
  BY <1>1, <1>2, FreshSuffices, PTL DEF Spec

\* The inductive invariant holds, for a browser with one tab.
THEOREM SessionInvHolds == ASSUME OneTab PROVE Spec => []SessionInv
BY SessionSafety, PTL

\* Rotation never leaves a session two rows (refresh_view, with the one refresh
\* a tab has under way).
THEOREM SessionsHaveOneRow == ASSUME OneTab PROVE Spec => []OneRowPerSession
<1>1. SessionInv => OneRowPerSession
  BY DEF SessionInv
<1> QED
  BY <1>1, SessionInvHolds, PTL

\* A tab presents no refresh token twice, however many of its calls fail
\* together and whatever answers are lost (refreshInflight).
THEOREM TokensArePresentedOnce == ASSUME OneTab PROVE Spec => []NoTokenPresentedTwice
BY SessionSafety, PTL

\* A call that failed is repeated with another pair than it was first sent with
\* (call(), which makes its headers anew).
THEOREM RetriesAreAuthorised == ASSUME OneTab PROVE Spec => []RetryIsAuthorised
<1>1. SessionInv => RetryIsAuthorised
  BY DEF SessionInv
<1> QED
  BY <1>1, SessionInvHolds, PTL

-----------------------------------------------------------------------------
\* The pages in front of the session.

\* A step of the shell is one of the session's, or leaves the session alone.
LEMMA ShellStepsSession ==
    ASSUME [ShellNext]_<<sessionVars, shellVars>> PROVE [Next]_sessionVars
<1>1. \A t \in Tabs, c \in Calls, kind \in Kinds : StartCall(t, c, kind) => Next
  BY DEF Next
<1>2. \A t \in Tabs, c \in Calls : CallStep(t, c) \/ RefreshStep(t, c) => Next
  BY DEF Next
<1>3. ASSUME NEW t \in Tabs, NEW c \in Calls,
             Submit(t, c) \/ LoginEnds(t, c) \/ Ask(t, c) \/ Behind(t, c)
      PROVE  Next
  <2>1. CASE Submit(t, c)
    BY <1>1, <2>1 DEF Submit, Kinds
  <2>2. CASE LoginEnds(t, c)
    BY <1>2, <2>2 DEF LoginEnds, CallStep
  <2>3. CASE Ask(t, c)
    BY <1>1, <2>3 DEF Ask, Kinds
  <2>4. CASE Behind(t, c)
    BY <1>2, <2>4 DEF Behind, CallStep
  <2> QED BY <1>3, <2>1, <2>2, <2>3, <2>4
<1>4. ASSUME NEW t \in Tabs, SignOut(t) PROVE [Next]_sessionVars
  BY <1>1, <1>4 DEF SignOut, CallLogout, Kinds
<1>5. ASSUME NEW t \in Tabs, NEW page,
             Visit(t, page) \/ MountEffect(t) \/ TypeCredentials(t) \/ FillDemo(t)
      PROVE  UNCHANGED sessionVars
  BY <1>5 DEF Visit, MountEffect, TypeCredentials, FillDemo, Type
<1>6. CASE UNCHANGED <<sessionVars, shellVars>>
  BY <1>6
<1>7. CASE ShellNext
  BY <1>3, <1>4, <1>5, <1>7 DEF ShellNext, Next
<1> QED
  BY <1>6, <1>7

\* Behind the pages the session is what it is without them: whatever is visited
\* and signed in and out of, the inductive invariant holds.
THEOREM ShellKeepsSessions ==
    ASSUME OneTab PROVE ShellSpec => [](SessionInv /\ NoTokenPresentedTwice)
<1>1. ShellInit => Init
  BY DEF ShellInit
<1> QED
  BY <1>1, ShellStepsSession, SessionSafety, PTL DEF ShellSpec, Spec

Roles == {"none", "fab_user", "lab_member", "lab_manager"}

\* What is shown fits the profile that it was let in by.
ShellInv ==
    /\ profile \in Roles
    /\ DOMAIN screen = Tabs
    /\ \A t \in Tabs : screen[t].at = "shown" => profile \in Admits(screen[t].page)

\* A tab whose page is replaced is the only one there is.
LEMMA Replaced ==
    ASSUME OneTab, ShellInv, NEW t \in Tabs, NEW page,
           screen' = [screen EXCEPT ![t] = Mounting(page)], profile' \in Roles
    PROVE  ShellInv'
<1>1. DOMAIN screen' = Tabs /\ \A u \in Tabs : screen'[u] = Mounting(page)
  BY DEF OneTab, ShellInv
<1>2. Mounting(page).at # "shown"
  BY DEF Mounting
<1> QED
  BY <1>1, <1>2 DEF ShellInv

LEMMA ShellInvStep ==
    ASSUME OneTab, ShellInv, [ShellNext]_<<sessionVars, shellVars>>
    PROVE  ShellInv'
<1>1. UNCHANGED <<profile, screen>> => ShellInv'
  BY DEF ShellInv
<1>2. ASSUME NEW t \in Tabs, NEW page, Visit(t, page) PROVE ShellInv'
  BY <1>2, Replaced DEF Visit, ShellInv
<1>3. ASSUME NEW t \in Tabs, MountEffect(t) PROVE ShellInv'
  <2> DEFINE page == screen[t].page
             elsewhere == IF profile = "none" THEN "login" ELSE RoleHome(profile)
             next == IF profile \in Admits(page) THEN [page |-> page, at |-> "shown"]
                     ELSE IF elsewhere # page THEN Mounting(elsewhere)
                     ELSE [page |-> page, at |-> "blank"]
  <2>1. screen' = [screen EXCEPT ![t] = next] /\ profile' = profile
    BY <1>3 DEF MountEffect
  <2>2. next.at = "shown" => profile \in Admits(next.page)
    BY DEF Mounting
  <2> HIDE DEF next
  <2>3. DOMAIN screen' = Tabs /\ \A u \in Tabs : screen'[u] = next
    BY <2>1 DEF OneTab, ShellInv
  <2> QED BY <2>1, <2>2, <2>3 DEF ShellInv
<1>4. ASSUME NEW t \in Tabs, TypeCredentials(t) \/ FillDemo(t) PROVE ShellInv'
  BY <1>1, <1>4 DEF TypeCredentials, FillDemo, Type
<1>5. ASSUME NEW t \in Tabs, SignOut(t) PROVE ShellInv'
  BY <1>5, Replaced DEF SignOut, Roles
<1>6. ASSUME NEW t \in Tabs, NEW c \in Calls,
             Submit(t, c) \/ Ask(t, c) \/ Behind(t, c)
      PROVE  ShellInv'
  BY <1>1, <1>6 DEF Submit, Ask, Behind, shellVars
<1>7. ASSUME NEW t \in Tabs, NEW c \in Calls, LoginEnds(t, c) PROVE ShellInv'
  <2>1. CASE UNCHANGED shellVars
    BY <1>1, <2>1 DEF shellVars
  <2>2. ASSUME NEW role \in ServerRoles, profile' = NormalizeRole(role),
               screen' = [screen EXCEPT ![t] =
                            Mounting(RoleHome(NormalizeRole(role)))]
        PROVE  ShellInv'
    <3>1. profile' \in Roles
      BY <2>2 DEF ServerRoles, NormalizeRole, Roles
    <3> QED BY <2>2, <3>1, Replaced
  <2> QED BY <1>7, <2>1, <2>2 DEF LoginEnds
<1> QED
  BY <1>1, <1>2, <1>3, <1>4, <1>5, <1>6, <1>7 DEF ShellNext, shellVars

\* A role's pages are shown to its users only, and the login form to nobody who
\* is signed in, whatever calls are answered late or never and however often one
\* signs in and out (the guards of the layouts, roleHome, onLogout).
THEOREM PagesFitTheProfile == ASSUME OneTab PROVE ShellSpec => []ScreenFitsProfile
<1>1. ShellInit => ShellInv
  BY DEF ShellInit, ShellInv, Roles
<1>2. ShellInv => ScreenFitsProfile
  <2> SUFFICES ASSUME ShellInv, NEW t \in Tabs, screen[t].at = "shown"
               PROVE  IF screen[t].page = "login" THEN profile = "none"
                      ELSE profile # "none" /\ screen[t].page = RoleHome(profile)
    BY DEF ScreenFitsProfile
  <2>1. profile \in Roles /\ profile \in Admits(screen[t].page)
    BY DEF ShellInv
  <2> QED BY <2>1 DEF Admits, Roles, RoleHome
<1> QED
  BY <1>1, <1>2, ShellInvStep, PTL DEF ShellSpec
=============================================================================
