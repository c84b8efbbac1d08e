--------------------------- MODULE SessionsProofs ---------------------------
(***************************************************************************)
(* Proofs about Sessions, for any number of tabs, session tokens, CSRF     *)
(* tokens and addresses.                                                   *)
(***************************************************************************)
EXTENDS Sessions, TLAPS

-----------------------------------------------------------------------------
(* Types, and which verbs reach which step.                                *)

\* The requests, as TypeOK has them.
Request == [pc : PCs, verb : Verbs, sess : Maybe(Sids),
            cookie : Maybe(Tokens), ip : Maybe(Addrs),
            got : Maybe(Tokens), of : Maybe(Sids), tok : Maybe(Sids)]

\* The answers, as TypeOK has them.
Reaction == [form : Form, sets : BOOLEAN, sess : Maybe(Sids),
             csrf : Maybe(Tokens)]

\* What is nothing is of the types of what it stands for.
LEMMA Empty ==
    /\ NoReq \in Request /\ [NoReq EXCEPT !.pc = "arrive"] \in Request
    /\ Nothing \in Reaction
    /\ Blank \in Form
BY DEF NoReq, Request, Nothing, Reaction, Answer, Blank, Form, Maybe, PCs, Verbs

\* A handler that goes on has set one of its locals, or spent the tokens.
LEMMA Advance ==
    ASSUME NEW q \in Request, NEW p \in PCs, NEW k \in Maybe(Tokens),
           NEW s \in Maybe(Sids)
    PROVE  /\ [q EXCEPT !.pc = p] \in Request
           /\ [q EXCEPT !.pc = p, !.tok = s] \in Request
           /\ [q EXCEPT !.pc = p, !.got = k] \in Request
           /\ [q EXCEPT !.pc = p, !.got = None, !.cookie = None] \in Request
BY DEF Request, Maybe

\* So are the answers of the handlers.
LEMMA Answers ==
    ASSUME NEW k \in Maybe(Tokens), NEW s \in Maybe(Sids), NEW b \in BOOLEAN
    PROVE  /\ Answer(LoginForm(k), FALSE, None, k) \in Reaction
           /\ Answer(PageForm(k, s), FALSE, None, None) \in Reaction
           /\ Answer(Blank, b, s, None) \in Reaction
BY DEF Answer, LoginForm, PageForm, Blank, Reaction, Form, Maybe

\* An answer ends a request.
LEMMA ReplyType ==
    ASSUME TypeOK, Routed, NEW t \in Tabs, NEW a \in Reaction, Reply(t, a)
    PROVE  req' \in [Tabs -> Request] /\ out' \in [Tabs -> Reaction] /\ Routed'
<1>1. req' \in [Tabs -> Request] /\ out' \in [Tabs -> Reaction]
    BY Empty DEF Reply, TypeOK, Request, Reaction
<1>2. \A u \in Tabs : req'[u] = req[u] \/ req'[u].pc = "arrive"
    BY DEF Reply, TypeOK, NoReq
<1>. QED
    BY <1>1, <1>2 DEF Routed

\* At first the browser shows nothing and asks nothing.
LEMMA InitType == Init => TypeOK /\ Routed
<1>. SUFFICES ASSUME Init PROVE TypeOK /\ Routed
    OBVIOUS
<1>1. legacy \subseteq Sids /\ addr \in Addrs /\ moves \in 0..MaxMoves
    BY SessionsAssumption DEF Init
<1>2. rows \in [Sids -> Maybe(Row)]
    BY <1>1 DEF Init, Maybe, Row
<1>3. jar \in [sess : Maybe(Sids), csrf : Maybe(Tokens)]
  <2>1. CASE legacy = {}
      BY <2>1 DEF Init, Maybe
  <2>2. CASE \E s \in Sids : legacy = {s}
    <3>1. (CHOOSE s \in legacy : TRUE) \in Sids
        BY <2>2
    <3>. QED
        BY <2>2, <3>1 DEF Init, Maybe
  <2>. QED
      BY <2>1, <2>2 DEF Init
<1>4. form \in [Tabs -> Form] /\ req \in [Tabs -> Request]
      /\ out \in [Tabs -> Reaction]
    BY Empty DEF Init
<1>5. Routed
    BY DEF Init, Routed, NoReq
<1>. QED
    BY <1>1, <1>2, <1>3, <1>4, <1>5 DEF TypeOK, Request, Reaction

\* Every step keeps the types: one case per action.
LEMMA NextType == TypeOK /\ Routed /\ [Next]_vars => TypeOK' /\ Routed'
<1>. SUFFICES ASSUME TypeOK, Routed, [Next]_vars PROVE TypeOK' /\ Routed'
    OBVIOUS
<1>. USE SessionsAssumption
<1>. DEFINE Typed == TypeOK' /\ Routed'
<1>0. /\ req \in [Tabs -> Request] /\ out \in [Tabs -> Reaction]
      /\ rows \in [Sids -> Maybe(Row)]
    BY DEF TypeOK, Request, Reaction
<1>1. ASSUME NEW t \in Tabs, NEW v \in Verbs, Send(t, v) PROVE Typed
  <2>1. Entry(v) \in {"lookup", "check", "auth"}
        /\ (Entry(v) = "auth" => v \in {"page", "logout", "action"})
        /\ (Entry(v) = "check" => Posts(v))
      BY DEF Entry, Verbs, Posts
  <2>. DEFINE q == [pc |-> Entry(v), verb |-> v, sess |-> jar.sess,
                    cookie |-> IF Posts(v) THEN jar.csrf ELSE None,
                    ip |-> addr,
                    got |-> IF Posts(v) THEN form[t].csrf ELSE None,
                    of |-> IF v = "action" THEN form[t].sess ELSE None,
                    tok |-> None]
  <2>2. q \in Request
      BY <2>1 DEF Request, TypeOK, Form, Maybe, PCs
  <2>3. req' = [req EXCEPT ![t] = q]
      BY <1>1 DEF Send
  <2>4. req' \in [Tabs -> Request]
      BY <1>0, <2>2, <2>3
  <2>5. \A u \in Tabs : req'[u] = IF u = t THEN q ELSE req[u]
      BY <1>0, <2>3
  <2>6. Routed'
      BY <2>1, <2>5 DEF Routed, TypeOK
  <2>. QED
      BY <1>1, <2>4, <2>6 DEF Send, browserVars, TypeOK, Request
<1>2. ASSUME NEW t \in Tabs, Arrive(t) PROVE Typed
  <2>1. req' \in [Tabs -> Request] /\ out' \in [Tabs -> Reaction]
      BY <1>0, <1>2, Empty DEF Arrive
  <2>2. out[t] \in Reaction
      BY <1>0
  <2>3. form' \in [Tabs -> Form]
      BY <1>2, <2>2 DEF Arrive, TypeOK, Reaction
  <2>4. jar' \in [sess : Maybe(Sids), csrf : Maybe(Tokens)]
      BY <1>2, <2>2 DEF Arrive, TypeOK, Reaction
  <2>5. \A u \in Tabs : req'[u] = req[u] \/ req'[u].pc = "idle"
      BY <1>0, <1>2 DEF Arrive, NoReq
  <2>6. Routed'
      BY <2>5 DEF Routed
  <2>. QED
      BY <1>2, <2>1, <2>3, <2>4, <2>6 DEF Arrive, TypeOK, Request, Reaction
<1>3. ASSUME Move PROVE Typed
    BY <1>3 DEF Move, TypeOK, Routed
<1>4. ASSUME CookieEnds PROVE Typed
    BY <1>4 DEF CookieEnds, TypeOK, Routed, Maybe
<1>5. ASSUME NEW s \in Sids, Expire(s) PROVE Typed
  <2>1. rows[s] \in Row
      BY <1>5 DEF Expire, TypeOK, Maybe
  <2>2. rows' \in [Sids -> Maybe(Row)]
      BY <1>5, <2>1 DEF Expire, TypeOK, Maybe, Row
  <2>3. jar' \in [sess : Maybe(Sids), csrf : Maybe(Tokens)]
      BY <1>5 DEF Expire, TypeOK, Maybe
  <2>. QED
      BY <1>5, <2>2, <2>3 DEF Expire, TypeOK, Routed
<1>6. ASSUME Purge PROVE Typed
    BY <1>6 DEF Purge, browserVars, TypeOK, Routed, Maybe
<1>7. ASSUME NEW t \in Tabs, RequireAuth(t) PROVE Typed
  <2>1. CASE CurrentUser(req[t])
    <3>. DEFINE p == CASE req[t].verb = "page" -> "page"
                       [] req[t].verb = "logout" -> "user"
                       [] req[t].verb = "action" -> "check"
    <3>0. /\ p \in {"page", "user", "check"}
          /\ p = "check" => req[t].verb = "action"
        BY <1>7 DEF RequireAuth, Routed
    <3>1. req' = [req EXCEPT ![t] = [@ EXCEPT !.pc = p]]
        BY <1>7, <2>1 DEF RequireAuth, Goto
    <3>. HIDE DEF p
    <3>2. req' \in [Tabs -> Request]
        BY <1>0, <3>0, <3>1, Advance DEF PCs, Maybe
    <3>3. \A u \in Tabs : /\ req'[u].verb = req[u].verb
                          /\ req'[u].ip = req[u].ip
                          /\ req'[u].pc = IF u = t THEN p ELSE req[u].pc
        BY <1>0, <3>1 DEF Request
    <3>4. Routed'
        BY <1>7, <3>0, <3>3 DEF Routed, Posts, RequireAuth
    <3>5. UNCHANGED <<rows, browserVars, out, legacy>>
        BY <1>7, <2>1 DEF RequireAuth
    <3>. QED
        BY <3>2, <3>4, <3>5 DEF browserVars, TypeOK, Request
  <2>2. CASE ~CurrentUser(req[t])
      BY <1>7, <2>2, Empty, ReplyType
         DEF RequireAuth, browserVars, TypeOK, Request, Reaction
  <2>. QED
      BY <2>1, <2>2
<1>8. ASSUME NEW t \in Tabs, GetLogin(t) PROVE Typed
  <2>1. PICK a \in Reaction : Reply(t, a)
      BY <1>8, Empty, Answers DEF GetLogin, Maybe
  <2>. QED
      BY <1>8, <2>1, ReplyType
         DEF GetLogin, browserVars, TypeOK, Request, Reaction
<1>9. ASSUME NEW t \in Tabs, PageUser(t) PROVE Typed
  <2>1. PICK s \in Maybe(Sids) :
            req' = [req EXCEPT ![t] = [@ EXCEPT !.pc = "read", !.tok = s]]
      BY <1>0, <1>9 DEF PageUser, Request, Maybe
  <2>2. req' \in [Tabs -> Request]
      BY <1>0, <2>1, Advance DEF PCs, Maybe
  <2>3. \A u \in Tabs :
            \/ req'[u] = req[u]
            \/ u = t /\ req'[u].pc = "read" /\ req'[u].ip = req[u].ip
      BY <1>0, <2>1 DEF Request
  <2>4. Routed'
      BY <1>9, <2>3 DEF Routed, PageUser
  <2>. QED
      BY <1>9, <2>2, <2>4 DEF PageUser, browserVars, TypeOK, Request
<1>10. ASSUME NEW t \in Tabs, ReadCSRF(t) PROVE Typed
  <2>1. SessionCSRF(req[t].tok) \in Maybe(Tokens)
    <3>1. req[t].tok \in Maybe(Sids)
        BY <1>0 DEF Request
    <3>. QED
        BY <3>1 DEF SessionCSRF, TypeOK, Maybe, Row
  <2>2. CASE SessionCSRF(req[t].tok) # None
    <3>1. PICK a \in Reaction : Reply(t, a)
        BY <1>0, <1>10, <2>1, <2>2, Answers DEF ReadCSRF, Request
    <3>. QED
        BY <1>10, <3>1, ReplyType
           DEF ReadCSRF, browserVars, TypeOK, Request, Reaction
  <2>3. CASE SessionCSRF(req[t].tok) = None
    <3>1. PICK k \in Tokens :
            req' = [req EXCEPT ![t] = [@ EXCEPT !.pc = "attach", !.got = k]]
        BY <1>10, <2>3 DEF ReadCSRF
    <3>2. req' \in [Tabs -> Request]
        BY <1>0, <3>1, Advance DEF PCs, Maybe
    <3>3. \A u \in Tabs :
            \/ req'[u] = req[u]
            \/ u = t /\ req'[u].pc = "attach" /\ req'[u].ip = req[u].ip
        BY <1>0, <3>1 DEF Request
    <3>4. Routed'
        BY <1>10, <3>3 DEF Routed, ReadCSRF
    <3>. QED
        BY <1>10, <2>3, <3>2, <3>4
           DEF ReadCSRF, browserVars, TypeOK, Request
  <2>. QED
      BY <2>2, <2>3
<1>11. ASSUME NEW t \in Tabs, Attach(t) PROVE Typed
  <2>1. req[t].tok \in Maybe(Sids) /\ req[t].got \in Maybe(Tokens)
      BY <1>0 DEF Request
  <2>2. PICK a \in Reaction : Reply(t, a)
      BY <1>11, <2>1, Answers DEF Attach
  <2>3. rows' \in [Sids -> Maybe(Row)]
    <3>1. CASE req[t].tok = None \/ rows[req[t].tok] = None
        BY <1>0, <1>11, <3>1 DEF Attach, SetSessionCSRF
    <3>2. CASE req[t].tok # None /\ rows[req[t].tok] # None
      <4>1. rows[req[t].tok] \in Row /\ req[t].tok \in Sids
          BY <1>0, <2>1, <3>2 DEF Maybe
      <4>. QED
          BY <1>0, <1>11, <2>1, <3>2, <4>1
             DEF Attach, SetSessionCSRF, Row, Maybe
    <3>. QED
        BY <3>1, <3>2
  <2>. QED
      BY <1>11, <2>2, <2>3, ReplyType
         DEF Attach, browserVars, TypeOK, Request, Reaction
<1>12. ASSUME NEW t \in Tabs, Check(t) PROVE Typed
  <2>1. CASE CheckCSRF(req[t])
    <3>1. PICK p \in {"verify", "delete", "user"} :
            req' = [req EXCEPT ![t] = [@ EXCEPT !.pc = p, !.got = None,
                                                !.cookie = None]]
        BY <1>12, <2>1 DEF Check, Routed, Posts
    <3>2. req' \in [Tabs -> Request]
        BY <1>0, <3>1, Advance DEF PCs, Maybe
    <3>3. \A u \in Tabs :
            \/ req'[u] = req[u]
            \/ u = t /\ req'[u].pc = p /\ req'[u].ip = req[u].ip
        BY <1>0, <3>1 DEF Request
    <3>4. Routed'
        BY <1>12, <3>3 DEF Routed, Check
    <3>. QED
        BY <1>12, <2>1, <3>2, <3>4 DEF Check, browserVars, TypeOK, Request
  <2>2. CASE ~CheckCSRF(req[t])
      BY <1>12, <2>2, Empty, ReplyType
         DEF Check, browserVars, TypeOK, Request, Reaction
  <2>. QED
      BY <2>1, <2>2
<1>13. ASSUME NEW t \in Tabs, LoginFails(t) PROVE Typed
  <2>1. PICK a \in Reaction : Reply(t, a)
      BY <1>13, Answers DEF LoginFails, Maybe
  <2>. QED
      BY <1>13, <2>1, ReplyType
         DEF LoginFails, browserVars, TypeOK, Request, Reaction
<1>14. ASSUME NEW t \in Tabs, LoginSucceeds(t) PROVE Typed
  <2>1. PICK s \in Sids, k \in Tokens :
            /\ CreateSession(s, req[t].ip, k)
            /\ Reply(t, Answer(Blank, TRUE, s, None))
            /\ legacy' = legacy \ {s}
      BY <1>14 DEF LoginSucceeds
  <2>2. req[t].ip \in Addrs
      BY <1>0, <1>14 DEF LoginSucceeds, Routed, Request, Maybe
  <2>3. rows' \in [Sids -> Maybe(Row)]
      BY <1>0, <2>1, <2>2 DEF CreateSession, Row, Maybe
  <2>4. Answer(Blank, TRUE, s, None) \in Reaction
      BY Answers DEF Maybe
  <2>. QED
      BY <1>14, <2>1, <2>3, <2>4, ReplyType
         DEF LoginSucceeds, browserVars, TypeOK, Request, Reaction
<1>15. ASSUME NEW t \in Tabs, LogoutUser(t) PROVE Typed
  <2>1. PICK s \in Maybe(Sids) :
            req' = [req EXCEPT ![t] = [@ EXCEPT !.pc = "check", !.tok = s]]
      BY <1>0, <1>15 DEF LogoutUser, Request, Maybe
  <2>2. req' \in [Tabs -> Request]
      BY <1>0, <2>1, Advance DEF PCs, Maybe
  <2>3. \A u \in Tabs : /\ req'[u].verb = req[u].verb
                        /\ req'[u].ip = req[u].ip
                        /\ req'[u].pc = IF u = t THEN "check" ELSE req[u].pc
      BY <1>0, <2>1 DEF Request
  <2>4. Routed'
      BY <1>15, <2>1, <2>3 DEF Routed, LogoutUser, Posts
  <2>. QED
      BY <1>15, <2>2, <2>4 DEF LogoutUser, browserVars, TypeOK, Request
<1>16. ASSUME NEW t \in Tabs, DeleteSession(t) PROVE Typed
  <2>1. req[t].tok \in Maybe(Sids)
      BY <1>0 DEF Request
  <2>2. rows' \in [Sids -> Maybe(Row)]
      BY <1>0, <1>16, <2>1 DEF DeleteSession, Maybe
  <2>3. Answer(Blank, TRUE, None, None) \in Reaction
      BY Answers DEF Maybe
  <2>. QED
      BY <1>16, <2>2, <2>3, ReplyType
         DEF DeleteSession, browserVars, TypeOK, Request, Reaction
<1>17. ASSUME NEW t \in Tabs, Action(t) PROVE Typed
    BY <1>17, Empty, ReplyType
       DEF Action, browserVars, TypeOK, Request, Reaction
<1>18. ASSUME UNCHANGED vars PROVE Typed
    BY <1>18 DEF vars, TypeOK, Routed
<1>. QED
    BY <1>1, <1>2, <1>3, <1>4, <1>5, <1>6, <1>7, <1>8, <1>9, <1>10, <1>11,
       <1>12, <1>13, <1>14, <1>15, <1>16, <1>17, <1>18 DEF Next, Handle

-----------------------------------------------------------------------------
(* Who holds which token.                                                  *)

\* A new CSRF token is in no page, no row and no cookie.
LEMMA FreshTokenIsNew ==
    ASSUME TypeOK, NEW k \in Tokens, FreshToken(k)
    PROVE  ~InCookie(k) /\ \A s : ~Bears(k, s)
BY DEF FreshToken, InCookie, Bears, InRow, InTab

\* No page is of a session whose token is new.
LEMMA FreshSidIsNew ==
    ASSUME NEW s \in Sids, FreshSid(s)
    PROVE  \A k : ~Bears(k, s)
BY DEF FreshSid, Bears, InRow, InTab

\* A step that passes page tokens on, gives at most new cookies and neither
\* opens a session nor changes the token of one keeps the books.
LEMMA TokensKept ==
    ASSUME TypeOK, OneOwner, OneToken, legacy' = legacy,
           \A k \in Maybe(Tokens), s \in Maybe(Sids) :
                Bears(k, s)' => Bears(k, s),
           \A k \in Tokens : InCookie(k)' => InCookie(k) \/ FreshToken(k),
           \A s \in Sids \ legacy : rows'[s] # None =>
                rows[s] # None /\ rows'[s].csrf = rows[s].csrf
    PROVE  OneOwner' /\ OneToken'
<1>1. OneOwner'
  <2>. SUFFICES ASSUME NEW k \in Tokens, NEW s \in Maybe(Sids), Bears(k, s)'
                PROVE  /\ ~InCookie(k)'
                       /\ \A u \in Maybe(Sids) : Bears(k, u)' => u = s
      BY DEF OneOwner
  <2>1. k \in Maybe(Tokens) /\ Bears(k, s)
      BY DEF Maybe
  <2>2. ~FreshToken(k)
      BY <2>1, FreshTokenIsNew
  <2>. QED
      BY <2>1, <2>2 DEF OneOwner
<1>2. OneToken'
  <2>. SUFFICES ASSUME NEW s \in Sids \ legacy, rows'[s] # None
                PROVE  /\ rows'[s].csrf # None
                       /\ \A k \in Maybe(Tokens) :
                            Bears(k, s)' => k = rows'[s].csrf
      BY DEF OneToken
  <2>1. s \in Maybe(Sids)
      BY DEF Maybe
  <2>. QED
      BY <2>1 DEF OneToken
<1>. QED
    BY <1>1, <1>2

\* A step that gives a new token to one session keeps the owners apart.
LEMMA TokenIssued ==
    ASSUME TypeOK, OneOwner, NEW k \in Tokens, NEW s \in Maybe(Sids),
           FreshToken(k),
           \A j \in Maybe(Tokens), u \in Maybe(Sids) :
                Bears(j, u)' => Bears(j, u) \/ (j = k /\ u = s),
           \A j \in Tokens : InCookie(j)' => InCookie(j)
    PROVE  OneOwner'
<1>. SUFFICES ASSUME NEW j \in Tokens, NEW v \in Maybe(Sids), Bears(j, v)'
              PROVE  /\ ~InCookie(j)'
                     /\ \A u \in Maybe(Sids) : Bears(j, u)' => u = v
    BY DEF OneOwner
<1>1. j \in Maybe(Tokens)
    BY DEF Maybe
<1>2. CASE j = k
    BY <1>1, <1>2, FreshTokenIsNew
<1>3. CASE j # k
    BY <1>1, <1>3 DEF OneOwner
<1>. QED
    BY <1>2, <1>3

\* A step of one tab: what the others hold they held before.
LEMMA OneTabMoves ==
    ASSUME NEW t \in Tabs,
           \A u \in Tabs \ {t} : /\ form'[u] = form[u] /\ out'[u] = out[u]
                                  /\ req'[u] = req[u],
           NEW k, NEW s, Bears(k, s)'
    PROVE  Bears(k, s) \/ InRow(k, s)' \/ InTab(t, k, s)'
BY DEF Bears, InTab

\* An answer gives at most the token of the page it shows,
LEMMA ReplyBears ==
    ASSUME TypeOK, NEW t \in Tabs, NEW a, Reply(t, a), form' = form,
           NEW k, NEW s, Bears(k, s)'
    PROVE  \/ Bears(k, s) \/ InRow(k, s)'
           \/ a.form.kind = "page" /\ a.form.csrf = k /\ a.form.sess = s
<1>1. \A u \in Tabs \ {t} : out'[u] = out[u] /\ req'[u] = req[u]
    BY DEF Reply, TypeOK
<1>2. out'[t] = a /\ req'[t].pc = "arrive"
    BY DEF Reply, TypeOK, NoReq
<1>3. Bears(k, s) \/ InRow(k, s)' \/ InTab(t, k, s)'
    BY <1>1, OneTabMoves
<1>4. InTab(t, k, s)' =>
        \/ InTab(t, k, s)
        \/ a.form.kind = "page" /\ a.form.csrf = k /\ a.form.sess = s
    BY <1>2 DEF InTab
<1>. QED
    BY <1>3, <1>4 DEF Bears

\* and at most the cookie it sets.
LEMMA ReplyCookie ==
    ASSUME TypeOK, NEW t \in Tabs, NEW a, Reply(t, a), jar' = jar,
           NEW k \in Tokens, InCookie(k)'
    PROVE  InCookie(k) \/ a.csrf = k
<1>1. \A u \in Tabs \ {t} : out'[u] = out[u] /\ req'[u] = req[u]
    BY DEF Reply, TypeOK
<1>2. out'[t] = a /\ req'[t].cookie = None
    BY DEF Reply, TypeOK, NoReq
<1>. QED
    BY <1>1, <1>2, SessionsAssumption DEF InCookie

\* An answer without a page and without a new cookie, to a request that left
\* the rows alone.
LEMMA PlainReply ==
    ASSUME TypeOK, OneOwner, OneToken, NEW t \in Tabs, NEW a, Reply(t, a),
           a.form.kind # "page", a.csrf \in Maybe({k \in Tokens : FreshToken(k)}),
           UNCHANGED <<rows, browserVars, legacy>>
    PROVE  OneOwner' /\ OneToken'
<1>1. ASSUME NEW k, NEW s, Bears(k, s)' PROVE Bears(k, s)
    BY <1>1, ReplyBears DEF browserVars, InRow, Bears
<1>2. ASSUME NEW k \in Tokens, InCookie(k)' PROVE InCookie(k) \/ FreshToken(k)
    BY <1>2, ReplyCookie, SessionsAssumption DEF browserVars, Maybe
<1>. QED
    BY <1>1, <1>2, TokensKept

\* A handler that goes on, without a new token, holds what it held.
LEMMA HandlerGoesOn ==
    ASSUME TypeOK, OneOwner, OneToken, NEW t \in Tabs,
           UNCHANGED <<rows, browserVars, out, legacy>>,
           \A u \in Tabs \ {t} : req'[u] = req[u],
           req'[t].cookie \in {req[t].cookie, None},
           req'[t].pc # "attach",
           req'[t].verb = "action" /\ req'[t].pc \in {"auth", "check"} =>
                /\ req[t].verb = "action" /\ req[t].pc \in {"auth", "check"}
                /\ req'[t].got = req[t].got /\ req'[t].of = req[t].of
    PROVE  OneOwner' /\ OneToken'
<1>1. ASSUME NEW k, NEW s, Bears(k, s)' PROVE Bears(k, s)
  <2>1. Bears(k, s) \/ InRow(k, s)' \/ InTab(t, k, s)'
      BY <1>1, OneTabMoves DEF browserVars
  <2>2. InRow(k, s)' => InRow(k, s)
      BY DEF InRow
  <2>3. InTab(t, k, s)' => InTab(t, k, s)
      BY DEF InTab, browserVars
  <2>. QED
      BY <2>1, <2>2, <2>3 DEF Bears
<1>2. ASSUME NEW k \in Tokens, InCookie(k)' PROVE InCookie(k)
    BY <1>2, SessionsAssumption DEF InCookie, browserVars
<1>. QED
    BY <1>1, <1>2, TokensKept

\* At first only a session from before the tokens may have a row, and no
\* token is anywhere.
LEMMA InitIInv == Init => IInv
<1>. SUFFICES ASSUME Init PROVE IInv
    OBVIOUS
<1>1. \A k \in Tokens : \A s : ~Bears(k, s)
    BY SessionsAssumption
       DEF Init, Bears, InRow, InTab, Blank, Nothing, Answer, NoReq
<1>2. OneOwner /\ OneToken
    BY <1>1 DEF OneOwner, OneToken, Init
<1>3. ActsUnderItsOwnSession
    BY DEF Init, NoReq, ActsUnderItsOwnSession
<1>. QED
    BY <1>2, <1>3, InitType DEF IInv

\* Every step keeps a token to one session and a session to one token.
LEMMA NextTokens == IInv /\ [Next]_vars => OneOwner' /\ OneToken'
<1>. SUFFICES ASSUME IInv, [Next]_vars PROVE OneOwner' /\ OneToken'
    OBVIOUS
<1>. USE SessionsAssumption DEF IInv
<1>. DEFINE Kept == OneOwner' /\ OneToken'
<1>0. req \in [Tabs -> Request] /\ out \in [Tabs -> Reaction]
    BY DEF TypeOK, Request, Reaction
<1>1. ASSUME NEW t \in Tabs, NEW v \in Verbs, Send(t, v) PROVE Kept
  <2>1. /\ req'[t].verb = v /\ req'[t].pc = Entry(v)
        /\ req'[t].cookie \in {jar.csrf, None}
        /\ v = "action" => /\ req'[t].got = form[t].csrf
                           /\ req'[t].of = form[t].sess
                           /\ form[t].kind = "page"
        /\ \A u \in Tabs \ {t} : req'[u] = req[u]
      BY <1>0, <1>1 DEF Send, Posts
  <2>2. Entry(v) # "attach"
      BY DEF Entry
  <2>3. ASSUME NEW k, NEW s, Bears(k, s)' PROVE Bears(k, s)
    <3>1. Bears(k, s) \/ InRow(k, s)' \/ InTab(t, k, s)'
        BY <1>1, <2>1, <2>3, OneTabMoves DEF Send, browserVars
    <3>2. InRow(k, s)' => InRow(k, s)
        BY <1>1 DEF InRow, Send
    <3>3. InTab(t, k, s)' => InTab(t, k, s)
        BY <1>1, <2>1, <2>2 DEF InTab, Send, browserVars
    <3>. QED
        BY <3>1, <3>2, <3>3 DEF Bears
  <2>4. ASSUME NEW k \in Tokens, InCookie(k)' PROVE InCookie(k)
      BY <1>1, <2>1, <2>4 DEF InCookie, Send, browserVars
  <2>. QED
      BY <1>1, <2>3, <2>4, TokensKept DEF Send
<1>2. ASSUME NEW t \in Tabs, Arrive(t) PROVE Kept
  <2>1. /\ form'[t] = out[t].form /\ out'[t] = Nothing /\ req'[t] = NoReq
        /\ \A u \in Tabs \ {t} : /\ form'[u] = form[u] /\ out'[u] = out[u]
                                 /\ req'[u] = req[u]
      BY <1>2 DEF Arrive, TypeOK
  <2>2. ASSUME NEW k, NEW s, Bears(k, s)' PROVE Bears(k, s)
    <3>1. Bears(k, s) \/ InRow(k, s)' \/ InTab(t, k, s)'
        BY <2>1, <2>2, OneTabMoves
    <3>2. InRow(k, s)' => InRow(k, s)
        BY <1>2 DEF InRow, Arrive
    <3>3. InTab(t, k, s)' => InTab(t, k, s)
        BY <2>1 DEF InTab, Nothing, NoReq, Answer, Blank
    <3>. QED
        BY <3>1, <3>2, <3>3 DEF Bears
  <2>3. jar'.csrf \in {jar.csrf, out[t].csrf}
      BY <1>2 DEF Arrive
  <2>4. ASSUME NEW k \in Tokens, InCookie(k)' PROVE InCookie(k)
      BY <2>1, <2>3, <2>4 DEF InCookie, Nothing, NoReq, Answer
  <2>. QED
      BY <1>2, <2>2, <2>4, TokensKept DEF Arrive
<1>3. ASSUME Move PROVE Kept
  <2>1. \A k, s : Bears(k, s)' = Bears(k, s)
      BY <1>3 DEF Move, Bears, InRow, InTab
  <2>2. \A k : InCookie(k)' = InCookie(k)
      BY <1>3 DEF Move, InCookie
  <2>. QED
      BY <1>3, <2>1, <2>2, TokensKept DEF Move
<1>4. ASSUME CookieEnds PROVE Kept
  <2>1. \A k, s : Bears(k, s)' = Bears(k, s)
      BY <1>4 DEF CookieEnds, Bears, InRow, InTab
  <2>2. jar'.csrf = None
      BY <1>4 DEF CookieEnds, TypeOK
  <2>3. \A k \in Tokens : InCookie(k)' => InCookie(k)
      BY <1>4, <2>2 DEF CookieEnds, InCookie
  <2>. QED
      BY <1>4, <2>1, <2>3, TokensKept DEF CookieEnds
<1>5. ASSUME NEW x \in Sids, Expire(x) PROVE Kept
  <2>1. rows[x] \in Row
      BY <1>5 DEF Expire, TypeOK, Maybe
  <2>2. \A s \in Sids : rows'[s] # None =>
            rows[s] # None /\ rows'[s].csrf = rows[s].csrf
      BY <1>5, <2>1 DEF Expire, TypeOK, Row
  <2>3. ASSUME NEW k, NEW s, Bears(k, s)' PROVE Bears(k, s)
      BY <1>5, <2>2, <2>3 DEF Expire, Bears, InRow, InTab
  <2>4. jar'.csrf = jar.csrf
      BY <1>5 DEF Expire, TypeOK
  <2>5. \A k \in Tokens : InCookie(k)' => InCookie(k)
      BY <1>5, <2>4 DEF Expire, InCookie
  <2>. QED
      BY <1>5, <2>2, <2>3, <2>5, TokensKept DEF Expire
<1>6. ASSUME Purge PROVE Kept
  <2>1. \A s \in Sids : rows'[s] # None =>
            rows[s] # None /\ rows'[s].csrf = rows[s].csrf
      BY <1>6 DEF Purge
  <2>2. ASSUME NEW k, NEW s, Bears(k, s)' PROVE Bears(k, s)
      BY <1>6, <2>1, <2>2 DEF Purge, browserVars, Bears, InRow, InTab
  <2>3. \A k \in Tokens : InCookie(k)' => InCookie(k)
      BY <1>6 DEF Purge, browserVars, InCookie
  <2>. QED
      BY <1>6, <2>1, <2>2, <2>3, TokensKept DEF Purge
<1>7. ASSUME NEW t \in Tabs, RequireAuth(t) PROVE Kept
  <2>1. CASE CurrentUser(req[t])
    <3>1. /\ req'[t] = [req[t] EXCEPT !.pc = req'[t].pc]
          /\ req'[t].pc # "attach"
          /\ \A u \in Tabs \ {t} : req'[u] = req[u]
          /\ UNCHANGED <<rows, browserVars, out, legacy>>
        BY <1>0, <1>7, <2>1 DEF RequireAuth, Goto, Request, Routed
    <3>2. /\ req'[t].verb = req[t].verb /\ req'[t].got = req[t].got
          /\ req'[t].of = req[t].of /\ req'[t].cookie = req[t].cookie
        BY <1>0, <3>1 DEF Request
    <3>. QED
        BY <1>7, <3>1, <3>2, HandlerGoesOn DEF RequireAuth
  <2>2. CASE ~CurrentUser(req[t])
      BY <1>7, <2>2, PlainReply
         DEF RequireAuth, Nothing, Answer, Blank, Maybe
  <2>. QED
      BY <2>1, <2>2
<1>8. ASSUME NEW t \in Tabs, GetLogin(t) PROVE Kept
  <2>1. PICK a : /\ Reply(t, a) /\ a.form.kind # "page"
                 /\ a.csrf \in Maybe({k \in Tokens : FreshToken(k)})
    <3>1. \/ Reply(t, Nothing)
          \/ \E k \in Tokens : /\ FreshToken(k)
                               /\ Reply(t, Answer(LoginForm(k), FALSE, None, k))
        BY <1>8 DEF GetLogin
    <3>2. CASE Reply(t, Nothing)
        BY <3>2 DEF Nothing, Answer, Blank, Maybe
    <3>3. ASSUME NEW k \in Tokens, FreshToken(k),
                 Reply(t, Answer(LoginForm(k), FALSE, None, k))
          PROVE  \E a : /\ Reply(t, a) /\ a.form.kind # "page"
                        /\ a.csrf \in Maybe({j \in Tokens : FreshToken(j)})
        BY <3>3 DEF LoginForm, Answer, Maybe
    <3>. QED
        BY <3>1, <3>2, <3>3
  <2>. QED
      BY <1>8, <2>1, PlainReply DEF GetLogin
<1>9. ASSUME NEW t \in Tabs, PageUser(t) PROVE Kept
  <2>1. /\ req'[t].pc = "read" /\ req'[t].cookie = req[t].cookie
        /\ \A u \in Tabs \ {t} : req'[u] = req[u]
      BY <1>0, <1>9 DEF PageUser, Request
  <2>. QED
      BY <1>9, <2>1, HandlerGoesOn DEF PageUser
<1>10. ASSUME NEW t \in Tabs, ReadCSRF(t) PROVE Kept
  <2>. DEFINE x == req[t].tok
  <2>0. x \in Maybe(Sids)
      BY <1>0 DEF Request
  <2>1. CASE SessionCSRF(x) # None
    <3>1. InRow(SessionCSRF(x), x)
        BY <2>0, <2>1 DEF SessionCSRF, InRow, Maybe
    <3>. DEFINE a == Answer(PageForm(SessionCSRF(x), x), FALSE, None, None)
    <3>2. Reply(t, a) /\ UNCHANGED <<rows, browserVars, legacy>>
        BY <1>10, <2>1 DEF ReadCSRF
    <3>3. /\ a.form.csrf = SessionCSRF(x) /\ a.form.sess = x
          /\ a.csrf = None
        BY DEF Answer, PageForm
    <3>4. ASSUME NEW k, NEW s, Bears(k, s)' PROVE Bears(k, s)
      <4>1. \/ Bears(k, s) \/ InRow(k, s)'
            \/ a.form.kind = "page" /\ a.form.csrf = k /\ a.form.sess = s
          BY <3>2, <3>4, ReplyBears DEF browserVars
      <4>2. InRow(k, s)' => InRow(k, s)
          BY <3>2 DEF InRow
      <4>. QED
          BY <3>1, <3>3, <4>1, <4>2 DEF Bears
    <3>5. ASSUME NEW k \in Tokens, InCookie(k)' PROVE InCookie(k)
        BY <3>2, <3>3, <3>5, ReplyCookie DEF browserVars
    <3>. QED
        BY <3>2, <3>4, <3>5, TokensKept
  <2>2. CASE SessionCSRF(x) = None
    <3>1. PICK k \in Tokens :
            /\ FreshToken(k)
            /\ req' = [req EXCEPT ![t] = [@ EXCEPT !.pc = "attach", !.got = k]]
            /\ UNCHANGED <<rows, browserVars, out, legacy>>
        BY <1>10, <2>2 DEF ReadCSRF
    <3>2. /\ req'[t].pc = "attach" /\ req'[t].got = k /\ req'[t].tok = x
          /\ req'[t].cookie = req[t].cookie
          /\ \A u \in Tabs \ {t} : req'[u] = req[u]
        BY <1>0, <3>1 DEF Request
    <3>3. ASSUME NEW j, NEW u, Bears(j, u)'
          PROVE  Bears(j, u) \/ (j = k /\ u = x)
      <4>1. Bears(j, u) \/ InRow(j, u)' \/ InTab(t, j, u)'
          BY <3>1, <3>2, <3>3, OneTabMoves DEF browserVars
      <4>2. InRow(j, u)' => InRow(j, u)
          BY <3>1 DEF InRow
      <4>3. InTab(t, j, u)' => InTab(t, j, u) \/ (j = k /\ u = x)
          BY <3>1, <3>2 DEF InTab, browserVars
      <4>. QED
          BY <4>1, <4>2, <4>3 DEF Bears
    <3>4. ASSUME NEW j \in Tokens, InCookie(j)' PROVE InCookie(j)
        BY <3>1, <3>2, <3>4 DEF InCookie, browserVars
    <3>5. OneOwner'
        BY <2>0, <3>1, <3>3, <3>4, TokenIssued
    <3>6. \A u \in Sids \ legacy : rows[u] # None => u # x
        BY <2>2 DEF SessionCSRF, OneToken
    <3>7. OneToken'
        BY <3>1, <3>3, <3>6 DEF OneToken
    <3>. QED
        BY <3>5, <3>7
  <2>. QED
      BY <2>1, <2>2
<1>11. ASSUME NEW t \in Tabs, Attach(t) PROVE Kept
  <2>. DEFINE x == req[t].tok
              k == req[t].got
              a == Answer(PageForm(k, x), FALSE, None, None)
  <2>0. x \in Maybe(Sids) /\ k \in Maybe(Tokens)
      BY <1>0 DEF Request
  <2>1. Bears(k, x)
      BY <1>11 DEF Attach, Bears, InTab
  <2>2. Reply(t, a) /\ SetSessionCSRF(x, k) /\ UNCHANGED <<browserVars, legacy>>
      BY <1>11 DEF Attach
  <2>3. a.form.csrf = k /\ a.form.sess = x /\ a.csrf = None
      BY DEF Answer, PageForm
  <2>4. \A s \in Sids : rows'[s] # None =>
            /\ rows[s] # None
            /\ rows'[s].csrf = IF s = x THEN k ELSE rows[s].csrf
    <3>1. CASE x = None \/ rows[x] = None
        BY <2>2, <3>1 DEF SetSessionCSRF
    <3>2. CASE x # None /\ rows[x] # None
      <4>1. x \in Sids /\ rows[x] \in Row
          BY <2>0, <3>2 DEF TypeOK, Maybe
      <4>. QED
          BY <2>2, <3>2, <4>1 DEF SetSessionCSRF, TypeOK, Row
    <3>. QED
        BY <3>1, <3>2
  <2>5. ASSUME NEW j, NEW s, Bears(j, s)' PROVE Bears(j, s)
    <3>1. \/ Bears(j, s) \/ InRow(j, s)'
          \/ a.form.kind = "page" /\ a.form.csrf = j /\ a.form.sess = s
        BY <2>2, <2>5, ReplyBears DEF browserVars
    <3>2. InRow(j, s)' => InRow(j, s) \/ (j = k /\ s = x)
        BY <2>4 DEF InRow
    <3>. QED
        BY <2>1, <2>3, <3>1, <3>2 DEF Bears
  <2>6. ASSUME NEW j \in Tokens, InCookie(j)' PROVE InCookie(j)
      BY <2>2, <2>3, <2>6, ReplyCookie DEF browserVars
  <2>7. \A s \in Sids \ legacy : rows'[s] # None =>
            rows[s] # None /\ rows'[s].csrf = rows[s].csrf
      BY <2>0, <2>1, <2>4 DEF OneToken
  <2>. QED
      BY <2>2, <2>5, <2>6, <2>7, TokensKept
<1>12. ASSUME NEW t \in Tabs, Check(t) PROVE Kept
  <2>1. CASE CheckCSRF(req[t])
    <3>1. /\ req'[t].pc \in {"verify", "delete", "user"}
          /\ req'[t].cookie = None
          /\ \A u \in Tabs \ {t} : req'[u] = req[u]
        BY <1>0, <1>12, <2>1 DEF Check, Request, Routed, Posts
    <3>. QED
        BY <1>12, <2>1, <3>1, HandlerGoesOn DEF Check
  <2>2. CASE ~CheckCSRF(req[t])
      BY <1>12, <2>2, PlainReply DEF Check, Nothing, Answer, Blank, Maybe
  <2>. QED
      BY <2>1, <2>2
<1>13. ASSUME NEW t \in Tabs, LoginFails(t) PROVE Kept
  <2>1. PICK a : /\ Reply(t, a) /\ a.form.kind # "page"
                 /\ a.csrf \in Maybe({k \in Tokens : FreshToken(k)})
      BY <1>13 DEF LoginFails, LoginForm, Answer, Maybe
  <2>. QED
      BY <1>13, <2>1, PlainReply DEF LoginFails
<1>14. ASSUME NEW t \in Tabs, LoginSucceeds(t) PROVE Kept
  <2>1. PICK x \in Sids, k \in Tokens :
            /\ FreshSid(x) /\ FreshToken(k)
            /\ CreateSession(x, req[t].ip, k)
            /\ Reply(t, Answer(Blank, TRUE, x, None))
            /\ legacy' = legacy \ {x}
            /\ UNCHANGED browserVars
      BY <1>14 DEF LoginSucceeds
  <2>. DEFINE a == Answer(Blank, TRUE, x, None)
  <2>2. a.form.kind # "page" /\ a.csrf = None
      BY DEF Answer, Blank
  <2>3. /\ rows'[x] # None /\ rows'[x].csrf = k
        /\ \A s \in Sids \ {x} : rows'[s] = rows[s]
    <3>1. [ip |-> req[t].ip, expired |-> FALSE, csrf |-> k] \in Row
        BY <1>0, <1>14 DEF LoginSucceeds, Routed, Request, Row, Maybe
    <3>. QED
        BY <2>1, <3>1 DEF CreateSession, TypeOK
  <2>4. ASSUME NEW j, NEW s, Bears(j, s)'
        PROVE  Bears(j, s) \/ (j = k /\ s = x)
    <3>1. \/ Bears(j, s) \/ InRow(j, s)'
          \/ a.form.kind = "page" /\ a.form.csrf = j /\ a.form.sess = s
        BY <2>1, <2>4, ReplyBears DEF browserVars
    <3>2. InRow(j, s)' => InRow(j, s) \/ (j = k /\ s = x)
        BY <2>3 DEF InRow
    <3>. QED
        BY <2>2, <3>1, <3>2 DEF Bears
  <2>5. ASSUME NEW j \in Tokens, InCookie(j)' PROVE InCookie(j)
      BY <2>1, <2>2, <2>5, ReplyCookie DEF browserVars
  <2>6. OneOwner'
      BY <2>1, <2>4, <2>5, TokenIssued DEF Maybe
  <2>7. \A j : ~Bears(j, x)
      BY <2>1, FreshSidIsNew
  <2>8. ASSUME NEW s \in Sids \ legacy', rows'[s] # None
        PROVE  /\ rows'[s].csrf # None
               /\ \A j \in Maybe(Tokens) : Bears(j, s)' => j = rows'[s].csrf
    <3>1. CASE s = x
        BY <2>3, <2>4, <2>7, <3>1
    <3>2. CASE s # x
        BY <2>1, <2>3, <2>4, <2>8, <3>2 DEF OneToken
    <3>. QED
        BY <3>1, <3>2
  <2>9. OneToken'
      BY <2>8 DEF OneToken
  <2>. QED
      BY <2>6, <2>9
<1>15. ASSUME NEW t \in Tabs, LogoutUser(t) PROVE Kept
  <2>1. /\ req'[t].pc = "check" /\ req'[t].cookie = req[t].cookie
        /\ req'[t].verb = "logout"
        /\ \A u \in Tabs \ {t} : req'[u] = req[u]
      BY <1>0, <1>15 DEF LogoutUser, Request
  <2>. QED
      BY <1>15, <2>1, HandlerGoesOn DEF LogoutUser
<1>16. ASSUME NEW t \in Tabs, DeleteSession(t) PROVE Kept
  <2>. DEFINE a == Answer(Blank, TRUE, None, None)
  <2>1. Reply(t, a) /\ a.form.kind # "page" /\ a.csrf = None
        /\ UNCHANGED <<browserVars, legacy>>
      BY <1>16 DEF DeleteSession, Answer, Blank
  <2>2. \A s \in Sids : rows'[s] # None => rows'[s] = rows[s]
      BY <1>16 DEF DeleteSession, TypeOK
  <2>3. ASSUME NEW j, NEW s, Bears(j, s)' PROVE Bears(j, s)
    <3>1. Bears(j, s) \/ InRow(j, s)'
        BY <2>1, <2>3, ReplyBears DEF browserVars
    <3>. QED
        BY <2>2, <3>1 DEF InRow, Bears
  <2>4. ASSUME NEW j \in Tokens, InCookie(j)' PROVE InCookie(j)
      BY <2>1, <2>4, ReplyCookie DEF browserVars
  <2>. QED
      BY <2>1, <2>2, <2>3, <2>4, TokensKept
<1>17. ASSUME NEW t \in Tabs, Action(t) PROVE Kept
    BY <1>17, PlainReply DEF Action, Nothing, Answer, Blank, Maybe
<1>18. ASSUME UNCHANGED vars PROVE Kept
  <2>1. \A k, s : Bears(k, s)' = Bears(k, s)
      BY <1>18 DEF vars, Bears, InRow, InTab
  <2>2. \A k : InCookie(k)' = InCookie(k)
      BY <1>18 DEF vars, InCookie
  <2>. QED
      BY <1>18, <2>1, <2>2, TokensKept DEF vars
<1>. QED
    BY <1>1, <1>2, <1>3, <1>4, <1>5, <1>6, <1>7, <1>8, <1>9, <1>10, <1>11,
       <1>12, <1>13, <1>14, <1>15, <1>16, <1>17, <1>18 DEF Next, Handle

-----------------------------------------------------------------------------
(* What checkCSRF lets through.                                            *)

\* An action that passes the check was sent from a page of the session of its
\* cookie: the token of that session has no other owner, and without one the
\* token asked for is the cookie's, which no page carries.
LEMMA PassedIsOwn ==
    ASSUME IInv, NEW t \in Tabs, req[t].pc = "check", req[t].verb = "action",
           CheckCSRF(req[t])
    PROVE  req[t].of = req[t].sess
<1>. USE SessionsAssumption DEF IInv
<1>. DEFINE q == req[t]
<1>1. q \in Request
    BY DEF TypeOK, Request
<1>2. q.got \in Tokens /\ q.of \in Maybe(Sids) /\ q.sess \in Maybe(Sids)
    BY <1>1 DEF CheckCSRF, Request, Maybe
<1>3. Bears(q.got, q.of)
    BY DEF Bears, InTab
<1>4. CASE SessionCSRF(q.sess) # None
  <2>1. InRow(q.got, q.sess)
      BY <1>2, <1>4 DEF CheckCSRF, SessionCSRF, InRow, Maybe
  <2>. QED
      BY <1>2, <1>3, <2>1 DEF Bears, OneOwner
<1>5. CASE SessionCSRF(q.sess) = None
  <2>1. InCookie(q.got)
      BY <1>5 DEF CheckCSRF, InCookie
  <2>. QED
      BY <1>2, <1>3, <2>1 DEF OneOwner
<1>. QED
    BY <1>4, <1>5

\* Every step keeps what was let through under its own session.
LEMMA NextActs == IInv /\ [Next]_vars => ActsUnderItsOwnSession'
<1>. SUFFICES ASSUME IInv, [Next]_vars,
                     NEW t \in Tabs, req'[t].pc = "user", req'[t].verb = "action"
              PROVE  req'[t].of = req'[t].sess
    BY DEF ActsUnderItsOwnSession
<1>. USE DEF IInv
<1>0. req \in [Tabs -> Request]
    BY DEF TypeOK, Request
<1>1. CASE req'[t] = req[t]
    BY <1>1 DEF ActsUnderItsOwnSession
<1>2. CASE req'[t] # req[t]
  <2>1. \A u \in Tabs : \A a : Reply(u, a) => req'[t] = req[t]
      BY <1>0 DEF Reply, NoReq
  <2>2. ASSUME NEW u \in Tabs, NEW v \in Verbs, Send(u, v) PROVE FALSE
    <3>1. Entry(v) # "user"
        BY DEF Entry
    <3>. QED
        BY <1>0, <1>2, <2>2, <3>1 DEF Send
  <2>3. ASSUME NEW u \in Tabs, Arrive(u) PROVE FALSE
      BY <1>0, <1>2, <2>3 DEF Arrive, NoReq
  <2>4. ASSUME NEW u \in Tabs, RequireAuth(u) PROVE FALSE
      BY <1>0, <1>2, <2>1, <2>4 DEF RequireAuth, Goto, Request, Routed
  <2>5. ASSUME NEW u \in Tabs, PageUser(u) \/ ReadCSRF(u) \/ LogoutUser(u)
        PROVE  FALSE
      BY <1>0, <1>2, <2>1, <2>5 DEF PageUser, ReadCSRF, LogoutUser, Request
  <2>6. ASSUME NEW u \in Tabs,
               \/ GetLogin(u) \/ Attach(u) \/ LoginFails(u)
               \/ LoginSucceeds(u) \/ DeleteSession(u) \/ Action(u)
        PROVE  FALSE
      BY <1>2, <2>1, <2>6 DEF GetLogin, Attach, LoginFails, LoginSucceeds,
         DeleteSession, Action
  <2>7. ASSUME NEW u \in Tabs, Check(u) PROVE req'[t].of = req'[t].sess
    <3>1. u = t /\ CheckCSRF(req[t])
        BY <1>0, <1>2, <2>1, <2>7 DEF Check
    <3>2. req'[t].of = req[t].of /\ req'[t].sess = req[t].sess
          /\ req'[t].verb = req[t].verb
        BY <1>0, <2>7, <3>1 DEF Check, Request
    <3>. QED
        BY <2>7, <3>1, <3>2, PassedIsOwn DEF Check
  <2>8. ASSUME \/ \E s \in Sids : Expire(s)
               \/ Move \/ CookieEnds \/ Purge \/ UNCHANGED vars
        PROVE  FALSE
      BY <1>2, <2>8 DEF Expire, Move, CookieEnds, Purge, vars
  <2>. QED
      BY <2>2, <2>3, <2>4, <2>5, <2>6, <2>7, <2>8 DEF Next, Handle
<1>. QED
    BY <1>1, <1>2

\* Every step preserves the invariant.
LEMMA NextIInv == IInv /\ [Next]_vars => IInv'
BY NextType, NextTokens, NextActs DEF IInv

\* The invariant holds for ever.
THEOREM AlwaysIInv == Spec => []IInv
<1>1. Init => IInv
    BY InitIInv
<1>2. IInv /\ [Next]_vars => IInv'
    BY NextIInv
<1>. QED
    BY <1>1, <1>2, PTL DEF Spec

-----------------------------------------------------------------------------
(* The theorems.                                                           *)

\* The rows, the cookies, the forms, the requests and the answers of
\* Sessions have their types.
THEOREM TypeCorrect == Spec => []TypeOK
<1>1. IInv => TypeOK
    BY DEF IInv
<1>. QED
    BY <1>1, AlwaysIInv, PTL

\* What an operator asks for is done under the session that showed the form
\* (checkCSRF, server.go), whatever the tabs and the sessions.
THEOREM ActsUnderOwnSession == Spec => []ActsUnderItsOwnSession
<1>1. IInv => ActsUnderItsOwnSession
    BY DEF IInv
<1>. QED
    BY <1>1, AlwaysIInv, PTL

\* The page a tab shows, made under the session the browser has, carries the
\* token checkCSRF is going to ask for (store.go: bound to the session for
\* its whole life).
THEOREM PagesUsable == Spec => []PagesStayUsable
<1>1. ASSUME IInv PROVE PagesStayUsable
  <2>. SUFFICES ASSUME NEW t \in Tabs, form[t].kind = "page",
                       form[t].sess # None, form[t].sess \notin legacy,
                       rows[form[t].sess] # None
                PROVE  form[t].csrf = rows[form[t].sess].csrf
      BY DEF PagesStayUsable
  <2>1. form[t] \in Form
      BY <1>1 DEF IInv, TypeOK
  <2>2. form[t].sess \in Sids /\ form[t].csrf \in Maybe(Tokens)
      BY <2>1 DEF Form, Maybe
  <2>3. Bears(form[t].csrf, form[t].sess)
      BY DEF Bears, InTab
  <2>. QED
      BY <1>1, <2>2, <2>3 DEF IInv, OneToken
<1>. QED
    BY <1>1, AlwaysIInv, PTL

\* The end of a session is final: only a login makes a row, for a session
\* token that nothing mentions, whatever pages are under way.
THEOREM EndingIsFinal == Spec => EndIsFinal
<1>1. ASSUME IInv, [Next]_vars, NEW s \in Sids, rows[s] = None,
             rows'[s] # None
      PROVE  FreshSid(s)
  <2>. USE <1>1 DEF IInv
  <2>0. req \in [Tabs -> Request] /\ rows \in [Sids -> Maybe(Row)]
      BY DEF TypeOK, Request
  <2>1. ASSUME NEW t \in Tabs, LoginSucceeds(t) PROVE FreshSid(s)
      BY <2>0, <2>1 DEF LoginSucceeds, CreateSession
  <2>2. ASSUME NEW t \in Tabs, Attach(t) PROVE FALSE
    <3>1. req[t].tok \in Maybe(Sids)
        BY <2>0 DEF Request
    <3>. QED
        BY <2>0, <2>2, <3>1 DEF Attach, SetSessionCSRF, Maybe
  <2>3. ASSUME NEW t \in Tabs, DeleteSession(t) PROVE FALSE
      BY <2>0, <2>3 DEF DeleteSession
  <2>4. ASSUME NEW x \in Sids, Expire(x) PROVE FALSE
      BY <2>0, <2>4 DEF Expire
  <2>5. ASSUME Purge PROVE FALSE
      BY <2>5 DEF Purge
  <2>6. ASSUME rows' = rows PROVE FALSE
      BY <2>6
  <2>7. ASSUME NEW t \in Tabs,
               \/ \E v \in Verbs : Send(t, v)
               \/ Arrive(t) \/ RequireAuth(t) \/ GetLogin(t) \/ PageUser(t)
               \/ ReadCSRF(t) \/ Check(t) \/ LoginFails(t) \/ LogoutUser(t)
               \/ Action(t)
        PROVE  rows' = rows
      BY <2>7 DEF Send, Arrive, RequireAuth, GetLogin, PageUser, ReadCSRF,
         Check, LoginFails, LogoutUser, Action
  <2>8. ASSUME Move \/ CookieEnds \/ UNCHANGED vars PROVE rows' = rows
      BY <2>8 DEF Move, CookieEnds, vars
  <2>. QED
      BY <2>1, <2>2, <2>3, <2>4, <2>5, <2>6, <2>7, <2>8 DEF Next, Handle
<1>2. IInv /\ [Next]_vars =>
        [\A s \in Sids : rows[s] = None /\ rows'[s] # None => FreshSid(s)]_vars
    BY <1>1
<1>. QED
    BY <1>2, AlwaysIInv, PTL DEF Spec, EndIsFinal
=============================================================================
