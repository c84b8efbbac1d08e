------------------------------ MODULE Sessions ------------------------------
(***************************************************************************)
(* The sessions of the console: the table sessions of                      *)
(* internal/store/store.go and the handlers of internal/web/server.go that *)
(* read and write it, for ONE browser.  Browsers have cookies of their     *)
(* own, and the rows are found by the session cookie only.                 *)
(*                                                                         *)
(* A tab sends one request at a time.  The request carries the cookies and *)
(* the address the browser has when it leaves, and the token of the form   *)
(* it submits.  Each statement of the handler on the base is one step, so  *)
(* the requests of two tabs, the expiry of a session, its purge and a      *)
(* change of address fall between any two of them.  The answer sets the    *)
(* cookies and the form when it arrives, a step later.                     *)
(***************************************************************************)
EXTENDS Naturals, FiniteSets

CONSTANTS
    Tabs,
    Sids,           \* session tokens; used again once nothing mentions them
    Tokens,         \* CSRF tokens; likewise
    Addrs,          \* addresses the browser may have, all of them allowed
    None,           \* no cookie, no row, no token, no session
    MaxMoves        \* bound: changes of address

Maybe(S) == S \cup {None}
Row == [ip : Addrs, expired : BOOLEAN, csrf : Maybe(Tokens)]

ASSUME SessionsAssumption ==
    /\ None \notin Sids /\ None \notin Tokens /\ None \notin Addrs
    /\ None \notin Row
    /\ MaxMoves \in Nat

VARIABLES
    rows,       \* session token -> its row in the table, or None
    jar,        \* the cookies of the browser: session and CSRF
    addr,       \* the address of the browser
    form,       \* tab -> the form it shows
    req,        \* tab -> its request, as the handler sees it
    out,        \* tab -> the answer on its way
    legacy,     \* sessions opened before the base had CSRF tokens (history)
    moves

vars == <<rows, jar, addr, form, req, out, legacy, moves>>
browserVars == <<jar, addr, form, moves>>

\* A page of the console has the token of its session in its forms, the login
\* page the one of the CSRF cookie.
Form == [kind : {"blank", "login", "page"}, csrf : Maybe(Tokens),
         sess : Maybe(Sids)]
Blank == [kind |-> "blank", csrf |-> None, sess |-> None]
LoginForm(k) == [kind |-> "login", csrf |-> k, sess |-> None]
PageForm(k, s) == [kind |-> "page", csrf |-> k, sess |-> s]

Verbs == {"getLogin", "postLogin", "page", "logout", "action"}
PCs == {"idle", "auth", "lookup", "page", "read", "attach", "user", "check",
        "verify", "delete", "arrive"}

\* sess and cookie are the cookies sent, got the token of the form and of its
\* session; tok is the local variable of page and postLogout.
NoReq == [pc |-> "idle", verb |-> "page", sess |-> None, cookie |-> None,
          ip |-> None, got |-> None, of |-> None, tok |-> None]

\* An answer: the form it shows, whether it sets the session cookie and to
\* what, and the value of the CSRF cookie if it sets that.
Answer(f, sets, s, k) == [form |-> f, sets |-> sets, sess |-> s, csrf |-> k]
Nothing == Answer(Blank, FALSE, None, None)

\* The base may hold a session from before the csrf column was added.
Init ==
    /\ addr \in Addrs
    /\ legacy = {} \/ \E s \in Sids : legacy = {s}
    /\ rows = [s \in Sids |->
                IF s \in legacy
                THEN [ip |-> addr, expired |-> FALSE, csrf |-> None]
                ELSE None]
    /\ jar = [sess |-> IF legacy = {} THEN None ELSE CHOOSE s \in legacy : TRUE,
              csrf |-> None]
    /\ form = [t \in Tabs |-> Blank]
    /\ req = [t \in Tabs |-> NoReq]
    /\ out = [t \in Tabs |-> Nothing]
    /\ moves = 0

\* auth.NewToken: what nothing mentions is as good as new.
FreshToken(k) ==
    /\ jar.csrf # k
    /\ \A s \in Sids : rows[s] # None => rows[s].csrf # k
    /\ \A t \in Tabs : /\ form[t].csrf # k /\ out[t].csrf # k
                       /\ out[t].form.csrf # k
                       /\ req[t].cookie # k /\ req[t].got # k

FreshSid(s) ==
    /\ jar.sess # s /\ rows[s] = None
    /\ \A t \in Tabs : /\ form[t].sess # s /\ out[t].sess # s
                       /\ out[t].form.sess # s
                       /\ req[t].sess # s /\ req[t].of # s /\ req[t].tok # s

-----------------------------------------------------------------------------
(* The browser.                                                            *)

Posts(verb) == verb \in {"postLogin", "logout", "action"}

\* Where the handler of a verb begins: requireAuth, or its first statement.
Entry(verb) == CASE verb = "getLogin" -> "lookup"
                 [] verb = "postLogin" -> "check"
                 [] OTHER -> "auth"

Send(t, v) ==
    /\ req[t].pc = "idle"
    /\ v = "postLogin" => form[t].kind = "login"
    /\ v \in {"logout", "action"} => form[t].kind = "page"
    /\ req' = [req EXCEPT ![t] =
                [pc |-> Entry(v), verb |-> v, sess |-> jar.sess,
                 cookie |-> IF Posts(v) THEN jar.csrf ELSE None,
                 ip |-> addr,
                 got |-> IF Posts(v) THEN form[t].csrf ELSE None,
                 of |-> IF v = "action" THEN form[t].sess ELSE None,
                 tok |-> None]]
    /\ UNCHANGED <<rows, browserVars, out, legacy>>

Arrive(t) ==
    /\ req[t].pc = "arrive"
    /\ form' = [form EXCEPT ![t] = out[t].form]
    /\ jar' = [sess |-> IF out[t].sets THEN out[t].sess ELSE jar.sess,
               csrf |-> IF out[t].csrf # None THEN out[t].csrf ELSE jar.csrf]
    /\ req' = [req EXCEPT ![t] = NoReq]
    /\ out' = [out EXCEPT ![t] = Nothing]
    /\ UNCHANGED <<rows, addr, moves, legacy>>

Move ==
    /\ moves < MaxMoves
    /\ moves' = moves + 1
    /\ \E a \in Addrs \ {addr} : addr' = a
    /\ UNCHANGED <<rows, jar, form, req, out, legacy>>

\* The CSRF cookie lasts thirty minutes, less than a tab.
CookieEnds ==
    /\ jar.csrf # None
    /\ jar' = [jar EXCEPT !.csrf = None]
    /\ UNCHANGED <<rows, addr, form, req, out, moves, legacy>>

\* sessionTTL is over, for the row and for the cookie.
Expire(s) ==
    /\ rows[s] # None /\ ~rows[s].expired
    /\ rows' = [rows EXCEPT ![s].expired = TRUE]
    /\ jar' = IF jar.sess = s THEN [jar EXCEPT !.sess = None] ELSE jar
    /\ UNCHANGED <<addr, form, req, out, moves, legacy>>

\* PurgeExpiredSessions, on each turn of Collector.Run.
Purge ==
    /\ \E s \in Sids : rows[s] # None /\ rows[s].expired
    /\ rows' = [s \in Sids |-> IF rows[s] # None /\ rows[s].expired
                               THEN None ELSE rows[s]]
    /\ UNCHANGED <<browserVars, req, out, legacy>>

-----------------------------------------------------------------------------
(* The handlers.                                                           *)

Goto(t, where) == req' = [req EXCEPT ![t].pc = where]

\* The handler is done; its locals are gone.
Reply(t, answer) ==
    /\ req' = [req EXCEPT ![t] = [NoReq EXCEPT !.pc = "arrive"]]
    /\ out' = [out EXCEPT ![t] = answer]

\* store.SessionUser finds the user of a session cookie.
SessionUser(s, ip) ==
    /\ s # None /\ rows[s] # None
    /\ ~rows[s].expired /\ rows[s].ip = ip

CurrentUser(q) == SessionUser(q.sess, q.ip)

\* store.SessionCSRF; None stands for an error and for an empty token.  The
\* row need not be valid.
SessionCSRF(s) == IF s = None \/ rows[s] = None THEN None ELSE rows[s].csrf

\* Without a user the answer is a redirection to the login page.
RequireAuth(t) ==
    /\ req[t].pc = "auth"
    /\ IF CurrentUser(req[t])
       THEN /\ Goto(t, CASE req[t].verb = "page" -> "page"
                         [] req[t].verb = "logout" -> "user"
                         [] req[t].verb = "action" -> "check")
            /\ UNCHANGED out
       ELSE Reply(t, Nothing)
    /\ UNCHANGED <<rows, browserVars, legacy>>

\* A new token, in the cookie and in the form; or, with a user, a redirection
\* to the first page.
GetLogin(t) ==
    /\ req[t].pc = "lookup"
    /\ \/ CurrentUser(req[t]) /\ Reply(t, Nothing)
       \/ /\ ~CurrentUser(req[t])
          /\ \E k \in Tokens :
                FreshToken(k) /\ Reply(t, Answer(LoginForm(k), FALSE, None, k))
    /\ UNCHANGED <<rows, browserVars, legacy>>

\* page, first statement: the session may have ended since requireAuth, and
\* tok is then empty.
PageUser(t) ==
    /\ req[t].pc = "page"
    /\ req' = [req EXCEPT ![t].pc = "read",
                          ![t].tok = IF CurrentUser(req[t])
                                     THEN req[t].sess ELSE None]
    /\ UNCHANGED <<rows, browserVars, out, legacy>>

ReadCSRFMutRenew(t) ==
    /\ req[t].pc = "read"
    /\ \E k \in Tokens :
        /\ FreshToken(k)
        /\ req' = [req EXCEPT ![t].pc = "attach", ![t].got = k]
    /\ UNCHANGED <<rows, browserVars, out, legacy>>

\* The page has the token of the session, or a new one.
ReadCSRF(t) ==
    /\ req[t].pc = "read"
    /\ LET csrf == SessionCSRF(req[t].tok)
       IN  IF csrf # None
           THEN Reply(t, Answer(PageForm(csrf, req[t].tok), FALSE, None, None))
           ELSE /\ \E k \in Tokens :
                    /\ FreshToken(k)
                    /\ req' = [req EXCEPT ![t].pc = "attach", ![t].got = k]
                /\ UNCHANGED out
    /\ UNCHANGED <<rows, browserVars, legacy>>

\* The UPDATE of SetSessionCSRF as an INSERT OR REPLACE.
SetSessionCSRFMutUpsert(s, k) ==
    rows' = IF s = None THEN rows
            ELSE [rows EXCEPT ![s] =
                    [ip |-> addr, expired |-> FALSE, csrf |-> k]]

SetSessionCSRF(s, k) ==
    rows' = IF s = None \/ rows[s] = None THEN rows
            ELSE [rows EXCEPT ![s].csrf = k]

Attach(t) ==
    /\ req[t].pc = "attach"
    /\ LET q == req[t]
       IN  /\ SetSessionCSRF(q.tok, q.got)
           /\ Reply(t, Answer(PageForm(q.got, q.tok), FALSE, None, None))
    /\ UNCHANGED <<browserVars, legacy>>

\* checkCSRF: the token of the session, or else the one of the cookie.
CheckCSRFMutPresent(q) == q.got # None

CheckCSRF(q) ==
    /\ q.got # None
    /\ q.got = IF SessionCSRF(q.sess) # None
               THEN SessionCSRF(q.sess) ELSE q.cookie

\* A token that is not the right one is a 403.
Check(t) ==
    /\ req[t].pc = "check"
    /\ IF CheckCSRF(req[t])
       THEN /\ req' = [req EXCEPT ![t].pc =
                            CASE req[t].verb = "postLogin" -> "verify"
                              [] req[t].verb = "logout" -> "delete"
                              [] req[t].verb = "action" -> "user",
                            ![t].got = None, ![t].cookie = None]
            /\ UNCHANGED out
       ELSE Reply(t, Nothing)
    /\ UNCHANGED <<rows, browserVars, legacy>>

\* postLogin: the limiter refuses, or the name, the password or the code is
\* wrong.  renderLoginError gives another form.
LoginFails(t) ==
    /\ req[t].pc = "verify"
    /\ \E k \in Tokens :
        FreshToken(k) /\ Reply(t, Answer(LoginForm(k), FALSE, None, k))
    /\ UNCHANGED <<rows, browserVars, legacy>>

\* The IP is left out of the row.
CreateSessionMutNoIP(s, ip, k) ==
    rows' = [rows EXCEPT ![s] = [ip |-> None, expired |-> FALSE, csrf |-> k]]

CreateSession(s, ip, k) ==
    rows' = [rows EXCEPT ![s] = [ip |-> ip, expired |-> FALSE, csrf |-> k]]

LoginSucceeds(t) ==
    /\ req[t].pc = "verify"
    /\ \E s \in Sids, k \in Tokens :
        /\ FreshSid(s) /\ FreshToken(k)
        /\ CreateSession(s, req[t].ip, k)
        /\ Reply(t, Answer(Blank, TRUE, s, None))
        /\ legacy' = legacy \ {s}
    /\ UNCHANGED browserVars

\* postLogout, first statement.
LogoutUser(t) ==
    /\ req[t].pc = "user" /\ req[t].verb = "logout"
    /\ req' = [req EXCEPT ![t].pc = "check",
                          ![t].tok = IF CurrentUser(req[t])
                                     THEN req[t].sess ELSE None]
    /\ UNCHANGED <<rows, browserVars, out, legacy>>

DeleteSession(t) ==
    /\ req[t].pc = "delete"
    /\ LET s == req[t].tok
       IN  rows' = IF s = None THEN rows ELSE [rows EXCEPT ![s] = None]
    /\ Reply(t, Answer(Blank, TRUE, None, None))
    /\ UNCHANGED <<browserVars, legacy>>

\* postAction, last statements: Collector.Action for the user (its effects are
\* in Collector.tla).  A session that ended since checkCSRF leaves a nil user:
\* the handler panics, net/http drops the connection and nothing is done.
Action(t) ==
    /\ req[t].pc = "user" /\ req[t].verb = "action"
    /\ Reply(t, Nothing)
    /\ UNCHANGED <<rows, browserVars, legacy>>

-----------------------------------------------------------------------------
Handle(t) ==
    \/ RequireAuth(t) \/ GetLogin(t) \/ PageUser(t) \/ ReadCSRF(t) \/ Attach(t)
    \/ Check(t) \/ LoginFails(t) \/ LoginSucceeds(t)
    \/ LogoutUser(t) \/ DeleteSession(t) \/ Action(t)

Next ==
    \/ \E t \in Tabs : (\E v \in Verbs : Send(t, v)) \/ Arrive(t) \/ Handle(t)
    \/ \E s \in Sids : Expire(s)
    \/ Move \/ CookieEnds \/ Purge

Spec == Init /\ [][Next]_vars

-----------------------------------------------------------------------------
(* Properties.                                                             *)

TypeOK ==
    /\ rows \in [Sids -> Maybe(Row)]
    /\ jar \in [sess : Maybe(Sids), csrf : Maybe(Tokens)]
    /\ addr \in Addrs
    /\ form \in [Tabs -> Form]
    /\ req \in [Tabs -> [pc : PCs, verb : Verbs, sess : Maybe(Sids),
                         cookie : Maybe(Tokens), ip : Maybe(Addrs),
                         got : Maybe(Tokens), of : Maybe(Sids),
                         tok : Maybe(Sids)]]
    /\ out \in [Tabs -> [form : Form, sets : BOOLEAN, sess : Maybe(Sids),
                         csrf : Maybe(Tokens)]]
    /\ legacy \subseteq Sids
    /\ moves \in 0..MaxMoves

\* store.go:177-181: the token is bound to the session for its whole life, so
\* that the form of a tab stays good whatever the other tabs load.  The page a
\* tab shows, made under the session the browser still has, carries the token
\* that checkCSRF is going to ask for.
PagesStayUsable ==
    \A t \in Tabs : form[t].kind = "page" =>
        LET s == form[t].sess
        IN  s # None /\ s = jar.sess /\ s \notin legacy /\ rows[s] # None =>
                form[t].csrf = rows[s].csrf

\* What an operator asks for is done under the session that showed the form,
\* never under one opened since in another tab, although cookies are shared
\* and the form may be older than the session it is sent with: what checkCSRF
\* let through has the two equal.
ActsUnderItsOwnSession ==
    \A t \in Tabs : req[t].pc = "user" /\ req[t].verb = "action" =>
        req[t].of = req[t].sess

\* The end of a session is final.  No page under way, which may still attach
\* its token to the session, brings the row back after the logout or the
\* purge: a row appears for a session token that nothing mentions yet.
EndIsFinal ==
    [][\A s \in Sids : rows[s] = None /\ rows'[s] # None => FreshSid(s)]_vars

-----------------------------------------------------------------------------
(* The inductive invariant behind the three (SessionsProofs).              *)

\* The verbs that reach each of the two steps the verb decides about; and a
\* request that is served has an address.
Routed ==
    \A t \in Tabs :
        /\ req[t].pc = "auth" => req[t].verb \in {"page", "logout", "action"}
        /\ req[t].pc = "check" => Posts(req[t].verb)
        /\ req[t].pc \notin {"idle", "arrive"} => req[t].ip # None

\* A tab holds k as the token of the pages of session s: a page shown or on
\* its way, an action not yet checked, a token about to be attached.
InTab(t, k, s) ==
    \/ form[t].kind = "page" /\ form[t].csrf = k /\ form[t].sess = s
    \/ /\ out[t].form.kind = "page"
       /\ out[t].form.csrf = k /\ out[t].form.sess = s
    \/ /\ req[t].verb = "action" /\ req[t].pc \in {"auth", "check"}
       /\ req[t].got = k /\ req[t].of = s
    \/ req[t].pc = "attach" /\ req[t].got = k /\ req[t].tok = s

InRow(k, s) == s \in Sids /\ rows[s] # None /\ rows[s].csrf = k

Bears(k, s) == InRow(k, s) \/ \E t \in Tabs : InTab(t, k, s)

\* k is, was or is about to be the CSRF cookie.
InCookie(k) ==
    jar.csrf = k \/ \E t \in Tabs : out[t].csrf = k \/ req[t].cookie = k

\* A token is for the pages of one session, and no cookie carries it.
OneOwner ==
    \A k \in Tokens, s \in Maybe(Sids) : Bears(k, s) =>
        ~InCookie(k) /\ \A u \in Maybe(Sids) : Bears(k, u) => u = s

\* And a session has one token, from its login to its end.
OneToken ==
    \A s \in Sids \ legacy : rows[s] # None =>
        /\ rows[s].csrf # None
        /\ \A k \in Maybe(Tokens) : Bears(k, s) => k = rows[s].csrf

IInv == /\ TypeOK /\ Routed /\ OneOwner /\ OneToken
        /\ ActsUnderItsOwnSession

-----------------------------------------------------------------------------
(* What the comments say and the code does not do.                         *)

\* server.go:276-277: before the login there is no session and the token is
\* the cookie's.  The login form the browser has just been given, with its
\* cookie, is accepted.
LoginFormIsAccepted ==
    \A t \in Tabs :
        form[t].kind = "login" /\ form[t].csrf = jar.csrf
            /\ ~SessionUser(jar.sess, addr) =>
        CheckCSRF([sess |-> jar.sess, got |-> form[t].csrf,
                   cookie |-> jar.csrf])
=============================================================================
