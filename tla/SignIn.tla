------------------------------- MODULE SignIn -------------------------------
(***************************************************************************)
(* Signing in: login, callback, logout, home and requireAuth of server.go  *)
(* over the signed values of session.go.                                   *)
(*                                                                         *)
(* The server keeps nothing of a login or a session: both live in cookies, *)
(* which all tabs of a browser share.  A request takes the cookies of the  *)
(* moment it is sent, a response changes them when it arrives, and either  *)
(* may be lost, so the tabs of a browser race for its cookies.  The server *)
(* answers in one step, except for callback, which waits for the identity  *)
(* provider between its checks and the session it hands out.               *)
(*                                                                         *)
(* State and nonce of a login are drawn together and travel together: both *)
(* are the number of the login here.  What the provider and the browsers   *)
(* do is external.                                                         *)
(***************************************************************************)
EXTENDS Integers, Sequences

CONSTANTS Browser,
          Tab,          (* tabs, each with one request at a time              *)
          BrowserOf,    (* the browser of each tab                            *)
          User,         (* subjects the provider knows                        *)
          None,         (* no cookie, no user, no URL                         *)
          Keep, Clear,  (* what a response does to a cookie it does not set   *)
          LoginLife,    (* life of an authRequest: 10 minutes                 *)
          SessionLife,  (* life of a session: 12 hours                        *)
          MaxLogins,    (* bounds of the model: logins,                       *)
          MaxChanges    (* and ticks and changes of SESSION_SECRET together   *)

ASSUME SignInAssumption ==
  /\ BrowserOf \in [Tab -> Browser]
  /\ None \notin User /\ Keep # Clear
  /\ LoginLife \in Nat \ {0} /\ SessionLife \in Nat \ {0}
  /\ MaxLogins \in Nat /\ MaxChanges \in Nat

\* None of the three can be taken for a cookie.
ASSUME TagAssumption ==
  {None, Keep, Clear} \cap ([state : Nat, expires : Nat, key : Nat]
                               \cup [sub : User, expires : Nat, key : Nat]) = {}

VARIABLES now,          (* the clock                                          *)
          key,          (* the signing key in force                           *)
          auth, sess,   (* each browser's two cookies                         *)
          pc,           (* what each tab is doing                             *)
          sent,         (* the cookie its request carried                     *)
          reply,        (* the response on its way                            *)
          at,           (* the login it takes to the provider                 *)
          url,          (* the callback URL it loads                          *)
          urls,         (* every callback URL that the provider has made      *)
          logins,       (* history: browser, time and key of each login       *)
          granted,      (* history: the sessions handed out                   *)
          alone         (* history: logins during which their browser did no  *)
                        (* other step of a login                              *)

cookieVars  == <<auth, sess>>
historyVars == <<logins, granted, alone>>
signInVars  == <<now, key, cookieVars, pc, sent, reply, at, url, urls, historyVars>>

Goto(t, where) == pc' = [pc EXCEPT ![t] = where]

\* The logins of browser b.
LoginsOf(b) == {n \in DOMAIN logins : logins[n].browser = b}

\* verify of session.go: the value was signed with the key in force.
Signed(value) == value # None /\ value.key = key

\* No other tab of t's browser is in the middle of a step of a login.
Alone(t) ==
  \A s \in Tab \ {t} : BrowserOf[s] = BrowserOf[t] =>
    pc[s] \notin {"login", "callback", "exchange"} /\ reply[s].auth = Keep

-----------------------------------------------------------------------------
(* Deviations, each a plausible bug, that the checks substitute for the    *)
(* definition of the same shape to see a property fail.                    *)

ValidOneTickMore(value) == Signed(value) /\ value.expires >= now

MatchesAnyState(t) == Signed(sent[t]) /\ sent[t].expires > now

CookieOptional(t) ==
  /\ pc[t] = "callback" /\ sent[t] = None /\ Goto(t, "exchange")
  /\ UNCHANGED <<now, key, cookieVars, sent, reply, at, url, urls, historyVars>>

LoginWith(t, authChange, sessChange) ==
  /\ pc[t] \in {"idle", "login"} /\ Len(logins) < MaxLogins
  /\ logins' = Append(logins, [browser |-> BrowserOf[t], time |-> now, key |-> key])
  /\ reply' = [reply EXCEPT ![t] = [status |-> "login", auth |-> authChange, sess |-> sessChange]]
  /\ at' = [at EXCEPT ![t] = Len(logins')]
  /\ alone' = (alone \ LoginsOf(BrowserOf[t])) \cup (IF Alone(t) THEN {Len(logins')} ELSE {})
  /\ Goto(t, "reply")
  /\ UNCHANGED <<now, key, cookieVars, sent, url, urls, granted>>

FreshRequest == [state |-> Len(logins) + 1, expires |-> now + LoginLife, key |-> key]

LoginKeepingCookie(t) ==
  LoginWith(t, IF auth[BrowserOf[t]] = None THEN FreshRequest ELSE Keep, Keep)

LoginEndingSession(t) == LoginWith(t, FreshRequest, Clear)
-----------------------------------------------------------------------------

\* valid of session.go, of a value that verify accepts.
Valid(value) == Signed(value) /\ value.expires > now

\* A cookie after a response.
After(cookie, change) ==
  IF change = Keep THEN cookie ELSE IF change = Clear THEN None ELSE change

NoReply == [status |-> "none", auth |-> Keep, sess |-> Keep]

\* The server answers tab t, with something for its cookies.
Answer(t, status, authChange, sessChange) ==
  /\ reply' = [reply EXCEPT ![t] = [status |-> status, auth |-> authChange, sess |-> sessChange]]
  /\ Goto(t, "reply")

\* The tab's request is over.
Forget(t) == sent' = [sent EXCEPT ![t] = None] /\ url' = [url EXCEPT ![t] = None]

\* The server answers tab t, and the answer changes no cookie.
AnswerPlainly(t) ==
  /\ Goto(t, "idle") /\ Forget(t)
  /\ UNCHANGED <<now, key, cookieVars, reply, at, urls, historyVars>>

SignInInit ==
  /\ now = 0 /\ key = 0
  /\ auth = [b \in Browser |-> None] /\ sess = [b \in Browser |-> None]
  /\ pc = [t \in Tab |-> "idle"] /\ sent = [t \in Tab |-> None]
  /\ reply = [t \in Tab |-> NoReply] /\ at = [t \in Tab |-> 0] /\ url = [t \in Tab |-> None]
  /\ urls = {} /\ logins = <<>> /\ granted = {} /\ alone = {}

(* ------------------------------- login --------------------------------- *)

\* login, which reads no cookie: a fresh request is signed into one, and the
\* tab is sent on.
Login(t) ==
  /\ pc[t] \in {"idle", "login"} /\ Len(logins) < MaxLogins
  /\ LET n == Len(logins) + 1 IN
       /\ logins' = Append(logins, [browser |-> BrowserOf[t], time |-> now, key |-> key])
       /\ Answer(t, "login", [state |-> n, expires |-> now + LoginLife, key |-> key], Keep)
       /\ at' = [at EXCEPT ![t] = n]
       /\ alone' = (alone \ LoginsOf(BrowserOf[t])) \cup (IF Alone(t) THEN {n} ELSE {})
  /\ UNCHANGED <<now, key, cookieVars, sent, url, urls, granted>>

\* External: the provider sends the tab back, with a code for the user that
\* signed in there, or with an error.
SendBack(t) ==
  /\ pc[t] = "provider" /\ Goto(t, "callback")
  /\ \E u \in User \cup {None} :
       /\ url' = [url EXCEPT ![t] = [state |-> at[t], user |-> u]]
       /\ urls' = urls \cup {url'[t]}
  /\ sent' = [sent EXCEPT ![t] = auth[BrowserOf[t]]] /\ at' = [at EXCEPT ![t] = 0]
  /\ alone' = alone \ (LoginsOf(BrowserOf[t]) \ {at[t]})
  /\ UNCHANGED <<now, key, cookieVars, reply, logins, granted>>

\* External: a callback URL is loaded once more, in its own browser or another.
Reload(t) ==
  /\ pc[t] = "idle" /\ Goto(t, "callback")
  /\ \E u \in urls : url' = [url EXCEPT ![t] = u]
  /\ sent' = [sent EXCEPT ![t] = auth[BrowserOf[t]]]
  /\ alone' = alone \ LoginsOf(BrowserOf[t])
  /\ UNCHANGED <<now, key, cookieVars, reply, at, urls, logins, granted>>

\* External: the tab leaves the provider; a redirected upload always does.
GiveUp(t) ==
  /\ pc[t] = "provider" /\ Goto(t, "idle") /\ at' = [at EXCEPT ![t] = 0]
  /\ UNCHANGED <<now, key, cookieVars, sent, reply, url, urls, historyVars>>

(* ------------------------------ callback ------------------------------- *)

\* The cookie is genuine, in time, and for the state of this URL.
Matches(t) == Valid(sent[t]) /\ sent[t].state = url[t].state

\* No cookie: 400, and nothing to clear.
CallbackWithoutCookie(t) ==
  /\ pc[t] = "callback" /\ sent[t] = None
  /\ AnswerPlainly(t)

\* The cookie does not match: it is cleared all the same.
CallbackRefused(t) ==
  /\ pc[t] = "callback" /\ sent[t] # None /\ ~Matches(t)
  /\ Answer(t, "400", Clear, Keep) /\ Forget(t)
  /\ UNCHANGED <<now, key, cookieVars, at, urls, historyVars>>

\* The provider reported an error.
CallbackDeclined(t) ==
  /\ pc[t] = "callback" /\ Matches(t) /\ url[t].user = None
  /\ Answer(t, "401", Clear, Keep) /\ Forget(t)
  /\ UNCHANGED <<now, key, cookieVars, at, urls, historyVars>>

\* The checks are passed, and Exchange calls the provider.
BeginExchange(t) ==
  /\ pc[t] = "callback" /\ Matches(t) /\ url[t].user # None
  /\ Goto(t, "exchange")
  /\ UNCHANGED <<now, key, cookieVars, sent, reply, at, url, urls, historyVars>>

\* External: logins whose code the provider has redeemed, once and for all.
Redeemed == {g.login : g \in granted}

\* The provider cannot be reached, has redeemed the code before (external),
\* or its token or claims do not do.
ExchangeFails(t) ==
  /\ pc[t] = "exchange"
  /\ Answer(t, "401", Clear, Keep) /\ Forget(t)
  /\ UNCHANGED <<now, key, cookieVars, at, urls, historyVars>>

\* The ID token has the nonce of the cookie: a session for its subject.
GrantSession(t) ==
  /\ pc[t] = "exchange" /\ url[t].state \notin Redeemed
  /\ Answer(t, "granted", Clear,
            [sub |-> url[t].user, expires |-> now + SessionLife, key |-> key])
  /\ Forget(t)
  /\ granted' = granted \cup
       {[login |-> url[t].state, browser |-> BrowserOf[t], sub |-> url[t].user,
         time |-> now, key |-> key]}
  /\ UNCHANGED <<now, key, cookieVars, at, urls, logins, alone>>

(* -------------------------- home, upload, logout ----------------------- *)

\* External: a tab with a session cookie asks for the page or sends a file.
\* (Without one, the page is the landing page and changes no cookie, and the
\* file is redirected: that is Login.)
Ask(t) ==
  /\ pc[t] = "idle" /\ sess[BrowserOf[t]] # None
  /\ \E what \in {"home", "upload"} : Goto(t, what)
  /\ sent' = [sent EXCEPT ![t] = sess[BrowserOf[t]]]
  /\ UNCHANGED <<now, key, cookieVars, reply, at, url, urls, historyVars>>

\* home and requireAuth find a session.  An upload is checked here and never
\* again, however long its body takes.
Serve(t) ==
  /\ pc[t] \in {"home", "upload"} /\ Valid(sent[t])
  /\ AnswerPlainly(t)

\* home shows the landing page, and clears a cookie that does not hold.
Land(t) ==
  /\ pc[t] = "home" /\ ~Valid(sent[t])
  /\ Answer(t, "landing", Keep, Clear)
  /\ UNCHANGED <<now, key, cookieVars, sent, at, url, urls, historyVars>>

\* requireAuth clears it too and sends the upload to /login, where its browser
\* follows.
Redirect(t) ==
  /\ pc[t] = "upload" /\ ~Valid(sent[t])
  /\ Answer(t, "redirect", Keep, Clear)
  /\ UNCHANGED <<now, key, cookieVars, sent, at, url, urls, historyVars>>

\* logout, which reads no cookie, by its button on the page of a session.
Logout(t) ==
  /\ pc[t] = "idle" /\ sess[BrowserOf[t]] # None
  /\ Answer(t, "logout", Keep, Clear)
  /\ UNCHANGED <<now, key, cookieVars, sent, at, url, urls, historyVars>>

(* ------------------------------ responses ------------------------------ *)

\* External: the response arrives, with its Set-Cookie headers.
Arrive(t) ==
  /\ pc[t] = "reply"
  /\ auth' = [auth EXCEPT ![BrowserOf[t]] = After(@, reply[t].auth)]
  /\ sess' = [sess EXCEPT ![BrowserOf[t]] = After(@, reply[t].sess)]
  /\ Goto(t, IF reply[t].status = "login" THEN "provider"
             ELSE IF reply[t].status = "redirect" THEN "login" ELSE "idle")
  /\ alone' = IF reply[t].status = "redirect" THEN alone \ LoginsOf(BrowserOf[t]) ELSE alone
  /\ reply' = [reply EXCEPT ![t] = NoReply] /\ Forget(t)
  /\ UNCHANGED <<now, key, at, urls, logins, granted>>

\* External: a response is lost, with the connection or with the process.
\* A lost request is one the server never saw.
Lose(t) ==
  /\ pc[t] \in {"exchange", "reply"} /\ Goto(t, "idle")
  /\ reply' = [reply EXCEPT ![t] = NoReply] /\ Forget(t)
  /\ UNCHANGED <<now, key, cookieVars, at, urls, historyVars>>

\* The server is started with another SESSION_SECRET; a callback that waits
\* for the provider dies with the old process.
ChangeKey ==
  /\ now + key < MaxChanges /\ key' = key + 1
  /\ pc' = [t \in Tab |-> IF pc[t] = "exchange" THEN "idle" ELSE pc[t]]
  /\ sent' = [t \in Tab |-> IF pc[t] = "exchange" THEN None ELSE sent[t]]
  /\ url' = [t \in Tab |-> IF pc[t] = "exchange" THEN None ELSE url[t]]
  /\ UNCHANGED <<now, cookieVars, reply, at, urls, historyVars>>

Tick ==
  /\ now + key < MaxChanges /\ now' = now + 1
  /\ UNCHANGED <<key, cookieVars, pc, sent, reply, at, url, urls, historyVars>>

\* External: a browser drops a cookie that is past its Max-Age.
Drop(b) ==
  /\ \/ /\ auth[b] # None /\ auth[b].expires <= now
        /\ auth' = [auth EXCEPT ![b] = None] /\ UNCHANGED sess
     \/ /\ sess[b] # None /\ sess[b].expires <= now
        /\ sess' = [sess EXCEPT ![b] = None] /\ UNCHANGED auth
  /\ UNCHANGED <<now, key, pc, sent, reply, at, url, urls, historyVars>>

SignInNext ==
  \/ \E t \in Tab :
       \/ Login(t) \/ SendBack(t) \/ Reload(t) \/ GiveUp(t)
       \/ CallbackWithoutCookie(t) \/ CallbackRefused(t) \/ CallbackDeclined(t)
       \/ BeginExchange(t) \/ ExchangeFails(t) \/ GrantSession(t)
       \/ Ask(t) \/ Serve(t) \/ Land(t) \/ Redirect(t) \/ Logout(t)
       \/ Arrive(t) \/ Lose(t)
  \/ ChangeKey \/ Tick
  \/ \E b \in Browser : Drop(b)

SignInSpec == SignInInit /\ [][SignInNext]_signInVars

-----------------------------------------------------------------------------
(* Properties.                                                             *)

AuthRequest == [state : 1..MaxLogins, expires : Nat, key : Nat]
Session == [sub : User, expires : Nat, key : Nat]
Reply == [status : {"none", "login", "granted", "400", "401", "landing", "redirect", "logout"},
          auth : AuthRequest \cup {Keep, Clear}, sess : Session \cup {Keep, Clear}]
Url == [state : 1..MaxLogins, user : User \cup {None}]

\* The variables have their types.
SignInTypeOK ==
  /\ now \in Nat /\ key \in Nat
  /\ auth \in [Browser -> AuthRequest \cup {None}]
  /\ sess \in [Browser -> Session \cup {None}]
  /\ pc \in [Tab -> {"idle", "login", "provider", "callback", "exchange", "home", "upload", "reply"}]
  /\ sent \in [Tab -> AuthRequest \cup Session \cup {None}]
  /\ reply \in [Tab -> Reply]
  /\ at \in [Tab -> 0..MaxLogins] /\ url \in [Tab -> Url \cup {None}]
  /\ urls \subseteq Url
  /\ logins \in Seq([browser : Browser, time : Nat, key : Nat]) /\ Len(logins) <= MaxLogins
  /\ granted \subseteq
       [login : 1..MaxLogins, browser : Browser, sub : User, time : Nat, key : Nat]
  /\ alone \subseteq 1..MaxLogins
  /\ \A t \in Tab : /\ pc[t] = "provider" => at[t] \in DOMAIN logins
                    /\ pc[t] = "exchange" => sent[t] \in AuthRequest /\ url[t] \in Url

\* Whichever tabs race and whichever callback URLs are loaded where, the
\* session of a browser is one of a user who signed in at the provider in
\* that browser: the state in the cookie (server.go:166-170) ties the
\* callback to the browser of its login.
SessionIsOwn ==
  \A b \in Browser : sess[b] # None =>
    \E u \in urls : u.user = sess[b].sub /\ logins[u.state].browser = b

\* Nobody is served (server.go:233, 262) without a session handed out to the
\* same browser, less than 12 hours ago, under the key in force.
ServedInTime ==
  [][\A t \in Tab :
       pc[t] \in {"home", "upload"} /\ pc'[t] = "idle" =>
         \E g \in granted : /\ g.browser = BrowserOf[t] /\ g.sub = sent[t].sub
                            /\ now < g.time + SessionLife /\ g.key = key]_signInVars

\* A browser that does one login at a time is refused with 400 only when the
\* user took 10 minutes or more or the key was changed: neither an earlier
\* login, finished or abandoned, nor its cookie gets in the way of a later
\* one.  Two logins at a time may both fail (server.go:163).
RefusedOnlyIfRaced ==
  [][\A t \in Tab :
       pc[t] = "callback" /\ (pc'[t] = "idle" \/ reply'[t].status = "400") =>
         LET n == url[t].state IN
           \/ n \notin alone \/ logins[n].browser # BrowserOf[t]
           \/ now >= logins[n].time + LoginLife \/ key # logins[n].key]_signInVars

\* A session that still holds leaves its browser only by a logout, or by the
\* late answer to a page or an upload that was asked for with an older cookie
\* (server.go:237, 263).
SessionLostOnlyTo ==
  [][\A b \in Browser :
       Valid(sess[b]) /\ sess'[b] = None =>
         \E t \in Tab : /\ BrowserOf[t] = b /\ pc[t] = "reply" /\ pc'[t] # "reply"
                        /\ \/ reply[t].status = "logout"
                           \/ /\ reply[t].status \in {"landing", "redirect"}
                              /\ sent[t] # sess[b]]_signInVars
=============================================================================
