---------------------------- MODULE SignIn_proofs ----------------------------
(***************************************************************************)
(* Theorems about SignIn: its types, whose session a browser holds and how *)
(* long it serves, and how a session is lost and a login refused.          *)
(***************************************************************************)
EXTENDS SignIn, SequenceTheorems, TLAPS

\* What a request on its way carries, and what a callback that waits for the
\* provider has been through.
InFlight ==
  \A t \in Tab :
    /\ pc[t] = "callback" => sent[t] \in AuthRequest \cup {None} /\ url[t] \in urls
    /\ pc[t] = "exchange" => /\ sent[t] \in AuthRequest /\ sent[t] # None
                             /\ url[t] \in urls /\ url[t].user \in User
                             /\ sent[t].state = url[t].state
    /\ pc[t] \in {"home", "upload"} => sent[t] \in Session
    /\ pc[t] = "reply" /\ reply[t].status = "login" => at[t] \in DOMAIN logins

\* The inductive invariant of the types.
TypeInv == SignInTypeOK /\ InFlight

LEMMA TypeInit == SignInInit => TypeInv
  <1> SUFFICES ASSUME SignInInit PROVE TypeInv
    OBVIOUS
  <1>1. NoReply \in Reply
    BY DEF NoReply, Reply
  <1>2. logins \in Seq([browser : Browser, time : Nat, key : Nat]) /\ Len(logins) = 0
    BY EmptySeq DEF SignInInit
  <1> QED
    BY <1>1, <1>2, SignInAssumption
    DEF SignInInit, TypeInv, SignInTypeOK, InFlight

LEMMA TypeStep == TypeInv /\ [SignInNext]_signInVars => TypeInv'
  <1> USE SignInAssumption
  <1> SUFFICES ASSUME TypeInv, [SignInNext]_signInVars PROVE TypeInv'
    OBVIOUS
  <1> USE DEF TypeInv, SignInTypeOK, InFlight, historyVars, cookieVars, Goto
  <1>1. ASSUME NEW t \in Tab, Login(t) PROVE TypeInv'
    <2> DEFINE n == Len(logins) + 1
               Record == [browser : Browser, time : Nat, key : Nat]
               new == [browser |-> BrowserOf[t], time |-> now, key |-> key]
    <2>1. new \in Record
      OBVIOUS
    <2>2. logins \in Seq(Record) /\ logins' = Append(logins, new)
      BY <1>1 DEF Login
    <2>3. logins' \in Seq(Record) /\ Len(logins') = n /\ n \in 1..MaxLogins
          /\ DOMAIN logins' = 1..n /\ DOMAIN logins = 1..Len(logins) /\ Len(logins) \in Nat
      BY <1>1, <2>1, <2>2, AppendProperties DEF Login
    <2> HIDE DEF Record, new
    <2>4. alone' \subseteq 1..MaxLogins
      BY <1>1, <2>3 DEF Login
    <2>5. reply' \in [Tab -> Reply]
      <3> DEFINE a == [state |-> n, expires |-> now + LoginLife, key |-> key]
      <3>1. a \in AuthRequest
        BY <2>3 DEF AuthRequest
      <3>2. reply' = [reply EXCEPT ![t] = [status |-> "login", auth |-> a, sess |-> Keep]]
        BY <1>1 DEF Login, Answer
      <3> HIDE DEF a
      <3>3. [status |-> "login", auth |-> a, sess |-> Keep] \in Reply
        BY <3>1 DEF Reply
      <3> QED
        BY <3>2, <3>3
    <2>6. at' \in [Tab -> 0..MaxLogins] /\ pc'[t] = "reply" /\ at'[t] = n
          /\ \A s \in Tab \ {t} : pc'[s] = pc[s] /\ at'[s] = at[s]
      BY <1>1, <2>3 DEF Login, Answer
    <2>7. UNCHANGED <<now, key, auth, sess, sent, url, urls, granted>>
      BY <1>1 DEF Login
    <2>8. pc' \in [Tab -> {"idle", "login", "provider", "callback", "exchange", "home", "upload", "reply"}]
      BY <1>1 DEF Login, Answer
    <2>9. \A s \in Tab \ {t} : reply'[s] = reply[s]
      BY <1>1 DEF Login, Answer
    <2>10. SignInTypeOK'
      <3>1. logins' \in Seq(Record) /\ Len(logins') <= MaxLogins
        BY <2>3
      <3>2. \A s \in Tab : /\ pc'[s] = "provider" => at'[s] \in DOMAIN logins'
                           /\ pc'[s] = "exchange" => sent'[s] \in AuthRequest /\ url'[s] \in Url
        <4>1. DOMAIN logins \subseteq DOMAIN logins'
          BY <2>3
        <4>2. ASSUME NEW s \in Tab, s # t
              PROVE  /\ pc'[s] = "provider" => at'[s] \in DOMAIN logins'
                     /\ pc'[s] = "exchange" => sent'[s] \in AuthRequest /\ url'[s] \in Url
          BY <2>6, <2>7, <4>1, <4>2
        <4> QED
          BY <2>6, <4>2
      <3> QED
        BY <2>4, <2>5, <2>6, <2>7, <2>8, <3>1, <3>2 DEF Record
    <2>11. InFlight'
      BY <2>3, <2>6, <2>7, <2>9
    <2> QED
      BY <2>10, <2>11
  <1>2. ASSUME NEW t \in Tab, SendBack(t) PROVE TypeInv'
    <2>1. PICK u \in User \cup {None} :
            /\ url' = [url EXCEPT ![t] = [state |-> at[t], user |-> u]]
            /\ urls' = urls \cup {url'[t]}
      BY <1>2 DEF SendBack
    <2>2. at[t] \in 1..MaxLogins
      BY <1>2 DEF SendBack
    <2>3. [state |-> at[t], user |-> u] \in Url
      BY <2>2 DEF Url
    <2>4. url'[t] = [state |-> at[t], user |-> u]
      BY <2>1
    <2>5. url' \in [Tab -> Url \cup {None}] /\ urls' \subseteq Url
      BY <2>1, <2>3, <2>4
    <2>6. sent'[t] \in AuthRequest \cup {None} /\ sent' \in [Tab -> AuthRequest \cup Session \cup {None}]
      BY <1>2 DEF SendBack
    <2>7. /\ pc' \in [Tab -> {"idle", "login", "provider", "callback", "exchange", "home", "upload", "reply"}]
          /\ pc'[t] = "callback" /\ at' \in [Tab -> 0..MaxLogins]
      BY <1>2 DEF SendBack
    <2>8. alone' \subseteq 1..MaxLogins
      BY <1>2 DEF SendBack
    <2>9. UNCHANGED <<now, key, auth, sess, reply, logins, granted>>
      BY <1>2 DEF SendBack
    <2>10. \A s \in Tab \ {t} : /\ pc'[s] = pc[s] /\ sent'[s] = sent[s]
                                 /\ url'[s] = url[s] /\ at'[s] = at[s]
      BY <1>2, <2>1 DEF SendBack
    <2>11. SignInTypeOK'
      BY <2>5, <2>6, <2>7, <2>8, <2>9, <2>10
    <2>12. InFlight'
      BY <2>1, <2>6, <2>7, <2>9, <2>10
    <2> QED
      BY <2>11, <2>12
  <1>3. ASSUME NEW t \in Tab, Reload(t) PROVE TypeInv'
    BY <1>3 DEF Reload
  <1>4. ASSUME NEW t \in Tab, GiveUp(t) PROVE TypeInv'
    BY <1>4 DEF GiveUp
  <1>5. ASSUME NEW t \in Tab, CallbackWithoutCookie(t) PROVE TypeInv'
    BY <1>5 DEF CallbackWithoutCookie, AnswerPlainly, Forget
  <1>6. ASSUME NEW t \in Tab, CallbackRefused(t) PROVE TypeInv'
    BY <1>6 DEF CallbackRefused, Answer, Forget, Reply
  <1>7. ASSUME NEW t \in Tab, CallbackDeclined(t) PROVE TypeInv'
    BY <1>7 DEF CallbackDeclined, Answer, Forget, Reply
  <1>8. ASSUME NEW t \in Tab, BeginExchange(t) PROVE TypeInv'
    BY <1>8 DEF BeginExchange, Matches, Valid, Signed, Url
  <1>9. ASSUME NEW t \in Tab, ExchangeFails(t) PROVE TypeInv'
    BY <1>9 DEF ExchangeFails, Answer, Forget, Reply
  <1>10. ASSUME NEW t \in Tab, GrantSession(t) PROVE TypeInv'
    BY <1>10 DEF GrantSession, Answer, Forget, Reply, Session, Url
  <1>11. ASSUME NEW t \in Tab, Ask(t) PROVE TypeInv'
    BY <1>11 DEF Ask
  <1>12. ASSUME NEW t \in Tab, Serve(t) PROVE TypeInv'
    BY <1>12 DEF Serve, AnswerPlainly, Forget
  <1>13. ASSUME NEW t \in Tab, Land(t) PROVE TypeInv'
    BY <1>13 DEF Land, Answer, Reply
  <1>14. ASSUME NEW t \in Tab, Redirect(t) PROVE TypeInv'
    BY <1>14 DEF Redirect, Answer, Reply
  <1>15. ASSUME NEW t \in Tab, Logout(t) PROVE TypeInv'
    BY <1>15 DEF Logout, Answer, Reply
  <1>16. ASSUME NEW t \in Tab, Arrive(t) PROVE TypeInv'
    <2> DEFINE b == BrowserOf[t]
    <2>1. NoReply \in Reply
      BY DEF NoReply, Reply
    <2>2. reply' \in [Tab -> Reply]
      BY <1>16, <2>1 DEF Arrive
    <2>3. /\ After(auth[b], reply[t].auth) \in AuthRequest \cup {None}
          /\ After(sess[b], reply[t].sess) \in Session \cup {None}
      BY DEF After, Reply
    <2>4. auth' \in [Browser -> AuthRequest \cup {None}] /\ sess' \in [Browser -> Session \cup {None}]
      BY <1>16, <2>3 DEF Arrive
    <2>5. /\ pc' \in [Tab -> {"idle", "login", "provider", "callback", "exchange", "home", "upload", "reply"}]
          /\ pc'[t] \in {"idle", "login", "provider"}
          /\ \A s \in Tab \ {t} : pc'[s] = pc[s]
      BY <1>16 DEF Arrive
    <2>6. pc'[t] = "provider" => at[t] \in DOMAIN logins
      BY <1>16 DEF Arrive
    <2>7. UNCHANGED <<now, key, logins, urls, granted, at>> /\ alone' \subseteq 1..MaxLogins
      BY <1>16 DEF Arrive
    <2>8. sent' \in [Tab -> AuthRequest \cup Session \cup {None}] /\ url' \in [Tab -> Url \cup {None}]
      BY <1>16 DEF Arrive, Forget
    <2>9. \A s \in Tab \ {t} : sent'[s] = sent[s] /\ url'[s] = url[s]
      BY <1>16 DEF Arrive, Forget
    <2>10. \A s \in Tab \ {t} : reply'[s] = reply[s]
      BY <1>16 DEF Arrive
    <2>11. SignInTypeOK'
      BY <2>2, <2>4, <2>5, <2>6, <2>7, <2>8, <2>9
    <2>12. InFlight'
      BY <2>5, <2>7, <2>9, <2>10
    <2> QED
      BY <2>11, <2>12
  <1>17. ASSUME NEW t \in Tab, Lose(t) PROVE TypeInv'
    BY <1>17 DEF Lose, Forget, Reply, NoReply
  <1>18. CASE ChangeKey
    BY <1>18 DEF ChangeKey
  <1>19. CASE Tick
    BY <1>19 DEF Tick
  <1>20. ASSUME NEW b \in Browser, Drop(b) PROVE TypeInv'
    BY <1>20 DEF Drop
  <1>21. CASE UNCHANGED signInVars
    BY <1>21 DEF signInVars
  <1> QED
    BY <1>1, <1>2, <1>3, <1>4, <1>5, <1>6, <1>7, <1>8, <1>9, <1>10, <1>11, <1>12,
       <1>13, <1>14, <1>15, <1>16, <1>17, <1>18, <1>19, <1>20, <1>21
    DEF SignInNext

LEMMA TypeInvariant == SignInSpec => []TypeInv
  BY TypeInit, TypeStep, PTL DEF SignInSpec

\* Requests, responses and cookies only ever carry values of their kind, and
\* a callback that waits for the provider (server.go:176) has a cookie.
THEOREM SignInTypeCorrect == SignInSpec => []SignInTypeOK
  BY TypeInvariant, PTL DEF TypeInv

-----------------------------------------------------------------------------
(* Whose session it is.                                                    *)

\* The users that signed in at the provider in a login of browser b.
UsersOf(b) == {c.user : c \in {d \in urls : d.state \in LoginsOf(b)}}

\* The cookies of a browser belong to its logins, ...
OwnCookies(b) ==
  /\ auth[b] # None => auth[b].state \in LoginsOf(b)
  /\ sess[b] # None => sess[b].sub \in UsersOf(b)

\* ... and so do those on the way to it and from it.
OwnTraffic(t) ==
  /\ reply[t].auth \notin {Keep, Clear} => reply[t].auth.state \in LoginsOf(BrowserOf[t])
  /\ reply[t].sess \notin {Keep, Clear} => reply[t].sess.sub \in UsersOf(BrowserOf[t])
  /\ pc[t] \in {"callback", "exchange"} /\ sent[t] # None =>
       sent[t].state \in LoginsOf(BrowserOf[t])

OwnInv ==
  /\ \A b \in Browser : OwnCookies(b)
  /\ \A t \in Tab : OwnTraffic(t)

LEMMA OwnStep == TypeInv /\ OwnInv /\ [SignInNext]_signInVars => OwnInv'
  <1> SUFFICES ASSUME TypeInv, OwnInv, [SignInNext]_signInVars PROVE OwnInv'
    OBVIOUS
  <1>dom. /\ DOMAIN auth = Browser /\ DOMAIN sess = Browser
          /\ DOMAIN pc = Tab /\ DOMAIN sent = Tab /\ DOMAIN reply = Tab
          /\ \A t \in Tab : BrowserOf[t] \in Browser
    BY SignInAssumption DEF TypeInv, SignInTypeOK
  <1>same. ASSUME UNCHANGED <<logins, urls>>
           PROVE  \A b \in Browser : LoginsOf(b)' = LoginsOf(b) /\ UsersOf(b)' = UsersOf(b)
    BY <1>same DEF LoginsOf, UsersOf
  <1> USE DEF OwnInv, OwnCookies, OwnTraffic, historyVars, cookieVars, Goto
  <1>1. ASSUME NEW t \in Tab, Login(t) PROVE OwnInv'
    <2> DEFINE n == Len(logins) + 1
               Record == [browser : Browser, time : Nat, key : Nat]
               new == [browser |-> BrowserOf[t], time |-> now, key |-> key]
    <2>1. new \in Record /\ logins \in Seq(Record) /\ logins' = Append(logins, new)
      BY <1>1, <1>dom DEF Login, TypeInv, SignInTypeOK
    <2>2. /\ DOMAIN logins' = 1..n /\ DOMAIN logins = 1..Len(logins) /\ Len(logins) \in Nat
          /\ \A i \in 1..Len(logins) : logins'[i] = logins[i]
          /\ logins'[n] = new
      BY <2>1, AppendProperties
    <2>3. n \in LoginsOf(BrowserOf[t])'
      BY <2>2 DEF LoginsOf
    <2>4. \A b \in Browser : LoginsOf(b) \subseteq LoginsOf(b)'
      BY <2>2 DEF LoginsOf
    <2>5. \A b \in Browser : UsersOf(b) \subseteq UsersOf(b)'
      BY <1>1, <2>4 DEF UsersOf, Login
    <2>6. /\ reply'[t].auth.state = n /\ reply'[t].sess = Keep /\ pc'[t] = "reply"
          /\ \A s \in Tab \ {t} : reply'[s] = reply[s] /\ pc'[s] = pc[s]
          /\ UNCHANGED <<auth, sess, sent>>
      BY <1>1, <1>dom DEF Login, Answer
    <2>7. \A b \in Browser : OwnCookies(b)'
      BY <2>4, <2>5, <2>6
    <2>8. \A s \in Tab : OwnTraffic(s)'
      BY <1>dom, <2>3, <2>4, <2>5, <2>6
    <2> QED
      BY <2>7, <2>8
  <1>2. ASSUME NEW t \in Tab, SendBack(t) PROVE OwnInv'
    <2>1. \A b \in Browser : LoginsOf(b)' = LoginsOf(b) /\ UsersOf(b) \subseteq UsersOf(b)'
      BY <1>2 DEF SendBack, LoginsOf, UsersOf
    <2>2. /\ UNCHANGED <<auth, sess, reply>> /\ sent'[t] = auth[BrowserOf[t]]
          /\ \A s \in Tab \ {t} : sent'[s] = sent[s] /\ pc'[s] = pc[s]
      BY <1>2, <1>dom DEF SendBack
    <2>3. \A b \in Browser : OwnCookies(b)'
      BY <2>1, <2>2
    <2>4. \A s \in Tab : OwnTraffic(s)'
      BY <1>dom, <2>1, <2>2
    <2> QED
      BY <2>3, <2>4
  <1>3. ASSUME NEW t \in Tab, Reload(t) PROVE OwnInv'
    <2>1. UNCHANGED <<logins, urls>> /\ UNCHANGED <<auth, sess, reply>>
      BY <1>3 DEF Reload
    <2>2. /\ sent'[t] = auth[BrowserOf[t]]
          /\ \A s \in Tab \ {t} : sent'[s] = sent[s] /\ pc'[s] = pc[s]
      BY <1>3, <1>dom DEF Reload
    <2> QED
      BY <1>dom, <1>same, <2>1, <2>2
  <1>4. ASSUME NEW t \in Tab, GiveUp(t) PROVE OwnInv'
    BY <1>4, <1>dom, <1>same DEF GiveUp
  <1>5. ASSUME NEW t \in Tab, CallbackWithoutCookie(t) PROVE OwnInv'
    BY <1>5, <1>dom, <1>same DEF CallbackWithoutCookie, AnswerPlainly, Forget
  <1>6. ASSUME NEW t \in Tab, CallbackRefused(t) PROVE OwnInv'
    BY <1>6, <1>dom, <1>same DEF CallbackRefused, Answer, Forget
  <1>7. ASSUME NEW t \in Tab, CallbackDeclined(t) PROVE OwnInv'
    BY <1>7, <1>dom, <1>same DEF CallbackDeclined, Answer, Forget
  <1>8. ASSUME NEW t \in Tab, BeginExchange(t) PROVE OwnInv'
    BY <1>8, <1>dom, <1>same DEF BeginExchange
  <1>9. ASSUME NEW t \in Tab, ExchangeFails(t) PROVE OwnInv'
    BY <1>9, <1>dom, <1>same DEF ExchangeFails, Answer, Forget
  <1>10. ASSUME NEW t \in Tab, GrantSession(t) PROVE OwnInv'
    <2>1. UNCHANGED <<logins, urls>> /\ UNCHANGED <<auth, sess>>
      BY <1>10 DEF GrantSession
    <2>2. url[t].user \in UsersOf(BrowserOf[t])
      <3>1. url[t] \in urls /\ sent[t] # None /\ sent[t].state = url[t].state /\ pc[t] = "exchange"
        BY <1>10 DEF GrantSession, TypeInv, InFlight
      <3>2. url[t].state \in LoginsOf(BrowserOf[t])
        BY <3>1
      <3> QED
        BY <3>1, <3>2 DEF UsersOf
    <2>3. /\ reply'[t].auth = Clear /\ reply'[t].sess.sub = url[t].user /\ pc'[t] = "reply"
          /\ \A s \in Tab \ {t} : reply'[s] = reply[s] /\ pc'[s] = pc[s] /\ sent'[s] = sent[s]
      BY <1>10, <1>dom DEF GrantSession, Answer, Forget
    <2> QED
      BY <1>dom, <1>same, <2>1, <2>2, <2>3
  <1>11. ASSUME NEW t \in Tab, Ask(t) PROVE OwnInv'
    BY <1>11, <1>dom, <1>same DEF Ask
  <1>12. ASSUME NEW t \in Tab, Serve(t) PROVE OwnInv'
    BY <1>12, <1>dom, <1>same DEF Serve, AnswerPlainly, Forget
  <1>13. ASSUME NEW t \in Tab, Land(t) PROVE OwnInv'
    BY <1>13, <1>dom, <1>same DEF Land, Answer
  <1>14. ASSUME NEW t \in Tab, Redirect(t) PROVE OwnInv'
    BY <1>14, <1>dom, <1>same DEF Redirect, Answer
  <1>15. ASSUME NEW t \in Tab, Logout(t) PROVE OwnInv'
    BY <1>15, <1>dom, <1>same DEF Logout, Answer
  <1>16. ASSUME NEW t \in Tab, Arrive(t) PROVE OwnInv'
    <2> DEFINE b == BrowserOf[t]
    <2>1. UNCHANGED <<logins, urls>>
      BY <1>16 DEF Arrive
    <2>2. /\ auth'[b] = After(auth[b], reply[t].auth) /\ sess'[b] = After(sess[b], reply[t].sess)
          /\ \A d \in Browser \ {b} : auth'[d] = auth[d] /\ sess'[d] = sess[d]
      BY <1>16, <1>dom DEF Arrive
    <2>3. /\ auth'[b] # None => auth'[b].state \in LoginsOf(b)
          /\ sess'[b] # None => sess'[b].sub \in UsersOf(b)
      BY <2>2, <1>dom DEF After
    <2>4. /\ reply'[t].auth = Keep /\ reply'[t].sess = Keep
          /\ pc'[t] \notin {"callback", "exchange"}
          /\ \A s \in Tab \ {t} : reply'[s] = reply[s] /\ pc'[s] = pc[s] /\ sent'[s] = sent[s]
      BY <1>16, <1>dom DEF Arrive, Forget, NoReply
    <2>5. \A d \in Browser : OwnCookies(d)'
      BY <1>same, <2>1, <2>2, <2>3
    <2>6. \A s \in Tab : OwnTraffic(s)'
      BY <1>dom, <1>same, <2>1, <2>4
    <2> QED
      BY <2>5, <2>6
  <1>17. ASSUME NEW t \in Tab, Lose(t) PROVE OwnInv'
    BY <1>17, <1>dom, <1>same DEF Lose, Forget, NoReply
  <1>18. CASE ChangeKey
    BY <1>18, <1>dom, <1>same DEF ChangeKey
  <1>19. CASE Tick
    BY <1>19, <1>dom, <1>same DEF Tick
  <1>20. ASSUME NEW b \in Browser, Drop(b) PROVE OwnInv'
    <2>1. UNCHANGED <<logins, urls>> /\ UNCHANGED <<pc, sent, reply>>
      BY <1>20 DEF Drop
    <2>2. \A d \in Browser : auth'[d] \in {auth[d], None} /\ sess'[d] \in {sess[d], None}
      BY <1>20, <1>dom DEF Drop
    <2>3. \A d \in Browser : OwnCookies(d)'
      BY <1>same, <2>1, <2>2
    <2>4. \A s \in Tab : OwnTraffic(s)'
      BY <1>dom, <1>same, <2>1
    <2> QED
      BY <2>3, <2>4
  <1>21. CASE UNCHANGED signInVars
    BY <1>21, <1>dom, <1>same DEF signInVars
  <1> QED
    BY <1>1, <1>2, <1>3, <1>4, <1>5, <1>6, <1>7, <1>8, <1>9, <1>10, <1>11, <1>12,
       <1>13, <1>14, <1>15, <1>16, <1>17, <1>18, <1>19, <1>20, <1>21
    DEF SignInNext

\* For any number of browsers, tabs, users, logins and changes of the key, a
\* browser only ever holds the session of a user who signed in at the
\* provider in that browser (server.go:157-218).
THEOREM SessionsAreOwn == SignInSpec => []SessionIsOwn
<1>1. SignInInit => OwnInv
  BY DEF SignInInit, OwnInv, OwnCookies, OwnTraffic, NoReply
<1>2. TypeInv /\ OwnInv => SessionIsOwn
  BY DEF OwnInv, OwnCookies, SessionIsOwn, UsersOf, LoginsOf
<1> QED
  BY <1>1, <1>2, OwnStep, TypeInvariant, PTL DEF SignInSpec

-----------------------------------------------------------------------------
(* How long a session serves.                                              *)

\* The sessions that browser b was handed out.
HandedTo(b) ==
  {[sub |-> g.sub, expires |-> g.time + SessionLife, key |-> g.key] :
     g \in {h \in granted : h.browser = b}}

\* Every session a browser has, or a tab has on the way to it or from it, is
\* one of them.
BackedTraffic(t) ==
  /\ reply[t].sess \notin {Keep, Clear} => reply[t].sess \in HandedTo(BrowserOf[t])
  /\ pc[t] \in {"home", "upload"} => sent[t] \in HandedTo(BrowserOf[t])

BackedInv ==
  /\ \A b \in Browser : sess[b] # None => sess[b] \in HandedTo(b)
  /\ \A t \in Tab : BackedTraffic(t)

LEMMA BackedStep == TypeInv /\ BackedInv /\ [SignInNext]_signInVars => BackedInv'
  <1> SUFFICES ASSUME TypeInv, BackedInv, [SignInNext]_signInVars PROVE BackedInv'
    OBVIOUS
  <1>dom. /\ DOMAIN sess = Browser
          /\ DOMAIN pc = Tab /\ DOMAIN sent = Tab /\ DOMAIN reply = Tab
          /\ \A t \in Tab : BrowserOf[t] \in Browser
    BY SignInAssumption DEF TypeInv, SignInTypeOK
  <1>same. ASSUME UNCHANGED granted PROVE \A b \in Browser : HandedTo(b)' = HandedTo(b)
    BY <1>same DEF HandedTo
  <1> USE DEF BackedInv, BackedTraffic, historyVars, cookieVars, Goto
  <1>1. ASSUME NEW t \in Tab, Login(t) PROVE BackedInv'
    BY <1>1, <1>dom, <1>same DEF Login, Answer
  <1>2. ASSUME NEW t \in Tab, SendBack(t) PROVE BackedInv'
    BY <1>2, <1>dom, <1>same DEF SendBack
  <1>3. ASSUME NEW t \in Tab, Reload(t) PROVE BackedInv'
    BY <1>3, <1>dom, <1>same DEF Reload
  <1>4. ASSUME NEW t \in Tab, GiveUp(t) PROVE BackedInv'
    BY <1>4, <1>dom, <1>same DEF GiveUp
  <1>5. ASSUME NEW t \in Tab, CallbackWithoutCookie(t) PROVE BackedInv'
    BY <1>5, <1>dom, <1>same DEF CallbackWithoutCookie, AnswerPlainly, Forget
  <1>6. ASSUME NEW t \in Tab, CallbackRefused(t) PROVE BackedInv'
    BY <1>6, <1>dom, <1>same DEF CallbackRefused, Answer, Forget
  <1>7. ASSUME NEW t \in Tab, CallbackDeclined(t) PROVE BackedInv'
    BY <1>7, <1>dom, <1>same DEF CallbackDeclined, Answer, Forget
  <1>8. ASSUME NEW t \in Tab, BeginExchange(t) PROVE BackedInv'
    BY <1>8, <1>dom, <1>same DEF BeginExchange
  <1>9. ASSUME NEW t \in Tab, ExchangeFails(t) PROVE BackedInv'
    BY <1>9, <1>dom, <1>same DEF ExchangeFails, Answer, Forget
  <1>10. ASSUME NEW t \in Tab, GrantSession(t) PROVE BackedInv'
    <2> DEFINE g == [login |-> url[t].state, browser |-> BrowserOf[t], sub |-> url[t].user,
                     time |-> now, key |-> key]
    <2>1. granted' = granted \cup {g} /\ UNCHANGED sess
      BY <1>10 DEF GrantSession
    <2>2. /\ reply'[t].sess = [sub |-> g.sub, expires |-> g.time + SessionLife, key |-> g.key]
          /\ pc'[t] = "reply"
          /\ \A s \in Tab \ {t} : reply'[s] = reply[s] /\ pc'[s] = pc[s] /\ sent'[s] = sent[s]
      BY <1>10, <1>dom DEF GrantSession, Answer, Forget
    <2>3. g.browser = BrowserOf[t]
      OBVIOUS
    <2> HIDE DEF g
    <2>4. \A b \in Browser : HandedTo(b) \subseteq HandedTo(b)'
      BY <2>1 DEF HandedTo
    <2>5. reply'[t].sess \in HandedTo(BrowserOf[t])'
      BY <2>1, <2>2, <2>3 DEF HandedTo
    <2> QED
      BY <1>dom, <2>1, <2>2, <2>4, <2>5
  <1>11. ASSUME NEW t \in Tab, Ask(t) PROVE BackedInv'
    BY <1>11, <1>dom, <1>same DEF Ask
  <1>12. ASSUME NEW t \in Tab, Serve(t) PROVE BackedInv'
    BY <1>12, <1>dom, <1>same DEF Serve, AnswerPlainly, Forget
  <1>13. ASSUME NEW t \in Tab, Land(t) PROVE BackedInv'
    BY <1>13, <1>dom, <1>same DEF Land, Answer
  <1>14. ASSUME NEW t \in Tab, Redirect(t) PROVE BackedInv'
    BY <1>14, <1>dom, <1>same DEF Redirect, Answer
  <1>15. ASSUME NEW t \in Tab, Logout(t) PROVE BackedInv'
    BY <1>15, <1>dom, <1>same DEF Logout, Answer
  <1>16. ASSUME NEW t \in Tab, Arrive(t) PROVE BackedInv'
    <2> DEFINE b == BrowserOf[t]
    <2>1. /\ UNCHANGED granted
          /\ sess'[b] = After(sess[b], reply[t].sess)
          /\ \A d \in Browser \ {b} : sess'[d] = sess[d]
      BY <1>16, <1>dom DEF Arrive
    <2>2. /\ reply'[t].sess = Keep /\ pc'[t] \notin {"home", "upload"}
          /\ \A s \in Tab \ {t} : reply'[s] = reply[s] /\ pc'[s] = pc[s] /\ sent'[s] = sent[s]
      BY <1>16, <1>dom DEF Arrive, Forget, NoReply
    <2>3. \A d \in Browser : sess'[d] # None => sess'[d] \in HandedTo(d)
      BY <1>dom, <2>1 DEF After
    <2> QED
      BY <1>dom, <1>same, <2>1, <2>2, <2>3
  <1>17. ASSUME NEW t \in Tab, Lose(t) PROVE BackedInv'
    BY <1>17, <1>dom, <1>same DEF Lose, Forget, NoReply
  <1>18. CASE ChangeKey
    BY <1>18, <1>dom, <1>same DEF ChangeKey
  <1>19. CASE Tick
    BY <1>19, <1>dom, <1>same DEF Tick
  <1>20. ASSUME NEW b \in Browser, Drop(b) PROVE BackedInv'
    <2>1. UNCHANGED granted /\ UNCHANGED <<pc, sent, reply>>
      BY <1>20 DEF Drop
    <2>2. \A d \in Browser : sess'[d] \in {sess[d], None}
      BY <1>20, <1>dom DEF Drop
    <2> QED
      BY <1>dom, <1>same, <2>1, <2>2
  <1>21. CASE UNCHANGED signInVars
    BY <1>21, <1>dom, <1>same DEF signInVars
  <1> QED
    BY <1>1, <1>2, <1>3, <1>4, <1>5, <1>6, <1>7, <1>8, <1>9, <1>10, <1>11, <1>12,
       <1>13, <1>14, <1>15, <1>16, <1>17, <1>18, <1>19, <1>20, <1>21
    DEF SignInNext

\* home and requireAuth (server.go:229-269) serve nobody without a session
\* that was handed out to the same browser, less than SessionLife ago and
\* under the key in force.
THEOREM ServedOnlyInTime == SignInSpec => ServedInTime
<1> DEFINE Due(t) == \E g \in granted : /\ g.browser = BrowserOf[t] /\ g.sub = sent[t].sub
                                        /\ now < g.time + SessionLife /\ g.key = key
           Step == \A t \in Tab : pc[t] \in {"home", "upload"} /\ pc'[t] = "idle" => Due(t)
<1>1. SignInInit => BackedInv
  BY DEF SignInInit, BackedInv, BackedTraffic, NoReply
<1>2. TypeInv /\ BackedInv /\ [SignInNext]_signInVars => [Step]_signInVars
  <2> SUFFICES ASSUME TypeInv, BackedInv, SignInNext,
                      NEW t \in Tab, pc[t] \in {"home", "upload"}, pc'[t] = "idle"
               PROVE  Due(t)
    OBVIOUS
  <2>1. Serve(t)
    <3>1. DOMAIN pc = Tab
      BY DEF TypeInv, SignInTypeOK
    <3>2. ~(ChangeKey \/ Tick \/ \E b \in Browser : Drop(b))
      BY <3>1 DEF ChangeKey, Tick, Drop
    <3>3. PICK s \in Tab :
            \/ Login(s) \/ SendBack(s) \/ Reload(s) \/ GiveUp(s)
            \/ CallbackWithoutCookie(s) \/ CallbackRefused(s) \/ CallbackDeclined(s)
            \/ BeginExchange(s) \/ ExchangeFails(s) \/ GrantSession(s)
            \/ Ask(s) \/ Serve(s) \/ Land(s) \/ Redirect(s) \/ Logout(s)
            \/ Arrive(s) \/ Lose(s)
      BY <3>2 DEF SignInNext
    <3>4. s = t
      <4>1. s # t => pc'[t] = pc[t]
        BY <3>1, <3>3
        DEF Goto, Login, SendBack, Reload, GiveUp, CallbackWithoutCookie, CallbackRefused,
            CallbackDeclined, BeginExchange, ExchangeFails, GrantSession, Ask, Serve, Land,
            Redirect, Logout, Arrive, Lose, Answer, AnswerPlainly
      <4> QED
        BY <4>1
    <3> QED
      BY <3>1, <3>3, <3>4
      DEF Login, SendBack, Reload, GiveUp, CallbackWithoutCookie, CallbackRefused,
          CallbackDeclined, BeginExchange, ExchangeFails, GrantSession, Ask, Land,
          Redirect, Logout, Arrive, Lose, Answer, AnswerPlainly, Goto
  <2>2. PICK g \in granted : /\ g.browser = BrowserOf[t] /\ g.sub = sent[t].sub
                             /\ g.key = sent[t].key /\ sent[t].expires = g.time + SessionLife
    BY DEF BackedInv, BackedTraffic, HandedTo
  <2>3. sent[t].key = key /\ sent[t].expires > now
    BY <2>1 DEF Serve, Valid, Signed
  <2>4. now < g.time + SessionLife
    BY <2>2, <2>3, SignInAssumption DEF TypeInv, SignInTypeOK
  <2> QED
    BY <2>2, <2>3, <2>4
<1> QED
  BY <1>1, <1>2, BackedStep, TypeInvariant, PTL DEF SignInSpec, ServedInTime

-----------------------------------------------------------------------------
(* How a session is lost.                                                  *)

\* A response clears the session only for one of three reasons; two of them
\* have found the cookie of their request wanting, and that it stays.
Justified(t) ==
  /\ pc[t] # "reply" => reply[t] = NoReply
  /\ reply[t].sess = Clear => reply[t].status \in {"logout", "landing", "redirect"}
  /\ pc[t] = "reply" /\ reply[t].status \in {"landing", "redirect"} =>
       sent[t] \in Session /\ sent[t].key <= key /\ ~Valid(sent[t])

JustifiedInv ==
  /\ \A g \in granted : g.key <= key
  /\ \A t \in Tab : Justified(t)

LEMMA JustifiedStep ==
  TypeInv /\ BackedInv /\ JustifiedInv /\ [SignInNext]_signInVars => JustifiedInv'
  <1> SUFFICES ASSUME TypeInv, BackedInv, JustifiedInv, [SignInNext]_signInVars
               PROVE  JustifiedInv'
    OBVIOUS
  <1>dom. /\ DOMAIN pc = Tab /\ DOMAIN sent = Tab /\ DOMAIN reply = Tab
          /\ \A t \in Tab : BrowserOf[t] \in Browser
          /\ now \in Nat /\ key \in Nat
    BY SignInAssumption DEF TypeInv, SignInTypeOK
  <1>set. {None, Keep, Clear} \cap (AuthRequest \cup Session) = {} /\ Keep # Clear
    BY TagAssumption, SignInAssumption DEF AuthRequest, Session
  <1> USE DEF JustifiedInv, Justified, historyVars, cookieVars, Goto, Valid, Signed
  <1>1. ASSUME NEW t \in Tab, Login(t) PROVE JustifiedInv'
    BY <1>1, <1>dom, <1>set DEF Login, Answer
  <1>2. ASSUME NEW t \in Tab, SendBack(t) PROVE JustifiedInv'
    BY <1>2, <1>dom DEF SendBack
  <1>3. ASSUME NEW t \in Tab, Reload(t) PROVE JustifiedInv'
    BY <1>3, <1>dom DEF Reload
  <1>4. ASSUME NEW t \in Tab, GiveUp(t) PROVE JustifiedInv'
    BY <1>4, <1>dom DEF GiveUp
  <1>5. ASSUME NEW t \in Tab, CallbackWithoutCookie(t) PROVE JustifiedInv'
    BY <1>5, <1>dom DEF CallbackWithoutCookie, AnswerPlainly, Forget
  <1>6. ASSUME NEW t \in Tab, CallbackRefused(t) PROVE JustifiedInv'
    BY <1>6, <1>dom, <1>set DEF CallbackRefused, Answer, Forget
  <1>7. ASSUME NEW t \in Tab, CallbackDeclined(t) PROVE JustifiedInv'
    BY <1>7, <1>dom, <1>set DEF CallbackDeclined, Answer, Forget
  <1>8. ASSUME NEW t \in Tab, BeginExchange(t) PROVE JustifiedInv'
    BY <1>8, <1>dom DEF BeginExchange
  <1>9. ASSUME NEW t \in Tab, ExchangeFails(t) PROVE JustifiedInv'
    BY <1>9, <1>dom, <1>set DEF ExchangeFails, Answer, Forget
  <1>10. ASSUME NEW t \in Tab, GrantSession(t) PROVE JustifiedInv'
    <2>1. [sub |-> url[t].user, expires |-> now + SessionLife, key |-> key] \in Session
      BY <1>10, <1>dom, SignInAssumption DEF GrantSession, TypeInv, InFlight, Session
    <2>2. [sub |-> url[t].user, expires |-> now + SessionLife, key |-> key] # Clear
      BY <2>1, <1>set
    <2>3. /\ pc'[t] = "reply" /\ reply'[t].status = "granted" /\ reply'[t].sess # Clear
          /\ \A s \in Tab \ {t} : pc'[s] = pc[s] /\ reply'[s] = reply[s] /\ sent'[s] = sent[s]
          /\ UNCHANGED <<key, now>> /\ \A g \in granted' : g.key <= key
      BY <1>10, <1>dom, <2>2 DEF GrantSession, Answer, Forget
    <2> QED
      BY <1>dom, <2>3
  <1>11. ASSUME NEW t \in Tab, Ask(t) PROVE JustifiedInv'
    BY <1>11, <1>dom DEF Ask
  <1>12. ASSUME NEW t \in Tab, Serve(t) PROVE JustifiedInv'
    BY <1>12, <1>dom DEF Serve, AnswerPlainly, Forget
  <1>13. ASSUME NEW t \in Tab, Land(t) \/ Redirect(t) PROVE JustifiedInv'
    <2>1. sent[t] \in Session /\ sent[t] \in HandedTo(BrowserOf[t])
      BY <1>13 DEF Land, Redirect, TypeInv, InFlight, BackedInv, BackedTraffic
    <2>2. sent[t].key <= key
      BY <2>1 DEF HandedTo
    <2>3. ~Valid(sent[t])
      BY <1>13 DEF Land, Redirect
    <2>4. /\ UNCHANGED <<now, key, sent, granted>>
          /\ pc'[t] = "reply" /\ reply'[t].status \in {"landing", "redirect"}
          /\ \A s \in Tab \ {t} : pc'[s] = pc[s] /\ reply'[s] = reply[s]
      BY <1>13, <1>dom DEF Land, Redirect, Answer
    <2> QED
      BY <1>dom, <2>1, <2>2, <2>3, <2>4
  <1>15. ASSUME NEW t \in Tab, Logout(t) PROVE JustifiedInv'
    BY <1>15, <1>dom DEF Logout, Answer
  <1>16. ASSUME NEW t \in Tab, Arrive(t) PROVE JustifiedInv'
    BY <1>16, <1>dom, <1>set DEF Arrive, Forget, NoReply
  <1>17. ASSUME NEW t \in Tab, Lose(t) PROVE JustifiedInv'
    BY <1>17, <1>dom, <1>set DEF Lose, Forget, NoReply
  <1>18. CASE ChangeKey
    <2>1. /\ UNCHANGED <<now, reply, granted>> /\ key' = key + 1
          /\ \A t \in Tab : \/ pc'[t] = pc[t] /\ sent'[t] = sent[t]
                            \/ pc[t] = "exchange" /\ pc'[t] = "idle"
      BY <1>18, <1>dom DEF ChangeKey
    <2>2. \A g \in granted : g.key \in Nat
      BY DEF TypeInv, SignInTypeOK
    <2>3. \A value \in Session : value.key \in Nat
      BY DEF Session
    <2> QED
      BY <1>dom, <2>1, <2>2, <2>3
  <1>19. CASE Tick
    <2>1. \A value \in Session : value.expires \in Nat
      BY DEF Session
    <2> QED
      BY <1>19, <1>dom, <2>1 DEF Tick
  <1>20. ASSUME NEW b \in Browser, Drop(b) PROVE JustifiedInv'
    BY <1>20, <1>dom DEF Drop
  <1>21. CASE UNCHANGED signInVars
    BY <1>21, <1>dom DEF signInVars
  <1> QED
    BY <1>1, <1>2, <1>3, <1>4, <1>5, <1>6, <1>7, <1>8, <1>9, <1>10, <1>11, <1>12,
       <1>13, <1>15, <1>16, <1>17, <1>18, <1>19, <1>20, <1>21
    DEF SignInNext

LEMMA JustifiedInvariant == SignInSpec => []JustifiedInv
<1>1. SignInInit => BackedInv
  BY DEF SignInInit, BackedInv, BackedTraffic, NoReply
<1>2. SignInInit => JustifiedInv
  <2> SUFFICES ASSUME SignInInit PROVE JustifiedInv
    OBVIOUS
  <2>1. granted = {} /\ \A t \in Tab : pc[t] = "idle" /\ reply[t] = NoReply
    BY DEF SignInInit
  <2> QED
    BY <2>1, SignInAssumption DEF JustifiedInv, Justified, NoReply
<1> QED
  BY <1>1, <1>2, BackedStep, JustifiedStep, TypeInvariant, PTL DEF SignInSpec

\* Only a logout, or a response to a request that was sent with an older
\* cookie (server.go:237, 263), takes from a browser a session that holds.
THEOREM LostOnlyToLogoutOrLateAnswer == SignInSpec => SessionLostOnlyTo
<1> DEFINE Step ==
      \A b \in Browser :
        Valid(sess[b]) /\ sess'[b] = None =>
          \E t \in Tab : /\ BrowserOf[t] = b /\ pc[t] = "reply" /\ pc'[t] # "reply"
                         /\ \/ reply[t].status = "logout"
                            \/ /\ reply[t].status \in {"landing", "redirect"}
                               /\ sent[t] # sess[b]
<1>1. TypeInv /\ JustifiedInv /\ [SignInNext]_signInVars => [Step]_signInVars
  <2> SUFFICES ASSUME TypeInv, JustifiedInv, SignInNext,
                      NEW b \in Browser, Valid(sess[b]), sess'[b] = None
               PROVE  \E t \in Tab : /\ BrowserOf[t] = b /\ pc[t] = "reply" /\ pc'[t] # "reply"
                                     /\ \/ reply[t].status = "logout"
                                        \/ /\ reply[t].status \in {"landing", "redirect"}
                                           /\ sent[t] # sess[b]
    OBVIOUS
  <2>1. /\ sess[b] # None /\ sess[b].expires > now /\ sess[b] \in Session
        /\ DOMAIN sess = Browser /\ DOMAIN pc = Tab /\ now \in Nat
    BY DEF Valid, Signed, TypeInv, SignInTypeOK
  <2>2. sess' # sess
    BY <2>1
  <2>3. ~ \E d \in Browser : Drop(d)
    <3> SUFFICES ASSUME NEW d \in Browser, Drop(d) PROVE FALSE
      OBVIOUS
    <3>1. sess[d] # None /\ sess[d].expires <= now /\ sess' = [sess EXCEPT ![d] = None]
      BY <2>2 DEF Drop
    <3>2. d = b
      BY <2>1, <3>1
    <3>3. sess[b].expires \in Nat
      BY <2>1 DEF Session
    <3> QED
      BY <2>1, <3>1, <3>2, <3>3
  <2>4. PICK t \in Tab : Arrive(t)
    BY <2>2, <2>3
    DEF SignInNext, Login, SendBack, Reload, GiveUp, CallbackWithoutCookie, CallbackRefused,
        CallbackDeclined, BeginExchange, ExchangeFails, GrantSession, Ask, Serve, Land, Redirect,
        Logout, Lose, ChangeKey, Tick, AnswerPlainly, cookieVars
  <2>5. /\ pc[t] = "reply" /\ pc'[t] # "reply"
        /\ sess' = [sess EXCEPT ![BrowserOf[t]] = After(@, reply[t].sess)]
    BY <2>1, <2>4 DEF Arrive, Goto
  <2>6. BrowserOf[t] = b /\ After(sess[b], reply[t].sess) = None
    BY <2>1, <2>5
  <2>7. reply[t].sess = Clear
    <3>1. reply[t].sess \in Session \cup {Keep, Clear}
      BY DEF TypeInv, SignInTypeOK, Reply
    <3>2. None \notin Session
      BY TagAssumption DEF Session
    <3> QED
      BY <2>1, <2>6, <3>1, <3>2 DEF After
  <2>8. \/ reply[t].status = "logout"
        \/ reply[t].status \in {"landing", "redirect"} /\ ~Valid(sent[t])
    BY <2>5, <2>7 DEF JustifiedInv, Justified
  <2> QED
    BY <2>5, <2>6, <2>8
<1> QED
  BY <1>1, JustifiedInvariant, TypeInvariant, PTL DEF SignInSpec, SessionLostOnlyTo

-----------------------------------------------------------------------------
(* How a login is refused.                                                 *)

\* The cookie of login n, and whether its ten minutes are over.
Cookie(n) == [state |-> n, expires |-> logins[n].time + LoginLife, key |-> logins[n].key]
Expired(n) == logins[n].time + LoginLife <= now

\* A tab that is not in the middle of a step of a login (as in Alone).
Quiet(t) == pc[t] \notin {"login", "callback", "exchange"} /\ reply[t].auth = Keep

\* A tab that is, of login n: on the way to the provider, or back with the
\* cookie of this login, or past the checks.
Carries(t, n) ==
  \/ pc[t] = "reply" /\ reply[t].auth = Cookie(n) /\ at[t] = n
  \/ pc[t] = "callback" /\ url[t].state = n /\ (sent[t] = Cookie(n) \/ Expired(n))
  \/ pc[t] = "exchange"
  \/ pc[t] = "reply" /\ reply[t].auth = Clear

TabsOf(b) == {t \in Tab : BrowserOf[t] = b}

\* The browser has the cookie of the login, unless its time is over.
Ready(n) == auth[logins[n].browser] = Cookie(n) \/ Expired(n)

\* At any time one tab at most of its browser is busy with a login that is
\* alone, none while the user is at the provider, and the cookie is there
\* when the user comes back.
Undisturbed(n) ==
  LET own == TabsOf(logins[n].browser) IN
    /\ \A t \in own : Quiet(t) \/ Carries(t, n)
    /\ \A s, t \in own : s = t \/ Quiet(s) \/ Quiet(t)
    /\ \A t \in Tab : pc[t] = "provider" /\ at[t] = n => Ready(n) /\ \A s \in own : Quiet(s)

\* A login is at one tab of its browser.
AtOneTab ==
  /\ alone \subseteq DOMAIN logins
  /\ \A t \in Tab : /\ at[t] <= Len(logins)
                    /\ at[t] # 0 => logins[at[t]].browser = BrowserOf[t]
                    /\ reply[t].status = "login" => at[t] # 0 /\ reply[t].auth = Cookie(at[t])
  /\ \A s, t \in Tab : at[s] = at[t] /\ at[s] # 0 => s = t

LoneInv == AtOneTab /\ \A n \in alone : Undisturbed(n)

LEMMA LoginRecords ==
  ASSUME TypeInv
  PROVE  /\ Len(logins) \in Nat /\ DOMAIN logins = 1..Len(logins)
         /\ \A n \in DOMAIN logins :
              n \in Nat /\ n # 0 /\ logins[n] \in [browser : Browser, time : Nat, key : Nat]
  <1> DEFINE Record == [browser : Browser, time : Nat, key : Nat]
  <1>1. logins \in Seq(Record)
    BY DEF TypeInv, SignInTypeOK
  <1> HIDE DEF Record
  <1>2. Len(logins) \in Nat /\ logins \in [1..Len(logins) -> Record]
    BY <1>1
  <1> QED
    BY <1>2 DEF Record

LEMMA LoneStep == TypeInv /\ JustifiedInv /\ LoneInv /\ [SignInNext]_signInVars => LoneInv'
  <1> SUFFICES ASSUME TypeInv, JustifiedInv, LoneInv, [SignInNext]_signInVars
               PROVE  LoneInv'
    OBVIOUS
  <1>dom. /\ DOMAIN pc = Tab /\ DOMAIN sent = Tab /\ DOMAIN reply = Tab /\ DOMAIN at = Tab
          /\ DOMAIN url = Tab /\ DOMAIN auth = Browser
          /\ \A t \in Tab : BrowserOf[t] \in Browser /\ at[t] \in Nat
          /\ now \in Nat /\ key \in Nat
          /\ Len(logins) \in Nat /\ DOMAIN logins = 1..Len(logins)
          /\ \A n \in DOMAIN logins :
               n \in Nat /\ n # 0 /\ logins[n] \in [browser : Browser, time : Nat, key : Nat]
    BY SignInAssumption, LoginRecords DEF TypeInv, SignInTypeOK
  <1>time. \A n \in DOMAIN logins : logins[n].browser \in Browser /\ logins[n].time + LoginLife \in Nat
    BY <1>dom, SignInAssumption
  <1>idle. \A t \in Tab : pc[t] # "reply" => reply[t] = NoReply
    BY DEF JustifiedInv, Justified
  <1>none. NoReply.auth = Keep /\ NoReply.status = "none"
    BY DEF NoReply
  <1>cookie. \A n \in DOMAIN logins : Cookie(n) \notin {None, Keep, Clear}
    BY <1>dom, <1>time, TagAssumption DEF Cookie
  <1>own. \A b : TabsOf(b)' = TabsOf(b) /\ TabsOf(b) \subseteq Tab
    BY DEF TabsOf
  <1>old. alone \subseteq DOMAIN logins
    BY DEF LoneInv, AtOneTab
  \* A step that neither starts a login nor moves one to or from the provider.
  <1>calm. ASSUME UNCHANGED logins, alone' \subseteq alone,
                  \A t \in Tab : /\ at'[t] \in {at[t], 0}
                                 /\ reply'[t].status = "login" =>
                                      reply'[t] = reply[t] /\ at'[t] = at[t]
                                 /\ pc'[t] = "provider" => pc[t] = "provider",
                  \A n \in alone' :
                    /\ Ready(n) => Ready(n)'
                    /\ \A t \in TabsOf(logins[n].browser) :
                         /\ Quiet(t) => Quiet(t)'
                         /\ Carries(t, n) => Quiet(t)' \/ Carries(t, n)'
           PROVE  LoneInv'
    <2>1. AtOneTab'
      BY <1>calm, <1>dom DEF LoneInv, AtOneTab, Cookie
    <2>2. ASSUME NEW n \in alone' PROVE Undisturbed(n)'
      <3> DEFINE own == TabsOf(logins[n].browser)
      <3>1. Undisturbed(n) /\ n # 0
        BY <1>calm, <1>dom, <1>old DEF LoneInv
      <3>2. TabsOf(logins[n].browser)' = own
        BY <1>calm, <1>own
      <3>3. \A t \in own : (Quiet(t) => Quiet(t)') /\ (Carries(t, n) => Quiet(t)' \/ Carries(t, n)')
        BY <1>calm
      <3>4. \A t \in Tab : pc'[t] = "provider" /\ at'[t] = n => pc[t] = "provider" /\ at[t] = n
        BY <1>calm, <3>1
      <3>5. Ready(n) => Ready(n)'
        BY <1>calm
      <3> HIDE DEF own
      <3> QED
        BY <3>1, <3>2, <3>3, <3>4, <3>5 DEF Undisturbed, own
    <2> QED
      BY <2>1, <2>2 DEF LoneInv
  <1> USE DEF historyVars, cookieVars, Goto
  <1>1. ASSUME NEW t \in Tab, Login(t) PROVE LoneInv'
    <2>0. PICK n : n = Len(logins) + 1
      OBVIOUS
    <2> DEFINE Record == [browser : Browser, time : Nat, key : Nat]
               new == [browser |-> BrowserOf[t], time |-> now, key |-> key]
    <2>1. new \in Record /\ logins \in Seq(Record) /\ logins' = Append(logins, new)
      BY <1>1, <1>dom DEF Login, TypeInv, SignInTypeOK
    <2>2. /\ DOMAIN logins' = 1..n /\ Len(logins') = n /\ n \notin DOMAIN logins
          /\ DOMAIN logins \subseteq 1..n
          /\ \A i \in DOMAIN logins : logins'[i] = logins[i]
          /\ logins'[n] = new
      BY <1>dom, <2>0, <2>1, AppendProperties
    <2>3. /\ at' = [at EXCEPT ![t] = n] /\ pc'[t] = "reply" /\ reply'[t].auth = Cookie(n)'
          /\ \A s \in Tab \ {t} : reply'[s] = reply[s] /\ pc'[s] = pc[s]
          /\ UNCHANGED <<now, auth, sent, url>>
      BY <1>1, <1>dom, <2>0, <2>2 DEF Login, Answer, Cookie
    <2>4. /\ alone' \subseteq (alone \ LoginsOf(BrowserOf[t])) \cup {n}
          /\ n \in alone' => Alone(t)
      BY <1>1, <1>dom, <1>old, <2>0, <2>2 DEF Login
    <2>5. n \in Nat /\ n # 0 /\ \A s \in Tab : at[s] # n /\ at[s] <= n
      BY <1>dom, <2>0 DEF LoneInv, AtOneTab
    <2>6. new.browser = BrowserOf[t]
      OBVIOUS
    <2>7. \A m \in DOMAIN logins : Cookie(m)' = Cookie(m) /\ Expired(m)' = Expired(m)
      BY <2>2, <2>3 DEF Cookie, Expired
    <2>8. \A m \in DOMAIN logins : m # n
      BY <2>2
    <2>9. \A s \in Tab : at'[s] = IF s = t THEN n ELSE at[s]
      BY <1>dom, <2>3
    <2> HIDE DEF new, Record
    <2>10. AtOneTab'
      <3>1. alone' \subseteq DOMAIN logins'
        BY <1>old, <2>2, <2>4, <2>5
      <3>2. ASSUME NEW s \in Tab
            PROVE  /\ at'[s] <= Len(logins')
                   /\ at'[s] # 0 => logins'[at'[s]].browser = BrowserOf[s]
                   /\ reply'[s].status = "login" =>
                        at'[s] # 0 /\ reply'[s].auth = [state |-> at'[s],
                                                        expires |-> logins'[at'[s]].time + LoginLife,
                                                        key |-> logins'[at'[s]].key]
        <4>1. CASE s = t
          <5>1. n <= n
            BY <2>5
          <5> QED
            BY <2>2, <2>3, <2>5, <2>6, <2>9, <4>1, <5>1 DEF Cookie
        <4>2. CASE s # t
          <5>1. at'[s] = at[s] /\ reply'[s] = reply[s] /\ at[s] <= Len(logins')
            BY <2>2, <2>3, <2>5, <2>9, <4>2
          <5>2. at[s] # 0 => at[s] \in DOMAIN logins
            BY <1>dom DEF LoneInv, AtOneTab
          <5>3. /\ at[s] # 0 => logins[at[s]].browser = BrowserOf[s]
                /\ reply[s].status = "login" => at[s] # 0 /\ reply[s].auth = Cookie(at[s])
            BY DEF LoneInv, AtOneTab
          <5>4. at[s] # 0 => logins'[at[s]] = logins[at[s]]
            BY <2>2, <5>2
          <5> QED
            BY <5>1, <5>3, <5>4 DEF Cookie
        <4> QED
          BY <4>1, <4>2
      <3>3. \A s, r \in Tab : at'[s] = at'[r] /\ at'[s] # 0 => s = r
        BY <2>5, <2>9 DEF LoneInv, AtOneTab
      <3> QED
        BY <3>1, <3>2, <3>3 DEF AtOneTab, Cookie
    <2>11. ASSUME NEW m \in alone', m # n PROVE Undisturbed(m)'
      <3> DEFINE b == logins[m].browser
      <3>1. m \in alone /\ m \in DOMAIN logins /\ b # BrowserOf[t] /\ Undisturbed(m)
        BY <1>old, <2>4, <2>11 DEF LoneInv, LoginsOf
      <3>2. logins'[m].browser = b /\ TabsOf(logins[m].browser)' = TabsOf(b) /\ t \notin TabsOf(b)
            /\ Ready(m)' = Ready(m)
        BY <1>own, <2>2, <2>3, <2>7, <3>1 DEF TabsOf, Ready
      <3>3. \A s \in TabsOf(b) : Quiet(s)' = Quiet(s) /\ (Carries(s, m) => Carries(s, m)')
        BY <1>own, <2>3, <2>7, <2>9, <3>1, <3>2 DEF Quiet, Carries
      <3>4. \A s \in Tab : pc'[s] = "provider" /\ at'[s] = m => pc[s] = "provider" /\ at[s] = m
        BY <2>3, <2>9
      <3> HIDE DEF b
      <3> QED
        BY <3>1, <3>2, <3>3, <3>4 DEF Undisturbed, b
    <2>12. ASSUME n \in alone' PROVE Undisturbed(n)'
      <3> DEFINE b == BrowserOf[t]
      <3>1. TabsOf(logins[n].browser)' = TabsOf(b)
        BY <1>own, <2>2, <2>6
      <3>2. \A s \in TabsOf(b) : s # t => Quiet(s)'
        BY <2>3, <2>4, <2>12 DEF Alone, Quiet, TabsOf
      <3>3. Carries(t, n)'
        BY <2>3, <2>9 DEF Carries
      <3>4. \A s \in Tab : at'[s] = n => s = t
        BY <2>5, <2>9
      <3>5. pc'[t] # "provider"
        BY <2>3
      <3> HIDE DEF b
      <3> QED
        BY <3>1, <3>2, <3>3, <3>4, <3>5 DEF Undisturbed
    <2> QED
      BY <2>10, <2>11, <2>12 DEF LoneInv
  <1>2. ASSUME NEW t \in Tab, SendBack(t) PROVE LoneInv'
    <2>1. /\ pc[t] = "provider" /\ pc'[t] = "callback" /\ url'[t].state = at[t]
          /\ sent'[t] = auth[BrowserOf[t]]
          /\ UNCHANGED <<now, auth, reply, logins>>
          /\ \A s \in Tab \ {t} : pc'[s] = pc[s] /\ sent'[s] = sent[s] /\ url'[s] = url[s]
          /\ alone' = alone \ (LoginsOf(BrowserOf[t]) \ {at[t]})
          /\ \A s \in Tab : at'[s] = IF s = t THEN 0 ELSE at[s]
      BY <1>2, <1>dom DEF SendBack
    <2>2. AtOneTab'
      <3>1. reply[t].status # "login"
        BY <1>idle, <1>none, <2>1
      <3> QED
        BY <1>dom, <2>1, <3>1 DEF LoneInv, AtOneTab, Cookie
    <2>3. ASSUME NEW n \in alone' PROVE Undisturbed(n)'
      <3> DEFINE b == logins[n].browser
      <3>1. Undisturbed(n) /\ n \in DOMAIN logins /\ n # 0
        BY <1>dom, <1>old, <2>1, <2>3 DEF LoneInv
      <3>2. /\ Cookie(n)' = Cookie(n) /\ Expired(n)' = Expired(n) /\ Ready(n)' = Ready(n)
            /\ TabsOf(logins[n].browser)' = TabsOf(b)
        BY <1>own, <2>1 DEF Cookie, Expired, Ready
      <3>3. \A s \in Tab \ {t} : Quiet(s)' = Quiet(s) /\ (Carries(s, n) => Carries(s, n)')
        BY <2>1, <3>2 DEF Quiet, Carries
      <3>4. CASE BrowserOf[t] # b
        <4>1. t \notin TabsOf(b)
          BY <3>4 DEF TabsOf
        <4>2. \A s \in Tab : pc'[s] = "provider" /\ at'[s] = n => pc[s] = "provider" /\ at[s] = n
          BY <2>1
        <4> HIDE DEF b
        <4> QED
          BY <1>own, <3>1, <3>2, <3>3, <4>1, <4>2 DEF Undisturbed, b
      <3>5. CASE BrowserOf[t] = b
        <4>1. at[t] = n
          BY <2>1, <2>3, <3>1, <3>5 DEF LoginsOf
        <4>2. Ready(n) /\ \A s \in TabsOf(b) : Quiet(s)
          BY <2>1, <3>1, <4>1 DEF Undisturbed
        <4>3. Carries(t, n)'
          BY <2>1, <3>2, <3>5, <4>1, <4>2 DEF Carries, Ready
        <4>4. \A s \in Tab : at'[s] # n
          BY <2>1, <3>1, <4>1 DEF LoneInv, AtOneTab
        <4> HIDE DEF b
        <4> QED
          BY <1>own, <3>2, <3>3, <4>2, <4>3, <4>4 DEF Undisturbed
      <3> QED
        BY <3>4, <3>5
    <2> QED
      BY <2>2, <2>3 DEF LoneInv
  <1>3. ASSUME NEW t \in Tab, Reload(t) PROVE LoneInv'
    <2>1. /\ UNCHANGED <<now, auth, reply, at, logins>>
          /\ alone' = alone \ LoginsOf(BrowserOf[t]) /\ pc'[t] = "callback"
          /\ \A s \in Tab \ {t} : pc'[s] = pc[s] /\ sent'[s] = sent[s] /\ url'[s] = url[s]
      BY <1>3, <1>dom DEF Reload
    <2>2. \A n \in alone' : t \notin TabsOf(logins[n].browser)
      BY <1>old, <2>1 DEF LoginsOf, TabsOf
    <2> QED
      BY <1>calm, <1>own, <2>1, <2>2 DEF Quiet, Carries, Ready, Cookie, Expired
  <1>4. ASSUME NEW t \in Tab, GiveUp(t) PROVE LoneInv'
    BY <1>4, <1>dom, <1>calm, <1>own, <1>idle, <1>none
    DEF GiveUp, Quiet, Carries, Ready, Cookie, Expired
  <1>5. ASSUME NEW t \in Tab, CallbackWithoutCookie(t) PROVE LoneInv'
    BY <1>5, <1>dom, <1>calm, <1>own, <1>idle, <1>none
    DEF CallbackWithoutCookie, AnswerPlainly, Forget, Quiet, Carries, Ready, Cookie, Expired
  <1>6. ASSUME NEW t \in Tab, CallbackRefused(t) \/ CallbackDeclined(t) \/ ExchangeFails(t)
                                \/ GrantSession(t)
        PROVE  LoneInv'
    <2>1. /\ UNCHANGED <<now, auth, logins, at, alone>>
          /\ pc[t] \in {"callback", "exchange"} /\ pc'[t] = "reply" /\ reply'[t].auth = Clear
          /\ reply'[t].status # "login"
          /\ \A s \in Tab \ {t} : /\ pc'[s] = pc[s] /\ reply'[s] = reply[s]
                                  /\ sent'[s] = sent[s] /\ url'[s] = url[s]
      BY <1>6, <1>dom DEF CallbackRefused, CallbackDeclined, ExchangeFails, GrantSession,
                          Answer, Forget
    <2>2. ~Quiet(t) /\ \A n \in alone' : Carries(t, n)'
      BY <2>1 DEF Quiet, Carries
    <2>3. \A s \in Tab \ {t} : /\ Quiet(s)' = Quiet(s)
                               /\ \A n \in alone' : Carries(s, n)' = Carries(s, n)
      BY <2>1 DEF Quiet, Carries, Cookie, Expired
    <2>4. \A n \in alone' : Ready(n)' = Ready(n)
      BY <2>1 DEF Ready, Cookie, Expired
    <2> QED
      BY <1>calm, <1>own, <2>1, <2>2, <2>3, <2>4
  <1>8. ASSUME NEW t \in Tab, BeginExchange(t) PROVE LoneInv'
    BY <1>8, <1>dom, <1>calm, <1>own DEF BeginExchange, Quiet, Carries, Ready, Cookie, Expired
  <1>11. ASSUME NEW t \in Tab, Ask(t) PROVE LoneInv'
    BY <1>11, <1>dom, <1>calm, <1>own, <1>idle, <1>none
    DEF Ask, Quiet, Carries, Ready, Cookie, Expired
  <1>12. ASSUME NEW t \in Tab, Serve(t) PROVE LoneInv'
    BY <1>12, <1>dom, <1>calm, <1>own, <1>idle, <1>none
    DEF Serve, AnswerPlainly, Forget, Quiet, Carries, Ready, Cookie, Expired
  <1>13. ASSUME NEW t \in Tab, Land(t) \/ Redirect(t) \/ Logout(t) PROVE LoneInv'
    <2>1. /\ UNCHANGED <<now, auth, sent, at, url, logins, alone>>
          /\ pc[t] \in {"home", "upload", "idle"} /\ pc'[t] = "reply"
          /\ reply'[t].auth = Keep /\ reply'[t].status # "login"
          /\ \A s \in Tab \ {t} : pc'[s] = pc[s] /\ reply'[s] = reply[s]
      BY <1>13, <1>dom DEF Land, Redirect, Logout, Answer
    <2>2. Quiet(t)'
      BY <2>1 DEF Quiet
    <2>3. \A s \in Tab \ {t} : /\ Quiet(s)' = Quiet(s)
                               /\ \A n \in alone' : Carries(s, n)' = Carries(s, n)
      BY <2>1 DEF Quiet, Carries, Cookie, Expired
    <2>4. \A n \in alone' : Ready(n)' = Ready(n)
      BY <2>1 DEF Ready, Cookie, Expired
    <2> QED
      BY <1>calm, <1>own, <2>1, <2>2, <2>3, <2>4
  <1>16. ASSUME NEW t \in Tab, Arrive(t) PROVE LoneInv'
    <2>1. /\ UNCHANGED <<now, at, logins>> /\ pc[t] = "reply"
          /\ reply'[t].auth = Keep /\ reply'[t].status = "none"
          /\ auth'[BrowserOf[t]] = After(auth[BrowserOf[t]], reply[t].auth)
          /\ \A b \in Browser \ {BrowserOf[t]} : auth'[b] = auth[b]
          /\ pc'[t] = IF reply[t].status = "login" THEN "provider"
                      ELSE IF reply[t].status = "redirect" THEN "login" ELSE "idle"
          /\ alone' = IF reply[t].status = "redirect" THEN alone \ LoginsOf(BrowserOf[t])
                                                      ELSE alone
          /\ \A s \in Tab \ {t} : /\ pc'[s] = pc[s] /\ reply'[s] = reply[s]
                                  /\ sent'[s] = sent[s] /\ url'[s] = url[s]
      BY <1>16, <1>dom, <1>none DEF Arrive, Forget
    <2>2. AtOneTab'
      <3>1. alone' \subseteq alone
        BY <2>1
      <3>2. \A s \in Tab : reply'[s].status = "login" => reply'[s] = reply[s]
        BY <2>1
      <3> QED
        BY <2>1, <3>1, <3>2 DEF LoneInv, AtOneTab, Cookie
    <2>3. ASSUME NEW n \in alone' PROVE Undisturbed(n)'
      <3> DEFINE b == logins[n].browser
      <3>1. Undisturbed(n) /\ n \in DOMAIN logins /\ n # 0 /\ b \in Browser
        BY <1>dom, <1>time, <1>old, <2>1, <2>3 DEF LoneInv
      <3>2. /\ Cookie(n)' = Cookie(n) /\ Expired(n)' = Expired(n)
            /\ TabsOf(logins[n].browser)' = TabsOf(b)
        BY <1>own, <2>1 DEF Cookie, Expired
      <3>3. \A s \in Tab \ {t} : Quiet(s)' = Quiet(s) /\ (Carries(s, n) => Carries(s, n)')
        BY <2>1, <3>2 DEF Quiet, Carries
      <3>4. CASE BrowserOf[t] # b
        <4>1. t \notin TabsOf(b) /\ Ready(n)' = Ready(n)
          BY <2>1, <3>1, <3>2, <3>4 DEF TabsOf, Ready
        <4>2. ASSUME NEW s \in Tab, pc'[s] = "provider", at'[s] = n
              PROVE  pc[s] = "provider" /\ at[s] = n
          <5>1. at[s] = n /\ BrowserOf[s] = b
            BY <2>1, <3>1, <4>2 DEF LoneInv, AtOneTab
          <5> QED
            BY <2>1, <3>4, <4>2, <5>1
        <4> HIDE DEF b
        <4> QED
          BY <1>own, <3>1, <3>2, <3>3, <4>1, <4>2 DEF Undisturbed, b
      <3>5. CASE BrowserOf[t] = b
        <4>1. reply[t].status # "redirect" /\ t \in TabsOf(b)
          BY <2>1, <2>3, <3>1, <3>5 DEF LoginsOf, TabsOf
        <4>2. Quiet(t)'
          BY <2>1, <4>1 DEF Quiet
        <4>3. CASE reply[t].status = "login"
          <5>1. reply[t].auth = Cookie(at[t]) /\ at[t] \in DOMAIN logins
            BY <1>dom, <4>3 DEF LoneInv, AtOneTab
          <5>2. reply[t].auth \notin {None, Keep, Clear}
            BY <1>cookie, <5>1
          <5>3. ~Quiet(t)
            BY <5>2 DEF Quiet
          <5>4. at[t] = n
            BY <2>1, <3>1, <4>1, <5>2, <5>3 DEF Undisturbed, Carries
          <5>5. \A s \in TabsOf(b) : s # t => Quiet(s)
            BY <3>1, <4>1, <5>3 DEF Undisturbed
          <5>6. \A s \in TabsOf(b) : Quiet(s)'
            BY <1>own, <3>3, <4>2, <5>5
          <5>7. Ready(n)'
            BY <2>1, <3>2, <3>5, <5>1, <5>2, <5>4 DEF Ready, After
          <5> HIDE DEF b
          <5> QED
            BY <3>2, <5>6, <5>7 DEF Undisturbed
        <4>4. CASE reply[t].status # "login"
          <5>1. pc'[t] = "idle"
            BY <2>1, <4>1, <4>4
          <5>2. ASSUME NEW s \in Tab, pc'[s] = "provider", at'[s] = n
                PROVE  Ready(n)' /\ \A r \in TabsOf(b) : Quiet(r)'
            <6>1. s # t /\ pc[s] = "provider" /\ at[s] = n
              BY <2>1, <5>1, <5>2
            <6>2. Ready(n) /\ \A r \in TabsOf(b) : Quiet(r)
              BY <3>1, <6>1 DEF Undisturbed
            <6>3. auth'[b] = auth[b]
              BY <2>1, <3>5, <4>1, <6>2 DEF Quiet, After
            <6> QED
              BY <1>own, <2>1, <3>2, <3>3, <4>2, <6>2, <6>3 DEF Ready
          <5>3. \A s \in TabsOf(b) : Quiet(s) => Quiet(s)'
            BY <1>own, <3>3, <4>2
          <5>4. \A s \in TabsOf(b) : Carries(s, n) => Quiet(s)' \/ Carries(s, n)'
            BY <1>own, <3>3, <4>2
          <5> HIDE DEF b
          <5> QED
            BY <3>1, <3>2, <5>2, <5>3, <5>4 DEF Undisturbed, b
        <4> QED
          BY <4>3, <4>4
      <3> QED
        BY <3>4, <3>5
    <2> QED
      BY <2>2, <2>3 DEF LoneInv
  <1>17. ASSUME NEW t \in Tab, Lose(t) PROVE LoneInv'
    BY <1>17, <1>dom, <1>calm, <1>own, <1>none
    DEF Lose, Forget, Quiet, Carries, Ready, Cookie, Expired
  <1>18. CASE ChangeKey
    BY <1>18, <1>dom, <1>calm, <1>own, <1>idle, <1>none
    DEF ChangeKey, Quiet, Carries, Ready, Cookie, Expired
  <1>19. CASE Tick
    <2>1. /\ UNCHANGED <<auth, pc, sent, reply, at, url, logins, alone>> /\ now' = now + 1
      BY <1>19 DEF Tick
    <2>2. \A n \in alone : Expired(n) => Expired(n)'
      BY <1>dom, <1>time, <1>old, <2>1 DEF Expired
    <2>3. \A n : Cookie(n)' = Cookie(n)
      BY <2>1 DEF Cookie
    <2> QED
      BY <1>calm, <1>own, <2>1, <2>2, <2>3 DEF Quiet, Carries, Ready
  <1>20. ASSUME NEW b \in Browser, Drop(b) PROVE LoneInv'
    <2>1. /\ UNCHANGED <<now, pc, sent, reply, at, url, logins, alone>>
          /\ \A d \in Browser : auth'[d] = auth[d] \/ auth[d].expires <= now
      BY <1>20, <1>dom DEF Drop
    <2>2. \A n : Cookie(n)' = Cookie(n) /\ Expired(n)' = Expired(n)
      BY <2>1 DEF Cookie, Expired
    <2>3. \A n \in alone : Ready(n) => Ready(n)'
      <3> SUFFICES ASSUME NEW n \in alone, Ready(n), ~Expired(n) PROVE Ready(n)'
        BY <2>2 DEF Ready
      <3>1. auth[logins[n].browser].expires = logins[n].time + LoginLife
            /\ logins[n].browser \in Browser
        BY <1>time, <1>old DEF Ready, Cookie
      <3>2. auth'[logins[n].browser] = auth[logins[n].browser]
        BY <2>1, <3>1 DEF Expired
      <3> QED
        BY <2>1, <2>2, <3>2 DEF Ready
    <2> QED
      BY <1>calm, <1>own, <2>1, <2>2, <2>3 DEF Quiet, Carries
  <1>21. CASE UNCHANGED signInVars
    BY <1>21, <1>calm, <1>own DEF signInVars, Quiet, Carries, Ready, Cookie, Expired
  <1> QED
    BY <1>1, <1>2, <1>3, <1>4, <1>5, <1>6, <1>8, <1>11, <1>12, <1>13, <1>16, <1>17, <1>18,
       <1>19, <1>20, <1>21
    DEF SignInNext

\* callback refuses (server.go:159-170) a browser that did one login at a time
\* only when the login took LoginLife or longer, or the key was changed.
THEOREM RefusedOnlyForAReason == SignInSpec => RefusedOnlyIfRaced
<1> DEFINE Refused(t) == pc[t] = "callback" /\ (pc'[t] = "idle" \/ reply'[t].status = "400")
           Reason(t) ==
             LET n == url[t].state IN
               \/ n \notin alone \/ logins[n].browser # BrowserOf[t]
               \/ now >= logins[n].time + LoginLife \/ key # logins[n].key
           Step == \A t \in Tab : Refused(t) => Reason(t)
<1>1. SignInInit => LoneInv
  <2> SUFFICES ASSUME SignInInit PROVE LoneInv
    OBVIOUS
  <2>1. alone = {} /\ logins = <<>> /\ \A t \in Tab : at[t] = 0 /\ reply[t].status = "none"
    BY DEF SignInInit, NoReply
  <2>2. Len(logins) = 0
    BY <2>1
  <2> QED
    BY <2>1, <2>2 DEF LoneInv, AtOneTab
<1>2. TypeInv /\ JustifiedInv /\ LoneInv /\ [SignInNext]_signInVars => [Step]_signInVars
  <2> SUFFICES ASSUME TypeInv, JustifiedInv, LoneInv, SignInNext, NEW t \in Tab, Refused(t)
               PROVE  Reason(t)
    OBVIOUS
  <2> DEFINE n == url[t].state
  <2> SUFFICES ASSUME n \in alone, logins[n].browser = BrowserOf[t], key = logins[n].key,
                      ~(now >= logins[n].time + LoginLife)
               PROVE  FALSE
    OBVIOUS
  <2>1. reply[t] = NoReply /\ pc[t] = "callback"
    BY DEF JustifiedInv, Justified
  <2>2. CallbackWithoutCookie(t) \/ CallbackRefused(t)
    <3>1. DOMAIN pc = Tab /\ DOMAIN reply = Tab /\ NoReply.status = "none"
      BY DEF TypeInv, SignInTypeOK, NoReply
    <3>2. ~(UNCHANGED <<pc, reply>>)
      BY <2>1, <3>1
    <3>3. ~(Tick \/ \E b \in Browser : Drop(b))
      BY <3>2 DEF Tick, Drop
    <3>4. ~ChangeKey
      BY <2>1, <3>1 DEF ChangeKey
    <3>5. PICK s \in Tab :
            \/ Login(s) \/ SendBack(s) \/ Reload(s) \/ GiveUp(s)
            \/ CallbackWithoutCookie(s) \/ CallbackRefused(s) \/ CallbackDeclined(s)
            \/ BeginExchange(s) \/ ExchangeFails(s) \/ GrantSession(s)
            \/ Ask(s) \/ Serve(s) \/ Land(s) \/ Redirect(s) \/ Logout(s)
            \/ Arrive(s) \/ Lose(s)
      BY <3>3, <3>4 DEF SignInNext
    <3>6. s = t
      <4>1. s # t => pc'[t] = pc[t] /\ reply'[t] = reply[t]
        BY <3>1, <3>5
        DEF Goto, Login, SendBack, Reload, GiveUp, CallbackWithoutCookie, CallbackRefused,
            CallbackDeclined, BeginExchange, ExchangeFails, GrantSession, Ask, Serve, Land,
            Redirect, Logout, Arrive, Lose, Answer, AnswerPlainly
      <4> QED
        BY <2>1, <3>1, <4>1
    <3>7. \/ CallbackWithoutCookie(t) \/ CallbackRefused(t) \/ CallbackDeclined(t)
          \/ BeginExchange(t)
      BY <2>1, <3>5, <3>6
      DEF Login, SendBack, Reload, GiveUp, ExchangeFails, GrantSession, Ask, Serve, Land,
          Redirect, Logout, Arrive, Lose
    <3> QED
      BY <2>1, <3>1, <3>7 DEF CallbackDeclined, BeginExchange, Answer, Goto
  <2>3. n \in DOMAIN logins /\ n \in Nat /\ logins[n] \in [browser : Browser, time : Nat, key : Nat]
    BY LoginRecords DEF LoneInv, AtOneTab
  <2>4. ~Expired(n) /\ logins[n].time + LoginLife > now
    <3>1. logins[n].time \in Nat /\ now \in Nat /\ LoginLife \in Nat
      BY <2>3, SignInAssumption DEF TypeInv, SignInTypeOK
    <3>2. logins[n].time + LoginLife > now
      BY <3>1
    <3> QED
      BY <3>1, <3>2 DEF Expired
  <2>5. Carries(t, n)
    <3>1. t \in TabsOf(logins[n].browser) /\ ~Quiet(t)
      BY <2>1 DEF TabsOf, Quiet
    <3> QED
      BY <3>1 DEF LoneInv, Undisturbed
  <2>6. sent[t] = Cookie(n)
    BY <2>1, <2>4, <2>5 DEF Carries
  <2>7. Cookie(n) # None
    BY <2>3, TagAssumption, SignInAssumption DEF Cookie
  <2>8. Matches(t)
    BY <2>4, <2>6, <2>7 DEF Matches, Valid, Signed, Cookie
  <2> QED
    BY <2>2, <2>6, <2>7, <2>8 DEF CallbackWithoutCookie, CallbackRefused
<1> QED
  BY <1>1, <1>2, LoneStep, JustifiedInvariant, TypeInvariant, PTL
  DEF SignInSpec, RefusedOnlyIfRaced
=============================================================================
