--------------------------- MODULE Authentication ---------------------------
(***************************************************************************)
(* Whom the services of a connection are told to serve: connect() with a   *)
(* token, which also carries the service of the URL and a mark from one    *)
(* call of the chain to the next, setDefaultToken(), selectService() with  *)
(* the default or another token, and auth().  Tokens are shared by copies, *)
(* and written out by the thread of the protocol when it gets there.  Both *)
(* ends speak version 1 or later.                                          *)
(***************************************************************************)
EXTENDS Naturals

CONSTANTS
  Logins,      \* connections
  Tokens,      \* AuthTokenData of the application
  Accounts,    \* values of "username"
  Offered,     \* names of services
  MaxChanges,  \* bound: how often the application changes a token
  MaxGets      \* bound: services seen for after connect(), in all

\* What stands for a token, or for a user that is not written yet, is neither.
ASSUME LoginsAssumption ==
  Accounts # {} /\ "unwritten" \notin Accounts /\ Tokens \cap {"none", "default"} = {}

VARIABLES
  token,     \* clientData: "username", "service" or "none", whether "setDefaultToken" is there
  login,     \* the connections: state, token, URL's service, with a receiver or not
  request,   \* the call under way on each: function, service, token, its written user
  answer,    \* what it returned: "none" yet, "ok", "error"
  default,   \* the user of the session's defaultToken()
  pick,      \* history: what is being selected, with which token, and the users that can be meant
  meant,     \* history: the users that the default token can be meant for
  seen,      \* history: what auth() was last called for, and the services that accepted
  changes, gets  \* for the bounds

authVars == <<token, login, request, answer, default, pick, meant, seen, changes, gets>>

\* AuthToken::defaultToken()
DefaultToken == "default"

HasService(t) == token[t].service # "none"

NoRequest == [fn |-> "none", name |-> "none", token |-> "none", user |-> "unwritten"]
NothingSeen == [name |-> "none", wanted |-> "none", user |-> "none", users |-> {"none"},
                accepted |-> {}]
NoPick == [name |-> "none", token |-> "none", users |-> {}]

AuthInit ==
  /\ token = [t \in Tokens |-> [user |-> CHOOSE u \in Accounts : TRUE, service |-> "none", todo |-> FALSE]]
  /\ login = [k \in Logins |-> [state |-> "Disconnected", token |-> "none", url |-> "none", async |-> FALSE]]
  /\ request = [k \in Logins |-> NoRequest] /\ answer = [k \in Logins |-> "none"]
  /\ default = [k \in Logins |-> "nobody"]
  /\ pick = [k \in Logins |-> NoPick] /\ meant = [k \in Logins |-> {}]
  /\ seen = [k \in Logins |-> NothingSeen] /\ changes = 0 /\ gets = 0

\* A call is posted; its arguments refer to the token.
Posted(k, fn, name, t) ==
  /\ request' = [request EXCEPT ![k] = [fn |-> fn, name |-> name, token |-> t, user |-> "unwritten"]]
  /\ answer' = [answer EXCEPT ![k] = "none"]

\* connect(): the token takes the service of the URL along, and for a receiver
\* the mark.  No other attempt is under way with that token, and none has left its
\* service there that this one would not replace: connectCompleted() and a
\* later connect() would take either for their own.
Connect(k, t, url, async) ==
  /\ login[k].state = "Disconnected" /\ login[k].token = "none"
  /\ \A j \in Logins : login[j].token = t => login[j].state # "Connecting"
  /\ url = "none" => ~HasService(t)
  /\ token' = [token EXCEPT ![t].service = IF url = "none" THEN @ ELSE url,
                            ![t].todo = @ \/ async]
  /\ login' = [login EXCEPT ![k] = [state |-> "Connecting", token |-> t, url |-> url,
                                    async |-> async]]
  /\ Posted(k, "connect", "none", "none")
  /\ UNCHANGED <<default, pick, meant, seen, changes, gets>>

\* The application, in any thread: clientInsert("username", u)
ClientInsert(t, u) ==
  LET unwritten(k) == request[k].token = t /\ request[k].user = "unwritten" IN
  /\ changes < MaxChanges /\ changes' = changes + 1
  /\ token' = [token EXCEPT ![t].user = u]
  /\ pick' = [k \in Logins |-> IF pick[k].token = t THEN [pick[k] EXCEPT !.users = @ \cup {u}]
                                ELSE pick[k]]
  /\ meant' = [k \in Logins |-> IF request[k].fn = "setDefaultToken" /\ unwritten(k)
                                  THEN meant[k] \cup {u} ELSE meant[k]]
  /\ UNCHANGED <<login, request, answer, default, seen, gets>>

-----------------------------------------------------------------------------
(* The thread of the protocol, and the server.                              *)

\* operator<<, when the message is written
Written(k) ==
  /\ request[k].token \in Tokens /\ request[k].user = "unwritten"
  /\ request' = [request EXCEPT ![k].user = token[request[k].token].user]
  /\ pick' = [pick EXCEPT ![k].token = IF request[k].fn = "auth" THEN "none" ELSE @]
  /\ UNCHANGED <<token, login, answer, default, meant, seen, changes, gets>>

Arrived(k, fn) ==
  /\ request[k].fn = fn /\ answer[k] = "none"
  /\ request[k].token \in Tokens => request[k].user # "unwritten"
Answers(k, result) == answer' = [answer EXCEPT ![k] = result]

\* The server answers connect() and selectService(); a call on a lost connection
\* is answered by the bus.
Served(k) ==
  /\ \/ \E fn \in {"connect", "selectService"} : Arrived(k, fn)
          /\ \E result \in {"ok", "error"} : Answers(k, result)
     \/ request[k].fn # "none" /\ answer[k] = "none" /\ Answers(k, "error")
  /\ UNCHANGED <<token, login, request, default, pick, meant, seen, changes, gets>>

\* The session's default token becomes a copy of the one that came.
SetDefaultToken(k) ==
  /\ Arrived(k, "setDefaultToken") /\ Answers(k, "ok")
  /\ default' = [default EXCEPT ![k] = request[k].user]
  /\ UNCHANGED <<token, login, request, pick, meant, seen, changes, gets>>

\* Mutant: a default token is passed on as it is.
Meaning_AsSent(k) == request[k].user

\* A default token stands for the session's.
Meaning(k) == IF request[k].token = DefaultToken THEN default[k] ELSE request[k].user

\* auth(): the service looks at the user, and accepts it or not.
Sees(k, result) ==
  seen' = [seen EXCEPT ![k] =
    [name |-> request[k].name, wanted |-> pick[k].name, user |-> Meaning(k),
     users |-> IF request[k].token = DefaultToken THEN meant[k] ELSE pick[k].users,
     accepted |-> @.accepted \cup IF result = "ok" THEN {request[k].name} ELSE {}]]

\* callFunction() of auth()
Auth(k) ==
  /\ Arrived(k, "auth")
  /\ \E result \in {"ok", "error"} :
       /\ Answers(k, result)
       /\ Sees(k, result)
  /\ UNCHANGED <<token, login, request, default, pick, meant, changes, gets>>

-----------------------------------------------------------------------------
(* The application's thread takes the answers.                              *)

Returned(k, fns) == request[k].fn \in fns /\ answer[k] # "none"
TokenOf(k) == token[login[k].token]
Underway(k) == login[k].state = "Connecting"

\* The chain ends: the answer of the last call is the caller's.
Ends(k, state) ==
  /\ login' = [login EXCEPT ![k].state = state]
  /\ request' = [request EXCEPT ![k] = NoRequest]
  /\ answer' = [answer EXCEPT ![k] = "none"]
  /\ pick' = [pick EXCEPT ![k] = NoPick]
  /\ seen' = [seen EXCEPT ![k] = [NothingSeen EXCEPT !.accepted = seen[k].accepted]]

\* An error: connectCompleted() clears up the token, connect() leaves its service.
Failed(k) ==
  /\ Underway(k) /\ answer[k] = "error"
  /\ IF login[k].async
     THEN /\ token' = [token EXCEPT ![login[k].token].service = "none",
                                    ![login[k].token].todo = FALSE]
          /\ Ends(k, "Disconnected")
     ELSE /\ Ends(k, IF request[k].fn = "connect" THEN "Disconnected" ELSE "Failed")
          /\ UNCHANGED token
  /\ UNCHANGED <<default, meant, changes, gets>>

\* The mark is there, or connect() has no receiver: the token becomes the default.
PassDefault(k) ==
  /\ Underway(k) /\ Returned(k, {"connect"}) /\ answer[k] = "ok"
  /\ login[k].async => TokenOf(k).todo
  /\ token' = [token EXCEPT ![login[k].token].todo = @ /\ ~login[k].async]
  /\ meant' = [meant EXCEPT ![k] = {TokenOf(k).user}]
  /\ Posted(k, "setDefaultToken", "none", login[k].token)
  /\ UNCHANGED <<login, default, pick, seen, changes, gets>>

\* "We filled this in earlier, now we're using it!"
SelectDefault(k) ==
  /\ Underway(k) /\ Returned(k, {"setDefaultToken"}) /\ answer[k] = "ok"
  /\ HasService(login[k].token)
  /\ token' = [token EXCEPT ![login[k].token].service = "none"]
  /\ pick' = [pick EXCEPT ![k] = [name |-> login[k].url, token |-> "none", users |-> {}]]
  /\ Posted(k, "selectService", TokenOf(k).service, DefaultToken)
  /\ UNCHANGED <<login, default, meant, seen, changes, gets>>

\* getService() with a token of its own
GetService(k, name, t) ==
  /\ login[k].state = "Connected" /\ request[k].fn = "none" /\ gets < MaxGets /\ gets' = gets + 1
  /\ pick' = [pick EXCEPT ![k] = [name |-> name, token |-> t,
                                  users |-> IF t \in Tokens THEN {token[t].user} ELSE {}]]
  /\ Posted(k, "selectService", name, t)
  /\ UNCHANGED <<token, login, default, meant, seen, changes>>

\* selectService() returned a service: auth() is called of it.
CallAuth(k) ==
  /\ Returned(k, {"selectService"}) /\ answer[k] = "ok"
  /\ Posted(k, "auth", request[k].name, request[k].token)
  /\ UNCHANGED <<token, login, default, pick, meant, seen, changes, gets>>

Connected(k) ==
  /\ \/ Returned(k, {"auth"}) /\ answer[k] = "ok"
     \/ Returned(k, {"setDefaultToken"}) /\ answer[k] = "ok" /\ ~HasService(login[k].token)
     \/ ~Underway(k) /\ Returned(k, {"selectService", "auth"}) /\ answer[k] = "error"
  /\ Ends(k, "Connected")
  /\ UNCHANGED <<token, default, meant, changes, gets>>

AuthNext ==
  \/ \E k \in Logins, t \in Tokens, url \in Offered \cup {"none"}, async \in BOOLEAN :
       Connect(k, t, url, async)
  \/ \E t \in Tokens, u \in Accounts : ClientInsert(t, u)
  \/ \E k \in Logins, name \in Offered, t \in Tokens \cup {DefaultToken} : GetService(k, name, t)
  \/ \E k \in Logins :
       \/ Written(k) \/ Served(k) \/ SetDefaultToken(k) \/ Auth(k)
       \/ Failed(k) \/ PassDefault(k) \/ SelectDefault(k) \/ CallAuth(k) \/ Connected(k)

-----------------------------------------------------------------------------
\* auth() of a service is called for what the client asked for on that
\* connection, in its URL or in getService(), and with a user whom the token had
\* when it was passed or came to have before it was written; for the default
\* token that is the time of setDefaultToken().  A connect() that returned without
\* an error has selected the service of its URL.
LoggedInAsMeant ==
  \A k \in Logins :
    /\ seen[k].name = seen[k].wanted /\ seen[k].user \in seen[k].users
    /\ login[k].state = "Connected" /\ login[k].url # "none"
         => login[k].url \in seen[k].accepted
=============================================================================
