---------------------------- MODULE Calls_proofs ----------------------------
(***************************************************************************)
(* What Calls checks part by part, for all classes, connections, objects,  *)
(* handles, tokens and numbers of messages: a login is for the service and *)
(* the user that were meant, a call is answered once, the tables of a      *)
(* server agree with its objects, a value does not change with its copies, *)
(* the messages and values read are the ones written, and a method reaches *)
(* its namesake.  A step of one part leaves the others as they are, so     *)
(* each has an invariant of its own.                                       *)
(***************************************************************************)
EXTENDS Calls, Subsequences_proofs, FiniteSetTheorems, SequenceTheorems, TLAPS

-----------------------------------------------------------------------------
(* Logins.                                                                  *)

Users == Accounts \cup {"none", "nobody", "unwritten"}
Services == Offered \cup {"none"}
Functions == {"none", "connect", "setDefaultToken", "selectService", "auth"}

TokenData == [user : Accounts, service : Services, todo : BOOLEAN]
Attempt == [state : {"Disconnected", "Connecting", "Connected", "Failed"},
            token : Tokens \cup {"none"}, url : Services, async : BOOLEAN]
Asked == [fn : Functions, name : Services, token : Tokens \cup {"none", DefaultToken},
          user : Accounts \cup {"unwritten"}]
Picked == [name : Services, token : Tokens \cup {"none", DefaultToken}, users : SUBSET Users]
Sight == [name : Services, wanted : Services, user : Users, users : SUBSET Users,
          accepted : SUBSET Services]

AuthType ==
  /\ token \in [Tokens -> TokenData] /\ login \in [Logins -> Attempt]
  /\ request \in [Logins -> Asked] /\ answer \in [Logins -> {"none", "ok", "error"}]
  /\ pick \in [Logins -> Picked] /\ default \in [Logins -> Users]
  /\ meant \in [Logins -> SUBSET Users] /\ seen \in [Logins -> Sight]

\* One chain at a time uses a token, and finds the service of its own URL there
\* until it selects it.
OwnService ==
  /\ \A k \in Logins :
       /\ request[k].fn # "none" => login[k].state \in {"Connecting", "Connected"}
       /\ Underway(k) => login[k].token \in Tokens /\ request[k].fn # "none"
       /\ Underway(k) /\ request[k].fn \in {"connect", "setDefaultToken"}
            => token[login[k].token].service = login[k].url
  /\ \A j, k \in Logins :
       Underway(j) /\ Underway(k) /\ login[j].token = login[k].token => j = k

\* What is selected is what was asked for, and auth() is of that.
AsPicked(k) ==
  request[k].fn \in {"selectService", "auth"} =>
    /\ request[k].name = pick[k].name
    /\ Underway(k) => pick[k].name = login[k].url
    /\ request[k].fn = "auth" /\ answer[k] = "ok" => request[k].name \in seen[k].accepted

\* The users a token can be meant for are followed until it is written.
TokenFollowed(k) ==
  /\ pick[k].token \in Tokens => token[pick[k].token].user \in pick[k].users
  /\ request[k].fn \in {"selectService", "auth"} =>
       /\ request[k].token \in Tokens \cup {DefaultToken}
       /\ request[k].token \in Tokens =>
            IF request[k].fn = "selectService" \/ request[k].user = "unwritten"
            THEN pick[k].token = request[k].token ELSE request[k].user \in pick[k].users

\* So are those the default token can be meant for, which then stays.
DefaultFollowed(k) ==
  /\ request[k].fn = "setDefaultToken" =>
       /\ request[k].token \in Tokens
       /\ IF request[k].user = "unwritten" THEN token[request[k].token].user \in meant[k]
          ELSE request[k].user \in meant[k]
  /\ \/ request[k].fn = "setDefaultToken" /\ answer[k] = "ok"
     \/ request[k].fn \in {"selectService", "auth"}
     \/ login[k].state = "Connected"
     => default[k] \in meant[k]

LoginsInv ==
  /\ AuthType /\ OwnService
  /\ \A k \in Logins : AsPicked(k) /\ TokenFollowed(k) /\ DefaultFollowed(k)
  /\ LoggedInAsMeant
\* connect() takes the service of its URL to a token that no other attempt uses.
LEMMA ConnectKeeps ==
  ASSUME LoginsInv, NEW k \in Logins, NEW t \in Tokens, NEW url \in Services, NEW async \in BOOLEAN,
         Connect(k, t, url, async)
  PROVE  LoginsInv'
  <1> USE LoginsAssumption
  <1>0. PICK b \in BOOLEAN :
          /\ token' = [token EXCEPT ![t].service = url, ![t].todo = b]
          /\ login[k].state = "Disconnected"
          /\ \A j \in Logins : login[j].token = t => login[j].state # "Connecting"
          /\ login' = [login EXCEPT ![k] = [state |-> "Connecting", token |-> t, url |-> url,
                                            async |-> async]]
          /\ request' = [request EXCEPT ![k] = [fn |-> "connect", name |-> "none", token |-> "none",
                                                user |-> "unwritten"]]
          /\ answer' = [answer EXCEPT ![k] = "none"]
          /\ UNCHANGED <<default, pick, meant, seen>>
    <2>1. token[t] \in TokenData
      BY DEF LoginsInv, AuthType, DefaultToken, TokenData, Attempt, Asked, Picked, Sight,
         Functions, Users, Services
    <2>2. (IF url = "none" THEN token[t].service ELSE url) = url
      BY <2>1 DEF LoginsInv, AuthType, DefaultToken, TokenData, Attempt, Asked, Picked, Sight,
         Functions, Users, Services, Connect, HasService
    <2>3. (token[t].todo \/ async) \in BOOLEAN
      BY DEF LoginsInv, AuthType, DefaultToken, TokenData, Attempt, Asked, Picked, Sight,
         Functions, Users, Services
    <2>4. token' = [token EXCEPT ![t].service = url, ![t].todo = token[t].todo \/ async]
      BY <2>2 DEF LoginsInv, AuthType, DefaultToken, TokenData, Attempt, Asked, Picked, Sight,
         Functions, Users, Services, Connect
    <2> QED
      BY <2>3, <2>4 DEF LoginsInv, AuthType, DefaultToken, TokenData, Attempt, Asked, Picked,
         Sight, Functions, Users, Services, Connect, Posted
  <1>1. AuthType'
    <2>0. "none" \in Services /\ Accounts \subseteq Users /\ "none" \in Users
      BY DEF Services, Users
    <2>1. token' \in [Tokens -> TokenData]
      BY <1>0, <2>0 DEF LoginsInv, AuthType, TokenData
    <2>2. login' \in [Logins -> Attempt]
      BY <1>0, <2>0 DEF LoginsInv, AuthType, Attempt
    <2>3. request' \in [Logins -> Asked]
      BY <1>0, <2>0 DEF LoginsInv, AuthType, Asked, Functions
    <2>4. answer' \in [Logins -> {"none", "ok", "error"}]
      BY <1>0, <2>0 DEF LoginsInv, AuthType
    <2>5. pick' \in [Logins -> Picked]
      BY <1>0, <2>0 DEF LoginsInv, AuthType, Picked
    <2>6. default' \in [Logins -> Users] /\ meant' \in [Logins -> SUBSET Users]
      BY <1>0, <2>0 DEF LoginsInv, AuthType
    <2>7. seen' \in [Logins -> Sight]
      BY <1>0, <2>0 DEF LoginsInv, AuthType, Sight
    <2> QED
      BY <2>1, <2>2, <2>3, <2>4, <2>5, <2>6, <2>7 DEF AuthType
  <1>2. OwnService'
    BY <1>0 DEF LoginsInv, AuthType, DefaultToken, TokenData, Attempt, Asked, Picked, Sight,
       Functions, Users, Services, OwnService, Underway
  <1>3. ASSUME NEW j \in Logins
        PROVE  AsPicked(j)' /\ TokenFollowed(j)' /\ DefaultFollowed(j)'
    <2>1. AsPicked(j)'
      BY <1>0, <1>3 DEF LoginsInv, AuthType, DefaultToken, TokenData, Attempt, Asked, Picked,
         Sight, Functions, Users, Services, OwnService, AsPicked, Underway
    <2>2. TokenFollowed(j)'
      BY <1>0, <1>3 DEF LoginsInv, AuthType, DefaultToken, TokenData, Attempt, Asked, Picked,
         Sight, Functions, Users, Services, TokenFollowed
    <2>3. DefaultFollowed(j)'
      BY <1>0, <1>3 DEF LoginsInv, AuthType, DefaultToken, TokenData, Attempt, Asked, Picked,
         Sight, Functions, Users, Services, OwnService, DefaultFollowed, Underway
    <2> QED
      BY <2>1, <2>2, <2>3
  <1>4. LoggedInAsMeant'
    BY <1>0 DEF LoginsInv, AuthType, DefaultToken, TokenData, Attempt, Asked, Picked, Sight,
       Functions, Users, Services, OwnService, AsPicked, TokenFollowed, DefaultFollowed,
       LoggedInAsMeant, Underway
  <1> QED
    BY <1>1, <1>2, <1>3, <1>4 DEF LoginsInv

\* What is written is the user of the token at that moment.
LEMMA WrittenKeeps ==
  ASSUME LoginsInv, NEW k \in Logins, Written(k)
  PROVE  LoginsInv'
  <1> USE LoginsAssumption
  <1>0. PICK r \in Tokens, u \in Accounts, v \in {pick[k].token, "none"} :
          /\ r = request[k].token /\ u = token[r].user /\ request[k].user = "unwritten"
          /\ request' = [request EXCEPT ![k].user = u] /\ pick' = [pick EXCEPT ![k].token = v]
          /\ v = IF request[k].fn = "auth" THEN "none" ELSE pick[k].token
          /\ UNCHANGED <<token, login, answer, default, meant, seen>>
    BY DEF LoginsInv, AuthType, DefaultToken, TokenData, Attempt, Asked, Picked, Sight, Functions,
       Users, Services, Written
  <1>1. AuthType'
    <2>0. "none" \in Services /\ Accounts \subseteq Users /\ "none" \in Users
      BY DEF Services, Users
    <2>1. token' \in [Tokens -> TokenData]
      BY <1>0, <2>0 DEF LoginsInv, AuthType, TokenData
    <2>2. login' \in [Logins -> Attempt]
      BY <1>0, <2>0 DEF LoginsInv, AuthType, Attempt
    <2>3. request' \in [Logins -> Asked]
      BY <1>0, <2>0 DEF LoginsInv, AuthType, Asked, Functions
    <2>4. answer' \in [Logins -> {"none", "ok", "error"}]
      BY <1>0, <2>0 DEF LoginsInv, AuthType
    <2>5. pick' \in [Logins -> Picked]
      BY <1>0, <2>0 DEF LoginsInv, AuthType, Picked
    <2>6. default' \in [Logins -> Users] /\ meant' \in [Logins -> SUBSET Users]
      BY <1>0, <2>0 DEF LoginsInv, AuthType
    <2>7. seen' \in [Logins -> Sight]
      BY <1>0, <2>0 DEF LoginsInv, AuthType, Sight
    <2> QED
      BY <2>1, <2>2, <2>3, <2>4, <2>5, <2>6, <2>7 DEF AuthType
  <1>2. OwnService'
    BY <1>0 DEF LoginsInv, AuthType, DefaultToken, TokenData, Attempt, Asked, Picked, Sight,
       Functions, Users, Services, OwnService, Underway
  <1>3. ASSUME NEW j \in Logins
        PROVE  AsPicked(j)' /\ TokenFollowed(j)' /\ DefaultFollowed(j)'
    <2>1. AsPicked(j)'
      BY <1>0, <1>3 DEF LoginsInv, AuthType, DefaultToken, TokenData, Attempt, Asked, Picked,
         Sight, Functions, Users, Services, OwnService, AsPicked, Underway
    <2>2. TokenFollowed(j)'
      BY <1>0, <1>3 DEF LoginsInv, AuthType, DefaultToken, TokenData, Attempt, Asked, Picked,
         Sight, Functions, Users, Services, TokenFollowed
    <2>3. DefaultFollowed(j)'
      BY <1>0, <1>3 DEF LoginsInv, AuthType, DefaultToken, TokenData, Attempt, Asked, Picked,
         Sight, Functions, Users, Services, OwnService, DefaultFollowed, Underway
    <2> QED
      BY <2>1, <2>2, <2>3
  <1>4. LoggedInAsMeant'
    BY <1>0 DEF LoginsInv, AuthType, DefaultToken, TokenData, Attempt, Asked, Picked, Sight,
       Functions, Users, Services, OwnService, AsPicked, TokenFollowed, DefaultFollowed,
       LoggedInAsMeant, Underway
  <1> QED
    BY <1>1, <1>2, <1>3, <1>4 DEF LoginsInv

\* The server answers, or the bus does.
LEMMA ServedKeeps ==
  ASSUME LoginsInv, NEW k \in Logins, Served(k)
  PROVE  LoginsInv'
  <1> USE LoginsAssumption DEF LoginsInv, AuthType, DefaultToken, TokenData, Attempt, Asked,
     Picked, Sight, Functions, Users, Services
  <1>0. PICK result \in {"ok", "error"} :
          /\ answer' = [answer EXCEPT ![k] = result]
          /\ result = "ok" => request[k].fn \in {"connect", "selectService"}
          /\ UNCHANGED <<token, login, request, default, pick, meant, seen>>
    BY DEF Served, Arrived, Answers
  <1>1. AuthType'
    BY <1>0
  <1>2. OwnService'
    BY <1>0 DEF OwnService, Underway
  <1>3. ASSUME NEW j \in Logins
        PROVE  AsPicked(j)' /\ TokenFollowed(j)' /\ DefaultFollowed(j)'
    <2>1. AsPicked(j)'
      BY <1>0, <1>3 DEF OwnService, AsPicked, Underway
    <2>2. TokenFollowed(j)'
      BY <1>0, <1>3 DEF TokenFollowed
    <2>3. DefaultFollowed(j)'
      BY <1>0, <1>3 DEF OwnService, DefaultFollowed, Underway
    <2> QED
      BY <2>1, <2>2, <2>3
  <1>4. LoggedInAsMeant'
    BY <1>0 DEF OwnService, AsPicked, TokenFollowed, DefaultFollowed, LoggedInAsMeant, Underway
  <1> QED
    BY <1>1, <1>2, <1>3, <1>4

\* The session takes over the user that was written.
LEMMA SetDefaultTokenKeeps ==
  ASSUME LoginsInv, NEW k \in Logins, SetDefaultToken(k)
  PROVE  LoginsInv'
  <1> USE LoginsAssumption DEF LoginsInv, AuthType, DefaultToken, TokenData, Attempt, Asked,
     Picked, Sight, Functions, Users, Services, SetDefaultToken, Arrived, Answers
  <1>1. AuthType'
    OBVIOUS
  <1>2. OwnService'
    BY DEF OwnService, Underway
  <1>3. ASSUME NEW j \in Logins
        PROVE  AsPicked(j)' /\ TokenFollowed(j)' /\ DefaultFollowed(j)'
    <2>1. AsPicked(j)'
      BY <1>3 DEF OwnService, AsPicked, Underway
    <2>2. TokenFollowed(j)'
      BY <1>3 DEF TokenFollowed
    <2>3. DefaultFollowed(j)'
      BY <1>3 DEF OwnService, DefaultFollowed, Underway
    <2> QED
      BY <2>1, <2>2, <2>3
  <1>4. LoggedInAsMeant'
    BY DEF OwnService, AsPicked, TokenFollowed, DefaultFollowed, LoggedInAsMeant, Underway
  <1> QED
    BY <1>1, <1>2, <1>3, <1>4

\* The service sees the user that was written, or the session's.
LEMMA AuthKeeps ==
  ASSUME LoginsInv, NEW k \in Logins, Auth(k)
  PROVE  LoginsInv'
  <1> USE LoginsAssumption DEF LoginsInv, AuthType, DefaultToken, TokenData, Attempt, Asked,
     Picked, Sight, Functions, Users, Services, Auth, Arrived, Answers, DefaultToken
  <1>0. PICK result \in {"ok", "error"} : Answers(k, result) /\ Sees(k, result)
    OBVIOUS
  <1>1. AuthType'
    <2>1. seen' \in [Logins -> Sight]
      BY <1>0 DEF Sees, Meaning
    <2> QED
      BY <1>0, <2>1
  <1>2. OwnService'
    BY <1>0 DEF OwnService, Underway
  <1>3. ASSUME NEW j \in Logins
        PROVE  AsPicked(j)' /\ TokenFollowed(j)' /\ DefaultFollowed(j)'
    <2>1. AsPicked(j)'
      BY <1>0, <1>3 DEF OwnService, AsPicked, Underway, Sees
    <2>2. TokenFollowed(j)'
      BY <1>0, <1>3 DEF TokenFollowed
    <2>3. DefaultFollowed(j)'
      BY <1>0, <1>3 DEF OwnService, DefaultFollowed, Underway
    <2> QED
      BY <2>1, <2>2, <2>3
  <1>4. LoggedInAsMeant'
    <2>1. Meaning(k) \in IF request[k].token = DefaultToken THEN meant[k] ELSE pick[k].users
      <3>1. TokenFollowed(k) /\ DefaultFollowed(k) /\ request[k].fn = "auth"
        OBVIOUS
      <3>2. CASE request[k].token = DefaultToken
        BY <3>1, <3>2 DEF DefaultFollowed, Meaning
      <3>3. CASE request[k].token # DefaultToken
        BY <3>1, <3>3 DEF TokenFollowed, Meaning
      <3> QED
        BY <3>2, <3>3
    <2>2. request[k].name = pick[k].name
      BY DEF AsPicked
    <2>3. seen'[k].name = seen'[k].wanted /\ seen'[k].user \in seen'[k].users
      BY <1>0, <2>1, <2>2 DEF Sees
    <2>4. /\ seen[k].accepted \subseteq seen'[k].accepted
          /\ \A j \in Logins : j # k => seen'[j] = seen[j]
      BY <1>0 DEF Sees
    <2> QED
      BY <2>3, <2>4 DEF LoggedInAsMeant
  <1> QED
    BY <1>1, <1>2, <1>3, <1>4

\* An attempt fails, and lets go of its token.
LEMMA FailedKeeps ==
  ASSUME LoginsInv, NEW k \in Logins, Failed(k)
  PROVE  LoginsInv'
  <1> USE LoginsAssumption
  <1>0. PICK s \in {"Disconnected", "Failed"}, x \in Tokens :
          /\ x = login[k].token /\ login[k].state = "Connecting"
          /\ login' = [login EXCEPT ![k].state = s]
          /\ request' = [request EXCEPT ![k] = NoRequest] /\ answer' = [answer EXCEPT ![k] = "none"]
          /\ pick' = [pick EXCEPT ![k] = NoPick]
          /\ seen' = [seen EXCEPT ![k] = [NothingSeen EXCEPT !.accepted = seen[k].accepted]]
          /\ \/ token' = token
             \/ token' = [token EXCEPT ![x].service = "none", ![x].todo = FALSE]
          /\ UNCHANGED <<default, meant>>
    <2>1. login[k].token \in Tokens
      BY DEF LoginsInv, AuthType, DefaultToken, TokenData, Attempt, Asked, Picked, Sight,
         Functions, Users, Services, Failed, OwnService
    <2> QED
      BY <2>1 DEF LoginsInv, AuthType, DefaultToken, TokenData, Attempt, Asked, Picked, Sight,
         Functions, Users, Services, Failed, Underway, Ends
  <1>1. AuthType'
    <2>0. "none" \in Services /\ Accounts \subseteq Users /\ "none" \in Users
      BY DEF Services, Users
    <2>1. token' \in [Tokens -> TokenData]
      BY <1>0, <2>0 DEF LoginsInv, AuthType, TokenData
    <2>2. login' \in [Logins -> Attempt]
      BY <1>0, <2>0, SMTT(30) DEF LoginsInv, AuthType, Attempt
    <2>3. request' \in [Logins -> Asked]
      BY <1>0, <2>0 DEF LoginsInv, AuthType, Asked, Functions, NoRequest
    <2>4. answer' \in [Logins -> {"none", "ok", "error"}]
      BY <1>0, <2>0 DEF LoginsInv, AuthType
    <2>5. pick' \in [Logins -> Picked]
      BY <1>0, <2>0 DEF LoginsInv, AuthType, Picked, NoPick
    <2>6. default' \in [Logins -> Users] /\ meant' \in [Logins -> SUBSET Users]
      BY <1>0, <2>0 DEF LoginsInv, AuthType
    <2>7. seen' \in [Logins -> Sight]
      BY <1>0, <2>0 DEF LoginsInv, AuthType, Sight, NothingSeen
    <2> QED
      BY <2>1, <2>2, <2>3, <2>4, <2>5, <2>6, <2>7 DEF AuthType
  <1>5. \A t \in Tokens : token'[t].user = token[t].user
    <2>1. token \in [Tokens -> TokenData]
      BY DEF LoginsInv, AuthType
    <2>2. CASE token' = token
      BY <2>2
    <2>3. CASE token' = [token EXCEPT ![x].service = "none", ![x].todo = FALSE]
      BY <2>1, <2>3 DEF TokenData
    <2> QED
      BY <1>0, <2>2, <2>3
  <1>6. \A j \in Logins :
          /\ j = k => /\ login'[j].state # "Connected" /\ request'[j].fn = "none" /\ pick'[j].token = "none"
          /\ j # k => /\ login'[j] = login[j] /\ request'[j] = request[j] /\ answer'[j] = answer[j]
                      /\ pick'[j] = pick[j]
          /\ default'[j] = default[j] /\ meant'[j] = meant[j]
    BY <1>0 DEF LoginsInv, AuthType, Attempt, Asked, Picked, NoRequest, NoPick
  <1>2. OwnService'
    BY <1>0 DEF LoginsInv, AuthType, DefaultToken, TokenData, Attempt, Asked, Picked, Sight,
       Functions, Users, Services, NoRequest, OwnService, Underway
  <1>3. ASSUME NEW j \in Logins
        PROVE  AsPicked(j)' /\ TokenFollowed(j)' /\ DefaultFollowed(j)'
    <2>1. AsPicked(j)'
      BY <1>0, <1>3 DEF LoginsInv, AuthType, DefaultToken, TokenData, Attempt, Asked, Picked,
         Sight, Functions, Users, Services, NoRequest, OwnService, AsPicked, Underway
    <2>2. TokenFollowed(j)'
      BY <1>3, <1>5, <1>6 DEF LoginsInv, AuthType, TokenFollowed
    <2>3. DefaultFollowed(j)'
      BY <1>3, <1>5, <1>6 DEF LoginsInv, AuthType, DefaultFollowed
    <2> QED
      BY <2>1, <2>2, <2>3
  <1>4. LoggedInAsMeant'
    BY <1>0 DEF LoginsInv, AuthType, DefaultToken, TokenData, Attempt, Asked, Picked, Sight,
       Functions, Users, Services, NothingSeen, LoggedInAsMeant
  <1> QED
    BY <1>1, <1>2, <1>3, <1>4 DEF LoginsInv

\* The token becomes the default, with the user it has now or is given before it is written.
LEMMA PassDefaultKeeps ==
  ASSUME LoginsInv, NEW k \in Logins, PassDefault(k)
  PROVE  LoginsInv'
  <1> USE LoginsAssumption
  <1>0. PICK x \in Tokens, b \in BOOLEAN :
          /\ x = login[k].token /\ token' = [token EXCEPT ![x].todo = b]
          /\ login[k].state = "Connecting" /\ request[k].fn = "connect"
          /\ meant' = [meant EXCEPT ![k] = {token[x].user}]
          /\ request' = [request EXCEPT ![k] = [fn |-> "setDefaultToken", name |-> "none", token
             |-> x,
                                                user |-> "unwritten"]]
          /\ answer' = [answer EXCEPT ![k] = "none"]
          /\ UNCHANGED <<login, default, pick, seen>>
    <2>1. login[k].token \in Tokens
      BY DEF LoginsInv, AuthType, DefaultToken, TokenData, Attempt, Asked, Picked, Sight,
         Functions, Users, Services, PassDefault, OwnService
    <2>2. (token[login[k].token].todo /\ ~login[k].async) \in BOOLEAN
      BY DEF LoginsInv, AuthType, DefaultToken, TokenData, Attempt, Asked, Picked, Sight,
         Functions, Users, Services
    <2> QED
      BY <2>1, <2>2 DEF LoginsInv, AuthType, DefaultToken, TokenData, Attempt, Asked, Picked,
         Sight, Functions, Users, Services, PassDefault, Underway, Returned, TokenOf, Posted
  <1>1. AuthType'
    <2>0. "none" \in Services /\ Accounts \subseteq Users /\ "none" \in Users
      BY DEF Services, Users
    <2>1. token' \in [Tokens -> TokenData]
      BY <1>0, <2>0 DEF LoginsInv, AuthType, TokenData
    <2>2. login' \in [Logins -> Attempt]
      BY <1>0, <2>0 DEF LoginsInv, AuthType, Attempt
    <2>3. request' \in [Logins -> Asked]
      BY <1>0, <2>0 DEF LoginsInv, AuthType, Asked, Functions
    <2>4. answer' \in [Logins -> {"none", "ok", "error"}]
      BY <1>0 DEF LoginsInv, AuthType
    <2>5. pick' \in [Logins -> Picked]
      BY <1>0, <2>0 DEF LoginsInv, AuthType, Picked
    <2>6. default' \in [Logins -> Users] /\ meant' \in [Logins -> SUBSET Users]
      BY <1>0, <2>0 DEF LoginsInv, AuthType, TokenData
    <2>7. seen' \in [Logins -> Sight]
      BY <1>0, <2>0 DEF LoginsInv, AuthType, Sight
    <2> QED
      BY <2>1, <2>2, <2>3, <2>4, <2>5, <2>6, <2>7 DEF AuthType
  <1>2. OwnService'
    BY <1>0 DEF LoginsInv, AuthType, DefaultToken, TokenData, Attempt, Asked, Picked, Sight,
       Functions, Users, Services, OwnService, Underway
  <1>3. ASSUME NEW j \in Logins
        PROVE  AsPicked(j)' /\ TokenFollowed(j)' /\ DefaultFollowed(j)'
    <2>1. AsPicked(j)'
      BY <1>0, <1>3 DEF LoginsInv, AuthType, DefaultToken, TokenData, Attempt, Asked, Picked,
         Sight, Functions, Users, Services, OwnService, AsPicked, Underway
    <2>2. TokenFollowed(j)'
      BY <1>0, <1>3 DEF LoginsInv, AuthType, DefaultToken, TokenData, Attempt, Asked, Picked,
         Sight, Functions, Users, Services, TokenFollowed
    <2>3. DefaultFollowed(j)'
      BY <1>0, <1>3 DEF LoginsInv, AuthType, DefaultToken, TokenData, Attempt, Asked, Picked,
         Sight, Functions, Users, Services, OwnService, DefaultFollowed, Underway
    <2> QED
      BY <2>1, <2>2, <2>3
  <1>4. LoggedInAsMeant'
    BY <1>0 DEF LoginsInv, AuthType, DefaultToken, TokenData, Attempt, Asked, Picked, Sight,
       Functions, Users, Services, OwnService, AsPicked, TokenFollowed, DefaultFollowed,
       LoggedInAsMeant, Underway
  <1> QED
    BY <1>1, <1>2, <1>3, <1>4 DEF LoginsInv

\* The service of the URL is selected.
LEMMA SelectDefaultKeeps ==
  ASSUME LoginsInv, NEW k \in Logins, SelectDefault(k)
  PROVE  LoginsInv'
  <1> USE LoginsAssumption
  <1>0. PICK x \in Tokens, s \in Services :
          /\ x = login[k].token /\ token' = [token EXCEPT ![x].service = "none"]
          /\ s = login[k].url
          /\ login[k].state = "Connecting" /\ request[k].fn = "setDefaultToken" /\ answer[k] = "ok"
          /\ pick' = [pick EXCEPT ![k] = [name |-> s, token |-> "none", users |-> {}]]
          /\ request' = [request EXCEPT ![k] = [fn |-> "selectService", name |-> s,
                                                token |-> DefaultToken, user |-> "unwritten"]]
          /\ answer' = [answer EXCEPT ![k] = "none"]
          /\ UNCHANGED <<login, default, meant, seen>>
    <2>1. login[k].token \in Tokens /\ token[login[k].token].service = login[k].url
      BY DEF LoginsInv, AuthType, DefaultToken, TokenData, Attempt, Asked, Picked, Sight,
         Functions, Users, Services, SelectDefault, OwnService, Returned
    <2> QED
      BY <2>1 DEF LoginsInv, AuthType, DefaultToken, TokenData, Attempt, Asked, Picked, Sight,
         Functions, Users, Services, SelectDefault, Underway, Returned, TokenOf, Posted
  <1>1. AuthType'
    <2>0. "none" \in Services /\ Accounts \subseteq Users /\ "none" \in Users
      BY DEF Services, Users
    <2>1. token' \in [Tokens -> TokenData]
      BY <1>0, <2>0 DEF LoginsInv, AuthType, TokenData
    <2>2. login' \in [Logins -> Attempt]
      BY <1>0, <2>0 DEF LoginsInv, AuthType, Attempt
    <2>3. request' \in [Logins -> Asked]
      BY <1>0, <2>0 DEF LoginsInv, AuthType, Asked, Functions
    <2>4. answer' \in [Logins -> {"none", "ok", "error"}]
      BY <1>0, <2>0 DEF LoginsInv, AuthType
    <2>5. pick' \in [Logins -> Picked]
      BY <1>0, <2>0 DEF LoginsInv, AuthType, Picked
    <2>6. default' \in [Logins -> Users] /\ meant' \in [Logins -> SUBSET Users]
      BY <1>0, <2>0 DEF LoginsInv, AuthType
    <2>7. seen' \in [Logins -> Sight]
      BY <1>0, <2>0 DEF LoginsInv, AuthType, Sight
    <2> QED
      BY <2>1, <2>2, <2>3, <2>4, <2>5, <2>6, <2>7 DEF AuthType
  <1>2. OwnService'
    BY <1>0 DEF LoginsInv, AuthType, DefaultToken, TokenData, Attempt, Asked, Picked, Sight,
       Functions, Users, Services, OwnService, Underway
  <1>3. ASSUME NEW j \in Logins
        PROVE  AsPicked(j)' /\ TokenFollowed(j)' /\ DefaultFollowed(j)'
    <2>1. AsPicked(j)'
      BY <1>0, <1>3 DEF LoginsInv, AuthType, DefaultToken, TokenData, Attempt, Asked, Picked,
         Sight, Functions, Users, Services, OwnService, AsPicked, Underway
    <2>2. TokenFollowed(j)'
      BY <1>0, <1>3 DEF LoginsInv, AuthType, DefaultToken, TokenData, Attempt, Asked, Picked,
         Sight, Functions, Users, Services, TokenFollowed
    <2>3. DefaultFollowed(j)'
      BY <1>0, <1>3 DEF LoginsInv, AuthType, DefaultToken, TokenData, Attempt, Asked, Picked,
         Sight, Functions, Users, Services, OwnService, DefaultFollowed, Underway
    <2> QED
      BY <2>1, <2>2, <2>3
  <1>4. LoggedInAsMeant'
    BY <1>0 DEF LoginsInv, AuthType, DefaultToken, TokenData, Attempt, Asked, Picked, Sight,
       Functions, Users, Services, OwnService, AsPicked, TokenFollowed, DefaultFollowed,
       LoggedInAsMeant, Underway
  <1> QED
    BY <1>1, <1>2, <1>3, <1>4 DEF LoginsInv

\* The application asks for a service, with the default token or another.
LEMMA GetServiceKeeps ==
  ASSUME LoginsInv, NEW k \in Logins, NEW name \in Offered, NEW t \in Tokens \cup {DefaultToken},
         GetService(k, name, t)
  PROVE  LoginsInv'
  <1> USE LoginsAssumption DEF LoginsInv, AuthType, DefaultToken, TokenData, Attempt, Asked,
     Picked, Sight, Functions, Users, Services, GetService, Posted, DefaultToken
  <1>1. AuthType'
    OBVIOUS
  <1>2. OwnService'
    BY DEF OwnService, Underway
  <1>3. ASSUME NEW j \in Logins
        PROVE  AsPicked(j)' /\ TokenFollowed(j)' /\ DefaultFollowed(j)'
    <2>1. AsPicked(j)'
      BY <1>3 DEF OwnService, AsPicked, Underway
    <2>2. TokenFollowed(j)'
      BY <1>3 DEF TokenFollowed
    <2>3. DefaultFollowed(j)'
      BY <1>3 DEF OwnService, DefaultFollowed, Underway
    <2> QED
      BY <2>1, <2>2, <2>3
  <1>4. LoggedInAsMeant'
    BY DEF OwnService, AsPicked, TokenFollowed, DefaultFollowed, LoggedInAsMeant, Underway
  <1> QED
    BY <1>1, <1>2, <1>3, <1>4

\* The service that was selected is authenticated.
LEMMA CallAuthKeeps ==
  ASSUME LoginsInv, NEW k \in Logins, CallAuth(k)
  PROVE  LoginsInv'
  <1> USE LoginsAssumption DEF LoginsInv, AuthType, DefaultToken, TokenData, Attempt, Asked,
     Picked, Sight, Functions, Users, Services, CallAuth, Returned, Posted, DefaultToken
  <1>1. AuthType'
    OBVIOUS
  <1>2. OwnService'
    BY DEF OwnService, Underway
  <1>3. ASSUME NEW j \in Logins
        PROVE  AsPicked(j)' /\ TokenFollowed(j)' /\ DefaultFollowed(j)'
    <2>1. AsPicked(j)'
      BY <1>3 DEF OwnService, AsPicked, Underway
    <2>2. TokenFollowed(j)'
      BY <1>3 DEF TokenFollowed
    <2>3. DefaultFollowed(j)'
      BY <1>3 DEF OwnService, DefaultFollowed, Underway
    <2> QED
      BY <2>1, <2>2, <2>3
  <1>4. LoggedInAsMeant'
    BY DEF OwnService, AsPicked, TokenFollowed, DefaultFollowed, LoggedInAsMeant, Underway
  <1> QED
    BY <1>1, <1>2, <1>3, <1>4

\* The chain ends without an error, or getService() does.
LEMMA ConnectedKeeps ==
  ASSUME LoginsInv, NEW k \in Logins, Connected(k)
  PROVE  LoginsInv'
  <1> USE LoginsAssumption
  <1>0. PICK s \in {"Connected"} :
          /\ login' = [login EXCEPT ![k].state = s]
          /\ request' = [request EXCEPT ![k] = NoRequest] /\ answer' = [answer EXCEPT ![k] = "none"]
          /\ pick' = [pick EXCEPT ![k] = NoPick]
          /\ seen' = [seen EXCEPT ![k] = [NothingSeen EXCEPT !.accepted = seen[k].accepted]]
          /\ default[k] \in meant[k]
          /\ login[k].url # "none" => login[k].url \in seen[k].accepted
          /\ UNCHANGED <<token, default, meant>>
    <2>1. default[k] \in meant[k]
      BY DEF LoginsInv, AuthType, DefaultToken, TokenData, Attempt, Asked, Picked, Sight,
         Functions, Users, Services, Connected, Returned, OwnService, DefaultFollowed, Underway
    <2>2. login[k].url # "none" => login[k].url \in seen[k].accepted
      BY DEF LoginsInv, AuthType, DefaultToken, TokenData, Attempt, Asked, Picked, Sight,
         Functions, Users, Services, Connected, Returned, HasService, OwnService, AsPicked,
         LoggedInAsMeant, Underway
    <2> QED
      BY <2>1, <2>2 DEF LoginsInv, AuthType, DefaultToken, TokenData, Attempt, Asked, Picked,
         Sight, Functions, Users, Services, Connected, Ends
  <1>1. AuthType'
    <2>0. "none" \in Services /\ Accounts \subseteq Users /\ "none" \in Users
      BY DEF Services, Users
    <2>1. token' \in [Tokens -> TokenData]
      BY <1>0, <2>0 DEF LoginsInv, AuthType, TokenData
    <2>2. login' \in [Logins -> Attempt]
      BY <1>0, <2>0 DEF LoginsInv, AuthType, Attempt
    <2>3. request' \in [Logins -> Asked]
      BY <1>0, <2>0 DEF LoginsInv, AuthType, Asked, Functions, NoRequest
    <2>4. answer' \in [Logins -> {"none", "ok", "error"}]
      BY <1>0, <2>0 DEF LoginsInv, AuthType
    <2>5. pick' \in [Logins -> Picked]
      BY <1>0, <2>0 DEF LoginsInv, AuthType, Picked, NoPick
    <2>6. default' \in [Logins -> Users] /\ meant' \in [Logins -> SUBSET Users]
      BY <1>0, <2>0 DEF LoginsInv, AuthType
    <2>7. seen' \in [Logins -> Sight]
      BY <1>0, <2>0 DEF LoginsInv, AuthType, Sight, NothingSeen
    <2> QED
      BY <2>1, <2>2, <2>3, <2>4, <2>5, <2>6, <2>7 DEF AuthType
  <1>2. OwnService'
    BY <1>0 DEF LoginsInv, AuthType, DefaultToken, TokenData, Attempt, Asked, Picked, Sight,
       Functions, Users, Services, NoRequest, OwnService, Underway
  <1>3. ASSUME NEW j \in Logins
        PROVE  AsPicked(j)' /\ TokenFollowed(j)' /\ DefaultFollowed(j)'
    <2>1. AsPicked(j)'
      BY <1>0, <1>3 DEF LoginsInv, AuthType, DefaultToken, TokenData, Attempt, Asked, Picked,
         Sight, Functions, Users, Services, NoRequest, OwnService, AsPicked, Underway
    <2>2. TokenFollowed(j)'
      BY <1>0, <1>3 DEF LoginsInv, AuthType, DefaultToken, TokenData, Attempt, Asked, Picked,
         Sight, Functions, Users, Services, TokenFollowed, NoRequest, NoPick
    <2>3. DefaultFollowed(j)'
      BY <1>0, <1>3 DEF LoginsInv, AuthType, DefaultToken, TokenData, Attempt, Asked, Picked,
         Sight, Functions, Users, Services, NoRequest, OwnService, DefaultFollowed, Underway
    <2> QED
      BY <2>1, <2>2, <2>3
  <1>4. LoggedInAsMeant'
    BY <1>0 DEF LoginsInv, AuthType, DefaultToken, TokenData, Attempt, Asked, Picked, Sight,
       Functions, Users, Services, NothingSeen, LoggedInAsMeant
  <1> QED
    BY <1>1, <1>2, <1>3, <1>4 DEF LoginsInv

\* The application gives a token another user: it is meant from now on as well.
LEMMA ClientInsertKeeps ==
  ASSUME LoginsInv, NEW t \in Tokens, NEW u \in Accounts, ClientInsert(t, u)
  PROVE  LoginsInv'
  <1>0. /\ token' = [token EXCEPT ![t].user = u]
        /\ \A k \in Logins :
             /\ pick'[k] = IF pick[k].token = t THEN [pick[k] EXCEPT !.users = @ \cup {u}] ELSE pick[k]
             /\ meant'[k] = IF /\ request[k].fn = "setDefaultToken" /\ request[k].token = t
                               /\ request[k].user = "unwritten"
                            THEN meant[k] \cup {u} ELSE meant[k]
        /\ DOMAIN pick' = Logins /\ DOMAIN meant' = Logins
        /\ UNCHANGED <<login, request, answer, default, seen, gets>>
    BY DEF LoginsInv, AuthType, ClientInsert
  <1>1. AuthType'
    <2>0. u \in Users
      BY DEF Users
    <2>1. pick' \in [Logins -> Picked]
      BY <2>0 DEF ClientInsert, LoginsInv, AuthType, Picked
    <2>2. meant' \in [Logins -> SUBSET Users]
      BY <2>0 DEF ClientInsert, LoginsInv, AuthType
    <2>3. token' \in [Tokens -> TokenData]
      BY <1>0 DEF LoginsInv, AuthType, TokenData
    <2> QED
      BY <1>0, <2>1, <2>2, <2>3 DEF LoginsInv, AuthType
  <1>2. OwnService'
    BY <1>0 DEF LoginsInv, AuthType, TokenData, Attempt, Asked, Picked, Sight, OwnService, Underway
  <1>3. ASSUME NEW j \in Logins
        PROVE  AsPicked(j)' /\ TokenFollowed(j)' /\ DefaultFollowed(j)'
    <2>1. AsPicked(j)'
      <3>1. pick'[j].name = pick[j].name
        BY <1>0 DEF LoginsInv, AuthType, Picked
      <3> QED
        BY <1>0, <1>3, <3>1 DEF LoginsInv, AsPicked, Underway
    <2>2. TokenFollowed(j)'
      <3>1. /\ pick'[j].token = pick[j].token /\ pick[j].users \subseteq pick'[j].users
            /\ pick[j].token = t => u \in pick'[j].users
        BY <1>0 DEF LoginsInv, AuthType, Picked
      <3>2. \A x \in Tokens : token'[x].user = IF x = t THEN u ELSE token[x].user
        BY <1>0 DEF LoginsInv, AuthType, TokenData
      <3> QED
        BY <1>0, <1>3, <3>1, <3>2 DEF LoginsInv, TokenFollowed
    <2>3. DefaultFollowed(j)'
      BY <1>0, <1>3 DEF LoginsInv, AuthType, TokenData, Attempt, Asked, Picked, Sight,
         DefaultFollowed
    <2> QED
      BY <2>1, <2>2, <2>3
  <1>4. LoggedInAsMeant'
    BY <1>0 DEF LoginsInv, AuthType, TokenData, Attempt, Asked, Picked, Sight, LoggedInAsMeant
  <1> QED
    BY <1>1, <1>2, <1>3, <1>4 DEF LoginsInv
LEMMA LoginsStart ==
  ASSUME AuthInit
  PROVE  LoginsInv
  <1>1. AuthType
    <2>1. (CHOOSE u \in Accounts : TRUE) \in Accounts
      BY LoginsAssumption
    <2> QED
      BY <2>1 DEF AuthInit, AuthType, TokenData, Attempt, Asked, Picked, Sight, NoRequest, NoPick,
         NothingSeen, Users, Services, Functions
  <1>2. OwnService
    BY DEF AuthInit, OwnService, Underway, NoRequest
  <1>3. \A k \in Logins : AsPicked(k) /\ TokenFollowed(k) /\ DefaultFollowed(k)
    BY LoginsAssumption DEF AuthInit, AsPicked, TokenFollowed, DefaultFollowed, NoRequest, NoPick
  <1>4. LoggedInAsMeant
    BY DEF AuthInit, LoggedInAsMeant, NothingSeen
  <1> QED
    BY <1>1, <1>2, <1>3, <1>4 DEF LoginsInv

LEMMA LoginsKept ==
  ASSUME LoginsInv, [CallsNext]_callsVars
  PROVE  LoginsInv'
  <1>1. CASE AuthNext
    <2>1. CASE \E k \in Logins, t \in Tokens, url \in Offered \cup {"none"}, async \in BOOLEAN :
                 Connect(k, t, url, async)
      BY <2>1, ConnectKeeps DEF Services
    <2>2. CASE \E t \in Tokens, u \in Accounts : ClientInsert(t, u)
      BY <2>2, ClientInsertKeeps
    <2>3. CASE \E k \in Logins, name \in Offered, t \in Tokens \cup {DefaultToken} :
                 GetService(k, name, t)
      BY <2>3, GetServiceKeeps
    <2>4. ASSUME NEW k \in Logins,
                 \/ Written(k) \/ Served(k) \/ SetDefaultToken(k) \/ Auth(k)
                 \/ Failed(k) \/ PassDefault(k) \/ SelectDefault(k) \/ CallAuth(k) \/ Connected(k)
          PROVE  LoginsInv'
      BY <2>4, WrittenKeeps, ServedKeeps, SetDefaultTokenKeeps, AuthKeeps, FailedKeeps,
         PassDefaultKeeps, SelectDefaultKeeps, CallAuthKeeps, ConnectedKeeps
    <2> QED
      BY <1>1, <2>1, <2>2, <2>3, <2>4 DEF AuthNext
  <1>2. CASE UNCHANGED authVars
    <2>1. AuthType' /\ OwnService' /\ LoggedInAsMeant'
      BY <1>2 DEF LoginsInv, authVars, AuthType, OwnService, Underway, LoggedInAsMeant
    <2>2. \A k \in Logins : AsPicked(k)' /\ TokenFollowed(k)' /\ DefaultFollowed(k)'
      BY <1>2 DEF LoginsInv, authVars, AsPicked, Underway, TokenFollowed, DefaultFollowed
    <2> QED
      BY <2>1, <2>2 DEF LoginsInv
  <1> QED
    BY <1>1, <1>2 DEF CallsNext, DispatchStep, FramingStep, TableStep, ValuesStep, AuthStep,
       callsVars

\* auth() is called of the service that was asked for on its connection, and with
\* a user its token, or the session's default token, can have been meant for; and
\* connect() is done when the service of its URL has accepted: for any number of
\* connections, of tokens they share, and of changes the application makes.
THEOREM LoginsAsMeant == CallsSpec => []LoggedInAsMeant
  <1>1. CallsInit => LoginsInv
    BY LoginsStart DEF CallsInit
  <1>2. LoginsInv /\ [CallsNext]_callsVars => LoginsInv'
    BY LoginsKept
  <1>3. LoginsInv => LoggedInAsMeant
    BY DEF LoginsInv
  <1> QED
    BY <1>1, <1>2, <1>3, PTL DEF CallsSpec
-----------------------------------------------------------------------------
(* Answers.                                                                 *)

Ways == {"sendReturn", "value", "error"}
Answer == [id : Nat, of : Nat, by : Ways]
Pledge == [id : Nat, of : Nat]
Slot == [id : Nat \ {0}, later : BOOLEAN, asked : Int, sent : BOOLEAN]

AnswersType ==
  /\ calls \in Seq(Range(calls)) /\ inbox \in Seq(Nat)
  /\ promised \subseteq Pledge /\ returns \in Seq(Answer)
  /\ running \in Slot \cup {Nothing} /\ current \in Nat

\* Both by sendReturn(), or both for what a slot returned
Alike(a, b) == a = "sendReturn" <=> b = "sendReturn"

\* A call that may still be answered in this way
Unused(id, by) == \A i \in DOMAIN returns : returns[i].of = id => ~Alike(returns[i].by, by)
Unsent(id) == Unused(id, "sendReturn")
Unwritten(id) == Unused(id, "error")
Unpromised(id) == \A p \in promised : p.of # id

\* A call is unread, under way, promised or returned from, and only one of them; a slot
\* that asked was told its own call, and sends an answer to it at most once.
Unread ==
  /\ \A i \in DOMAIN inbox : /\ inbox[i] \in 1 .. Len(calls)
                             /\ Unsent(inbox[i]) /\ Unwritten(inbox[i]) /\ Unpromised(inbox[i])
  /\ \A i, j \in DOMAIN inbox : inbox[i] = inbox[j] => i = j
Promised ==
  \A p \in promised : p.id = p.of /\ p.of \in 1 .. Len(calls) /\ Unsent(p.of)
Running ==
  running # Nothing =>
    /\ running.id \in 1 .. Len(calls) /\ current = running.id /\ running.asked \in {-1, running.id}
    /\ \A i \in DOMAIN inbox : inbox[i] # running.id
    /\ Unpromised(running.id) /\ Unwritten(running.id)
    /\ running.sent \/ Unsent(running.id)

OwnAnswers ==
  \A i \in DOMAIN returns : returns[i].id = returns[i].of /\ returns[i].of \in 1 .. Len(calls)
OneEach ==
  \A i, j \in DOMAIN returns :
    returns[j].id = returns[i].id /\ Alike(returns[j].by, returns[i].by) => i = j

AnswersInv == AnswersType /\ Unread /\ Promised /\ Running /\ OwnAnswers /\ OneEach

\* One way or the other
LEMMA Sides ==
  /\ \A a : Alike(a, a)
  /\ \A a, b : Alike(a, b) => Alike(b, a)
  /\ \A a, b, c : Alike(a, b) /\ Alike(b, c) => Alike(a, c)
  /\ \A a : a # "sendReturn" => Alike(a, "error") /\ ~Alike(a, "sendReturn")
  /\ ~Alike("sendReturn", "error")
  BY DEF Alike

\* A call that may be answered in this way is, and in the other may be as before.
LEMMA Responding ==
  ASSUME AnswersInv, NEW n \in 1 .. Len(calls), NEW by \in Ways, Unused(n, by), Respond(n, n, by)
  PROVE  /\ returns' \in Seq(Answer)
         /\ \A i \in DOMAIN returns' : returns'[i].id = returns'[i].of /\ returns'[i].of \in 1 .. Len(calls)
         /\ OneEach'
         /\ \A m, way : (m # n \/ ~Alike(by, way)) /\ Unused(m, way) => Unused(m, way)'
  <1>1. PICK r : r = [id |-> n, of |-> n, by |-> by] /\ r \in Answer /\ returns' = Append(returns, r)
    <2>1. n \in Nat
      BY DEF AnswersInv, AnswersType
    <2> QED
      BY <2>1 DEF Respond, Answer
  <1>2. /\ returns \in Seq(Answer) /\ DOMAIN returns = 1 .. Len(returns) /\ Len(returns) \in Nat
        /\ \A i \in DOMAIN returns : returns[i].id = returns[i].of /\ returns[i].of \in 1 .. Len(calls)
        /\ \A i, j \in DOMAIN returns :
             returns[j].id = returns[i].id /\ Alike(returns[j].by, returns[i].by) => i = j
    BY DEF AnswersInv, AnswersType, OwnAnswers, OneEach
  <1>3. /\ returns' \in Seq(Answer) /\ DOMAIN returns' = 1 .. Len(returns) + 1
        /\ \A i \in DOMAIN returns : returns'[i] = returns[i]
        /\ returns'[Len(returns) + 1] = r
    BY <1>1, <1>2
  <1>4. \A i \in DOMAIN returns' : i \in DOMAIN returns \/ i = Len(returns) + 1
    BY <1>2, <1>3
  <1>5. \A i \in DOMAIN returns : returns[i].id = n => ~Alike(returns[i].by, by) /\ ~Alike(by, returns[i].by)
    BY <1>2, Sides DEF Unused
  <1>6. r.id = n /\ r.of = n /\ r.by = by
    BY <1>1
  <1>7. \A i \in DOMAIN returns' : returns'[i].id = returns'[i].of /\ returns'[i].of \in 1 .. Len(calls)
    BY <1>2, <1>3, <1>4, <1>6
  <1>8. OneEach'
    BY <1>2, <1>3, <1>4, <1>5, <1>6 DEF OneEach
  <1>9. \A m, way : (m # n \/ ~Alike(by, way)) /\ Unused(m, way) => Unused(m, way)'
    BY <1>3, <1>4, <1>6 DEF Unused
  <1> QED
    BY <1>3, <1>7, <1>8, <1>9

\* A client calls: nobody knows the number of the call yet.
LEMMA CallKeeps ==
  ASSUME AnswersInv, Call
  PROVE  AnswersInv'
  <1>1. PICK m : calls' = Append(calls, m)
    BY DEF Call
  <1>2. PICK n \in Nat : n = Len(calls)
    BY DEF AnswersInv, AnswersType
  <1>3. calls' \in Seq(Range(calls')) /\ Len(calls') = n + 1
    <2>1. PICK S : S = Range(calls) \cup {m}
      OBVIOUS
    <2>2. calls \in Seq(S) /\ m \in S
      <3>1. calls \in Seq(Range(calls)) /\ Range(calls) \subseteq S
        BY <2>1 DEF AnswersInv, AnswersType
      <3> QED
        BY <2>1, <3>1, SeqMonotonic
    <2>3. calls' \in Seq(S) /\ Len(calls') = n + 1
      BY <1>1, <1>2, <2>2
    <2> QED
      BY <2>3, SeqOfRange
  <1>4. inbox' = Append(inbox, n + 1) /\ UNCHANGED <<promised, returns, running, current>>
    BY <1>3 DEF Call
  <1>5. /\ inbox \in Seq(Nat) /\ DOMAIN inbox = 1 .. Len(inbox) /\ Len(inbox) \in Nat
        /\ \A i \in DOMAIN inbox : inbox[i] \in 1 .. n
    BY <1>2 DEF AnswersInv, AnswersType, Unread
  <1>6. /\ inbox' \in Seq(Nat) /\ DOMAIN inbox' = 1 .. Len(inbox) + 1
        /\ \A i \in DOMAIN inbox : inbox'[i] = inbox[i]
        /\ inbox'[Len(inbox) + 1] = n + 1
    BY <1>4, <1>5
  <1>7. \A i \in DOMAIN inbox' : i \in DOMAIN inbox \/ i = Len(inbox) + 1
    BY <1>5, <1>6
  <1>8. \A k \in 1 .. n : k \in 1 .. Len(calls') /\ k # n + 1
    BY <1>3
  <1>9. n + 1 \in 1 .. Len(calls') /\ Unsent(n + 1) /\ Unwritten(n + 1) /\ Unpromised(n + 1)
    BY <1>2, <1>3 DEF AnswersInv, Promised, OwnAnswers, Unused, Unsent, Unwritten, Unpromised
  <1>10. AnswersType'
    BY <1>3, <1>4, <1>6 DEF AnswersInv, AnswersType, Slot, Nothing, Answer, Pledge
  <1>11. \A m1 : /\ Unsent(m1) => Unsent(m1)' 
                 /\ Unwritten(m1) => Unwritten(m1)'
                 /\ Unpromised(m1) => Unpromised(m1)'
    BY <1>4 DEF Unused, Unsent, Unwritten, Unpromised
  <1>12. Unread'
    <2>1. ASSUME NEW i \in DOMAIN inbox'
          PROVE  /\ inbox'[i] \in 1 .. Len(calls') /\ Unsent(inbox'[i]) /\ Unwritten(inbox'[i])
                 /\ Unpromised(inbox'[i])
      <3>1. CASE i \in DOMAIN inbox
        BY <1>2, <1>6, <1>8, <3>1 DEF AnswersInv, Unread
      <3>2. CASE i = Len(inbox) + 1
        BY <1>6, <1>9, <3>2
      <3> QED
        BY <1>7, <3>1, <3>2
    <2>2. \A i, j \in DOMAIN inbox' : inbox'[i] = inbox'[j] => i = j
      BY <1>5, <1>6, <1>7, <1>8 DEF AnswersInv, Unread
    <2> QED
      BY <1>11, <2>1, <2>2 DEF Unread
  <1>13. Promised'
    BY <1>2, <1>4, <1>8, <1>11 DEF AnswersInv, Promised
  <1>14. Running'
    <2> SUFFICES ASSUME running # Nothing
                 PROVE  /\ running.id \in 1 .. Len(calls')
                        /\ \A i \in DOMAIN inbox' : inbox'[i] # running.id
      BY <1>4, <1>11 DEF AnswersInv, Running
    <2>1. running.id \in 1 .. n /\ \A i \in DOMAIN inbox : inbox[i] # running.id
      BY <1>2 DEF AnswersInv, Running
    <2> QED
      BY <1>6, <1>7, <1>8, <2>1
  <1>15. OwnAnswers' /\ OneEach'
    BY <1>2, <1>4, <1>8 DEF AnswersInv, OwnAnswers, OneEach
  <1> QED
    BY <1>10, <1>12, <1>13, <1>14, <1>15 DEF AnswersInv

\* The instance reads a call; no slot is under way.
LEMMA CallFunctionKeeps ==
  ASSUME AnswersInv, CallFunction
  PROVE  AnswersInv'
  <1>1. PICK n : n = Head(inbox)
    OBVIOUS
  <1>2. /\ running = Nothing /\ inbox # <<>> /\ inbox' = Tail(inbox)
        /\ UNCHANGED <<calls, promised>>
        /\ \/ /\ \E later \in BOOLEAN :
                   running' = [id |-> n, later |-> later, asked |-> -1, sent |-> FALSE]
              /\ current' = n /\ returns' = returns
           \/ Respond(n, n, "error") /\ UNCHANGED <<running, current>>
    <2>1. \A sig : AnswersLater(sig) \in BOOLEAN
      BY DEF AnswersLater
    <2> QED
      BY <1>1, <2>1 DEF CallFunction
  <1>3. /\ inbox \in Seq(Nat) /\ DOMAIN inbox = 1 .. Len(inbox) /\ Len(inbox) \in Nat /\ 1 \in DOMAIN inbox
        /\ n = inbox[1] /\ inbox' \in Seq(Nat)
        /\ \A i \in DOMAIN inbox' : i + 1 \in DOMAIN inbox /\ i + 1 # 1 /\ inbox'[i] = inbox[i + 1]
    BY <1>1, <1>2 DEF AnswersInv, AnswersType
  <1>4. n \in 1 .. Len(calls) /\ Unsent(n) /\ Unwritten(n) /\ Unpromised(n)
    BY <1>3 DEF AnswersInv, Unread
  <1>5. /\ \A i \in DOMAIN inbox' :
             /\ inbox'[i] # n /\ inbox'[i] \in 1 .. Len(calls)
             /\ Unsent(inbox'[i]) /\ Unwritten(inbox'[i]) /\ Unpromised(inbox'[i])
        /\ \A i, j \in DOMAIN inbox' : inbox'[i] = inbox'[j] => i = j
    <2>1. /\ \A i \in DOMAIN inbox :
               /\ inbox[i] \in 1 .. Len(calls)
               /\ Unsent(inbox[i]) /\ Unwritten(inbox[i]) /\ Unpromised(inbox[i])
          /\ \A i, j \in DOMAIN inbox : inbox[i] = inbox[j] => i = j
      BY DEF AnswersInv, Unread
    <2>2. \A i \in DOMAIN inbox' : i \in Nat
      BY <1>3
    <2>3. \A i, j \in DOMAIN inbox' : i + 1 = j + 1 => i = j
      BY <2>2
    <2> QED
      BY <1>3, <2>1, <2>3
  <1>6. CASE returns' = returns /\ current' = n
             /\ \E later \in BOOLEAN :
                  running' = [id |-> n, later |-> later, asked |-> -1, sent |-> FALSE]
    <2>1. /\ running' \in Slot /\ running'.id = n /\ running'.asked = -1 /\ running'.sent = FALSE
          /\ n \in Nat /\ n # 0
      BY <1>4, <1>6 DEF Slot, AnswersInv, AnswersType
    <2>2. \A m : /\ Unsent(m) => Unsent(m)' 
                 /\ Unwritten(m) => Unwritten(m)'
                 /\ Unpromised(m) => Unpromised(m)'
      BY <1>2, <1>6 DEF Unused, Unsent, Unwritten, Unpromised
    <2>3. AnswersType'
      BY <1>2, <1>3, <1>6, <2>1 DEF AnswersInv, AnswersType, Answer
    <2>4. Unread'
      BY <1>2, <1>5, <2>2 DEF Unread
    <2>5. Promised'
      BY <1>2, <2>2 DEF AnswersInv, Promised
    <2>6. Running'
      BY <1>2, <1>4, <1>5, <1>6, <2>1, <2>2 DEF Running
    <2>7. OwnAnswers' /\ OneEach'
      BY <1>2, <1>6 DEF AnswersInv, OwnAnswers, OneEach
    <2> QED
      BY <2>3, <2>4, <2>5, <2>6, <2>7 DEF AnswersInv
  <1>7. CASE Respond(n, n, "error") /\ UNCHANGED <<running, current>>
    <2>1. /\ returns' \in Seq(Answer)
          /\ \A i \in DOMAIN returns' : returns'[i].id = returns'[i].of /\ returns'[i].of \in 1 .. Len(calls)
          /\ OneEach'
          /\ \A m : m # n => (Unsent(m) => Unsent(m)') /\ (Unwritten(m) => Unwritten(m)')
      <3>1. Unused(n, "error") /\ "error" \in Ways
        BY <1>4 DEF Unwritten, Ways
      <3>2. \A m, way : (m # n \/ ~Alike("error", way)) /\ Unused(m, way) => Unused(m, way)'
        BY <1>4, <1>7, <3>1, Responding
      <3> QED
        BY <1>4, <1>7, <3>1, <3>2, Responding DEF Unsent, Unwritten
    <2>2. AnswersType'
      BY <1>2, <1>3, <1>7, <2>1 DEF AnswersInv, AnswersType, Answer
    <2>3. \A m : Unpromised(m) => Unpromised(m)'
      BY <1>2 DEF Unpromised
    <2>4. Unread'
      BY <1>2, <1>5, <2>1, <2>3 DEF Unread
    <2>5. Promised'
      BY <1>2, <1>4, <2>1 DEF AnswersInv, Promised, Unpromised
    <2>6. Running'
      BY <1>2, <1>7 DEF Running
    <2> QED
      BY <1>2, <2>1, <2>2, <2>4, <2>5, <2>6 DEF AnswersInv, OwnAnswers
  <1> QED
    BY <1>2, <1>6, <1>7

\* A slot asks for its id: it is told that of its own call.
LEMMA CurrentFunctionIdKeeps ==
  ASSUME AnswersInv, CurrentFunctionId
  PROVE  AnswersInv'
  <1>1. /\ running # Nothing /\ running' = [running EXCEPT !.asked = current]
        /\ UNCHANGED <<calls, inbox, promised, returns, current>>
    BY DEF CurrentFunctionId, messages
  <1>2. running \in Slot /\ current = running.id /\ current \in Nat
    BY <1>1 DEF AnswersInv, AnswersType, Running
  <1>3. /\ running' \in Slot /\ running'.id = running.id /\ running'.asked = running.id
        /\ running'.sent = running.sent /\ running'.later = running.later
    BY <1>1, <1>2 DEF Slot
  <1>4. \A m : /\ Unsent(m) => Unsent(m)' 
               /\ Unwritten(m) => Unwritten(m)'
               /\ Unpromised(m) => Unpromised(m)'
    BY <1>1 DEF Unused, Unsent, Unwritten, Unpromised
  <1>5. Running'
    BY <1>1, <1>2, <1>3, <1>4 DEF AnswersInv, Running
  <1>6. Unread' /\ Promised' /\ OwnAnswers' /\ OneEach'
    BY <1>1, <1>4 DEF AnswersInv, Unread, Promised, OwnAnswers, OneEach
  <1> QED
    BY <1>1, <1>3, <1>5, <1>6 DEF AnswersInv, AnswersType

\* It answers before it returns.
LEMMA SendReturnAtOnceKeeps ==
  ASSUME AnswersInv, SendReturnAtOnce
  PROVE  AnswersInv'
  <1>1. PICK n : n = running.id
    OBVIOUS
  <1>2. /\ running # Nothing /\ ~running.sent /\ running.asked = n
        /\ n \in 1 .. Len(calls) /\ Unsent(n) /\ Unwritten(n) /\ Unpromised(n) /\ running \in Slot
        /\ \A i \in DOMAIN inbox : inbox[i] # n
    BY <1>1 DEF SendReturnAtOnce, AnswersInv, AnswersType, Running
  <1>3. /\ running' = [running EXCEPT !.sent = TRUE] /\ Respond(n, n, "sendReturn")
        /\ UNCHANGED <<calls, inbox, promised, current>>
    BY <1>1, <1>2 DEF SendReturnAtOnce
  <1>4. /\ returns' \in Seq(Answer)
        /\ \A i \in DOMAIN returns' : returns'[i].id = returns'[i].of /\ returns'[i].of \in 1 .. Len(calls)
        /\ OneEach'
        /\ \A m : m # n => (Unsent(m) => Unsent(m)') 
        /\ \A m : Unwritten(m) => Unwritten(m)'
    <2>1. Unused(n, "sendReturn") /\ "sendReturn" \in Ways
      BY <1>2 DEF Unsent, Ways
    <2>2. \A m, way : (m # n \/ ~Alike("sendReturn", way)) /\ Unused(m, way) => Unused(m, way)'
      BY <1>2, <1>3, <2>1, Responding
    <2> QED
      BY <1>2, <1>3, <2>1, <2>2, Responding, Sides DEF Unsent, Unwritten
  <1>5. /\ running' \in Slot /\ running'.id = n /\ running'.asked = running.asked
        /\ running'.sent
    BY <1>1, <1>2, <1>3 DEF Slot
  <1>6. Running'
    BY <1>1, <1>2, <1>3, <1>4, <1>5 DEF AnswersInv, Running, Unpromised
  <1>7. Unread'
    BY <1>2, <1>3, <1>4 DEF AnswersInv, Unread, Unpromised
  <1>8. Promised'
    BY <1>2, <1>3, <1>4 DEF AnswersInv, Promised, Unpromised
  <1>9. AnswersType'
    BY <1>3, <1>4, <1>5 DEF AnswersInv, AnswersType
  <1> QED
    BY <1>3, <1>4, <1>6, <1>7, <1>8, <1>9 DEF AnswersInv, OwnAnswers

\* The slot is done: what it returned is written or not, and one that asked for its
\* id and sent no answer may have one to send.
LEMMA SlotReturnsKeeps ==
  ASSUME AnswersInv, SlotReturns
  PROVE  AnswersInv'
  <1>1. PICK n : n = running.id
    OBVIOUS
  <1>2. /\ running # Nothing /\ n \in 1 .. Len(calls) /\ Unpromised(n) /\ running \in Slot
        /\ running.asked \in {-1, n} /\ n \in Nat
        /\ \A i \in DOMAIN inbox : inbox[i] # n
        /\ Unwritten(n) /\ (running.sent \/ Unsent(n))
    BY <1>1 DEF SlotReturns, AnswersInv, AnswersType, Running, Slot, Nothing
  <1>3. running' = Nothing /\ current' = 0 /\ UNCHANGED <<calls, inbox>>
    BY DEF SlotReturns
  <1>4. PICK outcome \in Outcomes :
          /\ IF ReturnWritten(outcome) THEN Respond(n, n, outcome) ELSE returns' = returns
          /\ \/ promised' = promised
             \/ running.asked # -1 /\ ~running.sent /\ promised' = promised \cup {[id |-> running.asked, of |-> n]}
    BY <1>1 DEF SlotReturns, Answered, Promise
  <1>5. /\ returns' \in Seq(Answer)
        /\ \A i \in DOMAIN returns' : returns'[i].id = returns'[i].of /\ returns'[i].of \in 1 .. Len(calls)
        /\ OneEach'
        /\ \A m : Unsent(m) => Unsent(m)'
        /\ \A m : m # n => (Unwritten(m) => Unwritten(m)')
    <2>1. CASE ReturnWritten(outcome)
      <3>1. outcome \in Ways /\ outcome # "sendReturn"
        BY <2>1 DEF Outcomes, ReturnWritten, Ways
      <3>2. Unused(n, outcome) /\ ~Alike(outcome, "sendReturn")
        BY <1>2, <3>1, Sides DEF Unwritten, Unused
      <3>3. Respond(n, n, outcome)
        BY <1>4, <2>1
      <3>4. /\ returns' \in Seq(Answer)
            /\ \A i \in DOMAIN returns' : returns'[i].id = returns'[i].of /\ returns'[i].of \in 1 .. Len(calls)
            /\ OneEach'
            /\ \A m, way : (m # n \/ ~Alike(outcome, way)) /\ Unused(m, way) => Unused(m, way)'
        BY <1>2, <3>1, <3>2, <3>3, Responding
      <3> QED
        BY <3>2, <3>4 DEF Unsent, Unwritten
    <2>2. CASE ~ReturnWritten(outcome)
      <3>1. returns' = returns
        BY <1>4, <2>2
      <3> QED
        BY <1>3, <3>1 DEF AnswersInv, AnswersType, OwnAnswers, OneEach, Unused, Unsent, Unwritten
    <2> QED
      BY <2>1, <2>2
  <1>6. \A p \in promised' :
          \/ p \in promised
          \/ p.id = n /\ p.of = n /\ p \in Pledge /\ Unsent(n)
    <2>1. CASE promised' = promised
      BY <2>1
    <2>2. CASE running.asked # -1 /\ ~running.sent /\ promised' = promised \cup {[id |-> running.asked, of |-> n]}
      <3>1. running.asked = n /\ Unsent(n)
        BY <1>2, <2>2
      <3>2. PICK q : q = [id |-> n, of |-> n] /\ promised' = promised \cup {q}
        BY <2>2, <3>1
      <3>3. q.id = n /\ q.of = n /\ q \in Pledge
        BY <1>2, <3>2 DEF Pledge
      <3> QED
        BY <3>1, <3>2, <3>3
    <2> QED
      BY <1>4, <2>1, <2>2
  <1>7. \A m : m # n /\ Unpromised(m) => Unpromised(m)'
    BY <1>6 DEF Unpromised
  <1>8. Running'
    BY <1>3 DEF Running
  <1>9. Unread'
    BY <1>2, <1>3, <1>5, <1>7 DEF AnswersInv, Unread
  <1>10. Promised'
    BY <1>2, <1>3, <1>5, <1>6 DEF AnswersInv, Promised
  <1>11. AnswersType'
    BY <1>3, <1>5, <1>6 DEF AnswersInv, AnswersType
  <1> QED
    BY <1>3, <1>5, <1>8, <1>9, <1>10, <1>11 DEF AnswersInv, OwnAnswers

\* What was promised is sent, or dropped because the instance is gone.
LEMMA SendReturnKeeps ==
  ASSUME AnswersInv, SendReturn
  PROVE  AnswersInv'
  <1>1. PICK p \in promised :
          /\ promised' = promised \ {p}
          /\ Respond(p.id, p.of, "sendReturn") \/ returns' = returns
          /\ UNCHANGED <<calls, inbox, running, current>>
    BY DEF SendReturn
  <1>2. PICK n : n = p.of
    OBVIOUS
  <1>3. /\ p.id = n /\ n \in 1 .. Len(calls) /\ Unsent(n) /\ p = [id |-> n, of |-> n]
        /\ \A i \in DOMAIN inbox : inbox[i] # n
        /\ running # Nothing => running.id # n
    BY <1>1, <1>2 DEF AnswersInv, AnswersType, Pledge, Promised, Unread, Running, Unpromised
  <1>4. \A q \in promised' : q \in promised /\ q.of # n
    BY <1>1, <1>3 DEF AnswersInv, AnswersType, Pledge, Promised
  <1>5. /\ returns' \in Seq(Answer)
        /\ \A i \in DOMAIN returns' : returns'[i].id = returns'[i].of /\ returns'[i].of \in 1 .. Len(calls)
        /\ OneEach'
        /\ \A m : m # n => (Unsent(m) => Unsent(m)')
        /\ \A m : Unwritten(m) => Unwritten(m)'
    <2>1. CASE Respond(n, n, "sendReturn")
      <3>1. Unused(n, "sendReturn") /\ "sendReturn" \in Ways
        BY <1>3 DEF Unsent, Ways
      <3>2. \A m, way : (m # n \/ ~Alike("sendReturn", way)) /\ Unused(m, way) => Unused(m, way)'
        BY <1>3, <2>1, <3>1, Responding
      <3> QED
        BY <1>3, <2>1, <3>1, <3>2, Responding, Sides DEF Unsent, Unwritten
    <2>2. CASE returns' = returns
      BY <2>2 DEF AnswersInv, AnswersType, OwnAnswers, OneEach, Unused, Unsent, Unwritten
    <2> QED
      BY <1>1, <1>2, <1>3, <2>1, <2>2
  <1>6. \A m : Unpromised(m) => Unpromised(m)'
    BY <1>4 DEF Unpromised
  <1>7. Unread'
    BY <1>1, <1>3, <1>5, <1>6 DEF AnswersInv, Unread
  <1>8. Promised'
    BY <1>1, <1>4, <1>5 DEF AnswersInv, Promised
  <1>9. Running'
    BY <1>1, <1>3, <1>5, <1>6 DEF AnswersInv, Running
  <1>10. AnswersType'
    BY <1>1, <1>4, <1>5 DEF AnswersInv, AnswersType
  <1> QED
    BY <1>1, <1>5, <1>7, <1>8, <1>9, <1>10 DEF AnswersInv, OwnAnswers

\* The other steps leave calls and answers as they are.
LEMMA AnswersStand ==
  ASSUME AnswersInv, UNCHANGED <<calls, inbox, promised, returns, running, current>>
  PROVE  AnswersInv'
  BY DEF AnswersInv, AnswersType, Unread, Promised, Running, Unused, Unsent, Unwritten, Unpromised,
         OwnAnswers, OneEach

LEMMA AnswersStart ==
  ASSUME Init
  PROVE  AnswersInv
  <1>1. AnswersType
    BY DEF Init, AnswersType
  <1>2. Unread /\ Promised /\ Running /\ OwnAnswers /\ OneEach
    BY DEF Init, Unread, Promised, Running, OwnAnswers, OneEach
  <1> QED
    BY <1>1, <1>2 DEF AnswersInv

LEMMA AnswersKept ==
  ASSUME AnswersInv, [CallsNext]_callsVars
  PROVE  AnswersInv'
  <1>1. CASE Next
    <2>1. CASE ReturnedAgain \/ Emit \/ Destroy
      <3>1. UNCHANGED <<calls, inbox, promised, returns, running, current>>
        BY <2>1 DEF ReturnedAgain, Emit, Destroy, messages
      <3> QED
        BY <3>1, AnswersStand
    <2> QED
      BY <1>1, <2>1, CallKeeps, CallFunctionKeeps, CurrentFunctionIdKeeps, SendReturnAtOnceKeeps,
         SlotReturnsKeeps, SendReturnKeeps DEF Next
  <1>2. CASE UNCHANGED vars
    BY <1>2, AnswersStand DEF vars, messages
  <1> QED
    BY <1>1, <1>2 DEF CallsNext, DispatchStep, FramingStep, TableStep, ValuesStep, AuthStep,
       callsVars

\* A value is written for a call only if its slot is none that answers later: what
\* the service's slots are does not change when the service is initialised again.
SlotTable == [i \in Chosen(server, "slot", {"ReturnValue"}) |-> Parse(server[i].text)]
Late(id) == AnswersLater(calls[id].sig)
SlotOfKind == running # Nothing => (running.later <=> Late(running.id))
ReturnsOfKind == \A i \in DOMAIN returns : returns[i].by = "value" => ~Late(returns[i].of)
KindsInv == service.callbacks = SlotTable /\ SlotOfKind /\ ReturnsOfKind

LEMMA SlotsListed ==
  ASSUME NEW old
  PROVE  ServerTables(old, server).callbacks = SlotTable
  BY DEF ServerTables, Tables, SlotTable

\* A return that is written to a call of its own is of the kind of its slot.
LEMMA KindWritten ==
  ASSUME AnswersInv, KindsInv, NEW n \in 1 .. Len(calls), NEW by, Respond(n, n, by),
         by = "value" => ~Late(n),
         \A k \in 1 .. Len(calls) : Late(k)' <=> Late(k)
  PROVE  ReturnsOfKind'
  <1>1. PICK r : r = [id |-> n, of |-> n, by |-> by] /\ returns' = Append(returns, r)
    BY DEF Respond
  <1>2. PICK S : S = Answer \cup {r}
    OBVIOUS
  <1>3. returns \in Seq(S) /\ r \in S
    <2>1. returns \in Seq(Answer) /\ Answer \subseteq S
      BY <1>2 DEF AnswersInv, AnswersType
    <2> QED
      BY <1>2, <2>1, SeqMonotonic
  <1>4. /\ DOMAIN returns = 1 .. Len(returns) /\ DOMAIN returns' = 1 .. Len(returns) + 1
        /\ Len(returns) \in Nat
        /\ \A i \in DOMAIN returns : returns'[i] = returns[i]
        /\ returns'[Len(returns) + 1] = r
    BY <1>1, <1>3
  <1>5. r.of = n /\ r.by = by
    BY <1>1
  <1>6. \A i \in DOMAIN returns' : i \in DOMAIN returns \/ i = Len(returns) + 1
    BY <1>4
  <1>7. \A i \in DOMAIN returns : returns[i].of \in 1 .. Len(calls)
    BY DEF AnswersInv, OwnAnswers
  <1> QED
    BY <1>4, <1>5, <1>6, <1>7 DEF KindsInv, ReturnsOfKind

LEMMA KindsStart ==
  ASSUME Init
  PROVE  KindsInv
  <1>1. service.callbacks = SlotTable
    BY SlotsListed DEF Init, RequestService
  <1>2. running = Nothing /\ DOMAIN returns = {}
    BY DEF Init
  <1> QED
    BY <1>1, <1>2 DEF KindsInv, SlotOfKind, ReturnsOfKind

LEMMA KindsKept ==
  ASSUME AnswersInv, KindsInv, [CallsNext]_callsVars
  PROVE  KindsInv'
  <1>1. CASE Next
    <2>1. server' = server /\ service'.callbacks = service.callbacks
      <3>1. server' = server /\ (service' = service \/ \E old : service' = ServerTables(old, server))
        BY <1>1 DEF Next, Call, CallFunction, CurrentFunctionId, SendReturnAtOnce, SlotReturns,
           SendReturn, ReturnedAgain, Emit, Destroy, classes
      <3> QED
        BY <3>1, SlotsListed DEF KindsInv
    <2>2. service'.callbacks = SlotTable'
      BY <2>1 DEF KindsInv, SlotTable
    <2>3. \A k \in 1 .. Len(calls) : calls'[k] = calls[k]
      <3>1. CASE Call
        <4>1. PICK m : calls' = Append(calls, m)
          BY <3>1 DEF Call
        <4>2. PICK S : S = Range(calls) \cup {m}
          OBVIOUS
        <4>3. calls \in Seq(S) /\ m \in S
          <5>1. calls \in Seq(Range(calls)) /\ Range(calls) \subseteq S
            BY <4>2 DEF AnswersInv, AnswersType
          <5> QED
            BY <4>2, <5>1, SeqMonotonic
        <4> QED
          BY <4>1, <4>3
      <3>2. CASE calls' = calls
        BY <3>2
      <3> QED
        BY <1>1, <3>1, <3>2 DEF Next, CallFunction, CurrentFunctionId, SendReturnAtOnce, SlotReturns,
           SendReturn, ReturnedAgain, Emit, Destroy, messages
    <2>4. \A k \in 1 .. Len(calls) : Late(k)' <=> Late(k)
      BY <2>1, <2>3 DEF Late, AnswersLater
    <2>5. /\ \A i \in DOMAIN returns : returns[i].of \in 1 .. Len(calls)
          /\ running # Nothing => running.id \in 1 .. Len(calls)
      BY DEF AnswersInv, OwnAnswers, Running
    <2>6. SlotOfKind'
      <3>1. CASE running' = running \/ running' = Nothing
        BY <2>4, <2>5, <3>1 DEF KindsInv, SlotOfKind
      <3>2. CASE CallFunction /\ running' # running
        <4>1. PICK n : n = Head(inbox)
          OBVIOUS
        <4>2. /\ running' = [id |-> n, later |-> Late(n), asked |-> -1, sent |-> FALSE]
              /\ inbox # <<>>
          BY <3>2, <4>1 DEF CallFunction, Late
        <4>3. n \in 1 .. Len(calls)
          BY <4>1, <4>2 DEF AnswersInv, AnswersType, Unread
        <4>4. running'.id = n /\ running'.later = Late(n)
          BY <4>2
        <4> QED
          BY <2>4, <4>3, <4>4 DEF SlotOfKind
      <3>3. CASE CurrentFunctionId \/ SendReturnAtOnce
        <4>1. running # Nothing /\ running \in Slot
          BY <3>3 DEF CurrentFunctionId, SendReturnAtOnce, AnswersInv, AnswersType
        <4>2. running'.id = running.id /\ running'.later = running.later
          BY <3>3, <4>1 DEF CurrentFunctionId, SendReturnAtOnce, Slot
        <4> QED
          BY <2>4, <2>5, <4>1, <4>2 DEF KindsInv, SlotOfKind
      <3> QED
        BY <1>1, <3>1, <3>2, <3>3 DEF Next, Call, CallFunction, SlotReturns, SendReturn, ReturnedAgain,
           Emit, Destroy
    <2>7. ReturnsOfKind'
      <3>1. CASE returns' = returns
        BY <2>4, <2>5, <3>1 DEF KindsInv, ReturnsOfKind
      <3>2. ASSUME NEW n \in 1 .. Len(calls), NEW by, Respond(n, n, by), by = "value" => ~Late(n)
            PROVE  ReturnsOfKind'
        BY <2>4, <3>2, KindWritten
      <3>3. CASE CallFunction /\ returns' # returns
        <4>1. Respond(Head(inbox), Head(inbox), "error") /\ inbox # <<>>
          BY <3>3 DEF CallFunction
        <4>2. Head(inbox) \in 1 .. Len(calls)
          BY <4>1 DEF AnswersInv, AnswersType, Unread
        <4> QED
          BY <3>2, <4>1, <4>2
      <3>4. CASE SendReturnAtOnce
        <4>1. running.asked = running.id /\ running.id \in 1 .. Len(calls)
          BY <3>4 DEF SendReturnAtOnce, AnswersInv, Running
        <4> QED
          BY <3>2, <3>4, <4>1 DEF SendReturnAtOnce
      <3>5. CASE SlotReturns /\ returns' # returns
        <4>1. running.id \in 1 .. Len(calls) /\ (running.later <=> Late(running.id))
          BY <3>5 DEF SlotReturns, AnswersInv, Running, KindsInv, SlotOfKind
        <4>2. PICK outcome : ReturnWritten(outcome) /\ Respond(running.id, running.id, outcome)
          BY <3>5 DEF SlotReturns, Answered
        <4>3. outcome = "value" => ~Late(running.id)
          BY <4>1, <4>2 DEF ReturnWritten
        <4> QED
          BY <3>2, <4>1, <4>2, <4>3
      <3>6. CASE SendReturn /\ returns' # returns
        <4>1. PICK p \in promised : Respond(p.id, p.of, "sendReturn")
          BY <3>6 DEF SendReturn
        <4>2. p.id = p.of /\ p.of \in 1 .. Len(calls)
          BY DEF AnswersInv, Promised
        <4> QED
          BY <3>2, <4>1, <4>2
      <3> QED
        BY <1>1, <3>1, <3>3, <3>4, <3>5, <3>6 DEF Next, Call, CurrentFunctionId, ReturnedAgain, Emit,
           Destroy, messages
    <2> QED
      BY <2>2, <2>6, <2>7 DEF KindsInv
  <1>2. CASE UNCHANGED vars
    BY <1>2 DEF KindsInv, SlotOfKind, ReturnsOfKind, vars, messages, classes, SlotTable, Late, AnswersLater
  <1> QED
    BY <1>1, <1>2 DEF CallsNext, DispatchStep, FramingStep, TableStep, ValuesStep, AuthStep,
       callsVars

\* An answer to a client is to the call whose slot it is from: a slot that asks for
\* its id is told its own.  A call is answered once by sendReturn() at most, and once
\* for what its slot returned, which is never the value of a slot that answers later:
\* whatever calls run in between, for any classes and any number of calls.
THEOREM AnsweredAtMostOnce == CallsSpec => []AnsweredOnce
  <1>1. CallsInit => AnswersInv /\ KindsInv
    BY AnswersStart, KindsStart DEF CallsInit
  <1>2. AnswersInv /\ KindsInv /\ [CallsNext]_callsVars => (AnswersInv /\ KindsInv)'
    BY AnswersKept, KindsKept
  <1>3. AnswersInv /\ KindsInv => AnsweredOnce
    BY DEF AnswersInv, KindsInv, ReturnsOfKind, OwnAnswers, OneEach, Alike, Late, AnsweredOnce
  <1> QED
    BY <1>1, <1>2, <1>3, PTL DEF CallsSpec
-----------------------------------------------------------------------------
(* The objects of a server.                                                 *)

Life == [life : {"none", "held", "later", "loose", "deleted"},
         instance : Connections \cup {NoInstance}, data : SUBSET Keys, gone : {"later", "deleted"}]
LateCall == [of : Objects, by : Connections, own : BOOLEAN]

TableType ==
  /\ \A n \in DOMAIN factories : factories[n] \subseteq Keys
  /\ live \subseteq Connections
  /\ DOMAIN services = Connections
  /\ curServiceId \in [Connections -> Nat]
  /\ object \in [Objects -> Life] /\ late \subseteq LateCall
  /\ DOMAIN told = Connections /\ DOMAIN selected = Objects

\* The table of c gives each of its objects one number of those it gave out.
Numbering(c) ==
  /\ \A id \in DOMAIN services[c] : id \in 1 .. curServiceId[c] /\ services[c][id] \in Objects
  /\ c \notin live => DOMAIN services[c] = {}
  /\ \A i, j \in DOMAIN services[c] : services[c][i] = services[c][j] => i = j

\* What ServicesKept says of one object
ObjectKept(o) ==
  /\ object[o].life = "held" <=> Holders(o) # {}
  /\ object[o].instance # NoInstance => object[o].instance \in Holders(o)
  /\ \A c \in Holders(o) :
       /\ o \notin passed => object[o].instance = c
       /\ object[o].instance = c => <<ServiceId(c, o), o>> \in told[c] \/ o \in refused
  /\ object[o].life = "held" => selected[o] \subseteq object[o].data

\* Who is to be answered later is held by the caller as long as that lives; if it
\* was another's when it was called, it is shared.
LateKept ==
  \A call \in late :
    /\ call.by \in live => call.by \in Holders(call.of)
    /\ ~call.own => call.of \in passed

TablesInv ==
  /\ TableType
  /\ \A c \in Connections : Numbering(c)
  /\ \A o \in Objects : ObjectKept(o)
  /\ LateKept /\ astray \subseteq passed

LEMMA TablesKept ==
  ASSUME TablesInv
  PROVE  ServicesKept
  BY DEF TablesInv, TableType, ObjectKept, Numbering, ServicesKept
\* The number of an object is the one its table has.
LEMMA NumberOf ==
  ASSUME NEW c, Numbering(c), NEW id \in DOMAIN services[c]
  PROVE  ServiceId(c, services[c][id]) = id
  BY DEF Numbering, ServiceId

\* c gives o, which has no number there, the next one.
Gives(c, o, n) ==
  /\ c \in live /\ c \notin Holders(o) /\ n = curServiceId[c] + 1
  /\ services' = [services EXCEPT ![c] = With(@, n, o)]
  /\ curServiceId' = [curServiceId EXCEPT ![c] = @ + 1]
  /\ UNCHANGED live

\* An object gets a number of c that it has not had there: the others keep theirs.
LEMMA Giving ==
  ASSUME TablesInv, NEW c, NEW o \in Objects, NEW n, Gives(c, o, n)
  PROVE  /\ DOMAIN services' = Connections /\ curServiceId' \in [Connections -> Nat]
         /\ \A d \in Connections : Numbering(d)'
         /\ \A d \in live, q \in Objects : d \in Holders(q)' <=> d \in Holders(q) \/ (d = c /\ q = o)
         /\ \A q \in Objects : \A d \in Holders(q) : ServiceId(d, q)' = ServiceId(d, q)
         /\ ServiceId(c, o)' = n
  <1> USE DEF Gives
  <1>1. /\ c \in Connections /\ curServiceId[c] \in Nat /\ n \in Nat /\ DOMAIN services = Connections
        /\ \A d \in Connections : Numbering(d)
    BY DEF TablesInv, TableType
  <1>2. PICK f : f = services'[c]
    OBVIOUS
  <1>3. /\ DOMAIN f = DOMAIN services[c] \cup {n} /\ f[n] = o /\ n \notin DOMAIN services[c]
        /\ \A id \in DOMAIN services[c] : f[id] = services[c][id] /\ services[c][id] # o
    <2>1. f = With(services[c], n, o)
      BY <1>1, <1>2
    <2>2. \A id \in DOMAIN services[c] : id \in 1 .. curServiceId[c] /\ services[c][id] # o
      BY <1>1 DEF Numbering, Holders
    <2>3. n \notin DOMAIN services[c]
      BY <1>1, <2>2
    <2> QED
      BY <2>1, <2>2, <2>3 DEF With
  <1>4. /\ DOMAIN services' = Connections
        /\ \A d \in Connections : d # c => services'[d] = services[d]
        /\ curServiceId' \in [Connections -> Nat] /\ curServiceId'[c] = n
        /\ \A d \in Connections : d # c => curServiceId'[d] = curServiceId[d]
    <2>1. /\ DOMAIN services' = Connections
          /\ \A d \in Connections : d # c => services'[d] = services[d]
      BY <1>1
    <2>2. curServiceId \in [Connections -> Nat]
      BY DEF TablesInv, TableType
    <2>3. curServiceId' = [curServiceId EXCEPT ![c] = n]
      OBVIOUS
    <2> QED
      BY <1>1, <2>1, <2>2, <2>3
  <1>5. ASSUME NEW d \in Connections PROVE Numbering(d)'
    <2>1. CASE d # c
      BY <1>1, <1>4, <2>1 DEF Numbering
    <2>2. CASE d = c
      <3>1. /\ \A id \in DOMAIN services[c] : id \in 1 .. curServiceId[c] /\ services[c][id] \in Objects
            /\ \A i, j \in DOMAIN services[c] : services[c][i] = services[c][j] => i = j
        BY <1>1 DEF Numbering
      <3>2. \A id \in DOMAIN f : id \in 1 .. n /\ f[id] \in Objects
        BY <1>1, <1>3, <3>1
      <3>3. \A i, j \in DOMAIN f : f[i] = f[j] => i = j
        BY <1>3, <3>1
      <3> QED
        BY <1>2, <1>4, <2>2, <3>2, <3>3 DEF Numbering
    <2> QED
      BY <2>1, <2>2
  <1>6. \A d \in live, q \in Objects : d \in Holders(q)' <=> d \in Holders(q) \/ (d = c /\ q = o)
    <2> SUFFICES ASSUME NEW d \in live, NEW q \in Objects
                 PROVE  d \in Holders(q)' <=> d \in Holders(q) \/ (d = c /\ q = o)
      OBVIOUS
    <2>1. CASE d # c
      BY <1>4, <2>1 DEF Holders, TablesInv, TableType
    <2>2. CASE d = c
      BY <1>2, <1>3, <2>2 DEF Holders
    <2> QED
      BY <2>1, <2>2
  <1>7. ASSUME NEW q \in Objects, NEW d \in Holders(q)
        PROVE  ServiceId(d, q)' = ServiceId(d, q)
    <2>1. PICK id \in DOMAIN services[d] : services[d][id] = q /\ d \in Connections
      BY DEF Holders, TablesInv, TableType
    <2>2. id \in DOMAIN services'[d] /\ services'[d][id] = q
      BY <1>2, <1>3, <1>4, <2>1
    <2>3. ServiceId(d, q) = id
      BY <1>1, <2>1, NumberOf
    <2>4. ServiceId(d, q)' = id
      BY <1>5, <2>1, <2>2 DEF Numbering, ServiceId
    <2> QED
      BY <2>3, <2>4
  <1>8. ServiceId(c, o)' = n
    BY <1>1, <1>2, <1>3, <1>5 DEF Numbering, ServiceId
  <1> QED
    BY <1>4, <1>5, <1>6, <1>7, <1>8

\* A client selects a service: a new object, held by its connection alone.
LEMMA RequestKeeps ==
  ASSUME TablesInv, NEW c \in Connections, NEW s, NEW o \in Objects, Request(c, s, o),
         UNCHANGED <<factories, live, late, passed, astray>>,
         DOMAIN told' = Connections, \A d \in Connections : told[d] \subseteq told'[d],
         refused \subseteq refused', <<curServiceId[c] + 1, o>> \in told'[c] \/ o \in refused'
  PROVE  TablesInv'
  <1>1. PICK n : n = curServiceId[c] + 1
    OBVIOUS
  <1>2. c \in live /\ object[o].life = "none" /\ factories[s] \subseteq Keys
        /\ object' = [object EXCEPT ![o] = NewInstance(c, s)]
        /\ selected' = [selected EXCEPT ![o] = factories[s]]
        /\ curServiceId' = [curServiceId EXCEPT ![c] = @ + 1]
        /\ services' = [services EXCEPT ![c] = With(@, n, o)]
    BY <1>1 DEF Request, TablesInv, TableType
  <1>3. Holders(o) = {}
    BY <1>2 DEF TablesInv, ObjectKept
  <1>4. /\ DOMAIN services' = Connections /\ curServiceId' \in [Connections -> Nat]
        /\ \A d \in Connections : Numbering(d)'
        /\ \A d \in live, q \in Objects : d \in Holders(q)' <=> d \in Holders(q) \/ (d = c /\ q = o)
        /\ \A q \in Objects : \A d \in Holders(q) : ServiceId(d, q)' = ServiceId(d, q)
        /\ ServiceId(c, o)' = n
    <2>1. Gives(c, o, n)
      BY <1>1, <1>2, <1>3 DEF Gives
    <2> QED
      BY <2>1, Giving
  <1>5. \A q \in Objects : Holders(q) \subseteq live /\ Holders(q)' \subseteq live
    BY DEF Holders
  <1>6. object' \in [Objects -> Life] /\ DOMAIN selected' = Objects
    BY <1>2 DEF TablesInv, TableType, NewInstance, Life
  <1>7. TableType'
    BY <1>4, <1>6 DEF TablesInv, TableType
  <1>8. ASSUME NEW q \in Objects PROVE ObjectKept(q)'
    <2>1. CASE q = o
      <3>1. /\ object'[q] = NewInstance(c, s) /\ selected'[q] = factories[s]
        BY <1>2, <2>1 DEF TablesInv, TableType
      <3>2. Holders(q)' = {c}
        BY <1>2, <1>3, <1>4, <1>5, <2>1
      <3> QED
        BY <1>1, <1>4, <2>1, <3>1, <3>2 DEF ObjectKept, NewInstance
    <2>2. CASE q # o
      <3>1. object'[q] = object[q] /\ selected'[q] = selected[q]
        BY <1>2, <2>2 DEF TablesInv, TableType
      <3>2. Holders(q)' = Holders(q)
        BY <1>4, <1>5, <2>2
      <3>3. \A d \in Holders(q) : told[d] \subseteq told'[d] /\ ServiceId(d, q)' = ServiceId(d, q)
        BY <1>4, <1>5 DEF TablesInv, TableType
      <3> QED
        BY <3>1, <3>2, <3>3 DEF TablesInv, ObjectKept
    <2> QED
      BY <2>1, <2>2
  <1>9. LateKept'
    BY <1>4 DEF TablesInv, TableType, LateCall, LateKept
  <1> QED
    BY <1>4, <1>7, <1>8, <1>9 DEF TablesInv

\* A function of a service on c returns an object, whosever it was.
LEMMA ParseReturnKeeps ==
  ASSUME TablesInv, NEW c \in live, NEW o \in Objects, ParseReturn(c, o),
         UNCHANGED <<factories, live, late, refused, astray>>
  PROVE  TablesInv'
  <1>1. /\ object' = [object EXCEPT ![o] = [@ EXCEPT !.life = "held", !.instance = c, !.data = {}]]
        /\ passed' = IF Holders(o) \subseteq {c} THEN passed ELSE passed \cup {o}
        /\ selected' = [selected EXCEPT ![o] = {}] /\ Numbered(c, o)
    BY DEF ParseReturn
  <1>2. /\ c \in Connections /\ DOMAIN services = Connections /\ DOMAIN told = Connections
        /\ \A q \in Objects : Holders(q) \subseteq live /\ Holders(q)' \subseteq live
        /\ Numbering(c) /\ \A d \in Connections : Numbering(d)
    BY DEF TablesInv, TableType, Holders
  <1>3. /\ DOMAIN services' = Connections /\ curServiceId' \in [Connections -> Nat]
        /\ \A d \in Connections : Numbering(d)'
        /\ \A d \in live, q \in Objects : d \in Holders(q)' <=> d \in Holders(q) \/ (d = c /\ q = o)
        /\ \A q \in Objects : \A d \in Holders(q) : ServiceId(d, q)' = ServiceId(d, q)
        /\ DOMAIN told' = Connections /\ \A d \in Connections : told[d] \subseteq told'[d]
        /\ <<ServiceId(c, o)', o>> \in told'[c]
    <2>1. CASE ServiceId(c, o) # 0
      <3>1. c \in Holders(o)
        BY <2>1 DEF ServiceId, Holders
      <3>2. /\ UNCHANGED <<services, curServiceId>>
            /\ told' = [told EXCEPT ![c] = @ \cup {<<ServiceId(c, o), o>>}]
        BY <1>1, <2>1 DEF Numbered
      <3>3. \A q \in Objects : Holders(q)' = Holders(q) /\ \A d : ServiceId(d, q)' = ServiceId(d, q)
        BY <3>2 DEF Holders, ServiceId
      <3>4. \A d \in Connections : Numbering(d)'
        BY <1>2, <3>2 DEF Numbering
      <3> QED
        BY <1>2, <3>1, <3>2, <3>3, <3>4 DEF TablesInv, TableType
    <2>2. CASE ServiceId(c, o) = 0
      <3>1. PICK n : n = curServiceId[c] + 1
        OBVIOUS
      <3>2. /\ services' = [services EXCEPT ![c] = With(@, n, o)]
            /\ curServiceId' = [curServiceId EXCEPT ![c] = @ + 1]
            /\ told' = [told EXCEPT ![c] = @ \cup {<<n, o>>}]
        BY <1>1, <2>2, <3>1 DEF Numbered
      <3>3. c \notin Holders(o)
        BY <1>2, <2>2 DEF ServiceId, Holders, Numbering
      <3>4. /\ DOMAIN services' = Connections /\ curServiceId' \in [Connections -> Nat]
            /\ \A d \in Connections : Numbering(d)'
            /\ \A d \in live, q \in Objects : d \in Holders(q)' <=> d \in Holders(q) \/ (d = c /\ q = o)
            /\ \A q \in Objects : \A d \in Holders(q) : ServiceId(d, q)' = ServiceId(d, q)
            /\ ServiceId(c, o)' = n
        <4>1. Gives(c, o, n)
          BY <3>1, <3>2, <3>3 DEF Gives
        <4> QED
          BY <4>1, Giving
      <3> QED
        BY <1>2, <3>2, <3>4
    <2> QED
      BY <2>1, <2>2
  <1>4. object' \in [Objects -> Life] /\ DOMAIN selected' = Objects
    <2>1. object \in [Objects -> Life] /\ object[o] \in Life /\ DOMAIN selected = Objects
      BY DEF TablesInv, TableType
    <2>2. [object[o] EXCEPT !.life = "held", !.instance = c, !.data = {}] \in Life
      BY <1>2, <2>1 DEF Life
    <2> QED
      BY <1>1, <2>1, <2>2
  <1>5. TableType'
    BY <1>3, <1>4 DEF TablesInv, TableType
  <1>6. ASSUME NEW q \in Objects PROVE ObjectKept(q)'
    <2>1. CASE q = o
      <3>1. object'[q].life = "held" /\ object'[q].instance = c /\ selected'[q] = {}
        BY <1>1, <2>1 DEF TablesInv, TableType, Life
      <3>2. c \in Holders(q)' /\ \A d \in Holders(q)' : d = c \/ d \in Holders(q)
        BY <1>2, <1>3, <2>1
      <3>3. q \notin passed' => \A d \in Holders(q)' : d = c
        BY <1>1, <2>1, <3>2
      <3> QED
        BY <1>3, <2>1, <3>1, <3>2, <3>3 DEF ObjectKept
    <2>2. CASE q # o
      <3>1. object'[q] = object[q] /\ selected'[q] = selected[q] /\ (q \in passed <=> q \in passed')
        BY <1>1, <2>2 DEF TablesInv, TableType
      <3>2. Holders(q)' = Holders(q)
        BY <1>2, <1>3, <2>2
      <3>3. \A d \in Holders(q) : told[d] \subseteq told'[d] /\ ServiceId(d, q)' = ServiceId(d, q)
        BY <1>2, <1>3 DEF TablesInv, TableType
      <3> QED
        BY <3>1, <3>2, <3>3 DEF TablesInv, ObjectKept
    <2> QED
      BY <2>1, <2>2
  <1>7. LateKept' /\ astray' \subseteq passed'
    BY <1>1, <1>3 DEF TablesInv, TableType, LateCall, LateKept
  <1> QED
    BY <1>3, <1>5, <1>6, <1>7 DEF TablesInv
\* What is registered, and who is authenticated, is not what the invariant is about.
LEMMA AroundTables ==
  ASSUME TablesInv, \A n \in DOMAIN factories' : factories'[n] \subseteq Keys,
         UNCHANGED <<live, services, curServiceId, object, late, historyVars>>
  PROVE  TablesInv'
  <1>1. /\ UNCHANGED <<live, services, curServiceId, object, late>>
        /\ UNCHANGED <<told, refused, passed, selected, astray>>
    BY DEF historyVars
  <1>2. \A q \in Objects : Holders(q)' = Holders(q)
    BY <1>1 DEF Holders
  <1>3. \A q \in Objects, d \in Connections : ServiceId(d, q)' = ServiceId(d, q)
    BY <1>1 DEF ServiceId
  <1>4. TableType'
    BY <1>1 DEF TablesInv, TableType
  <1>5. \A d \in Connections : Numbering(d)'
    BY <1>1 DEF TablesInv, Numbering
  <1>6. ASSUME NEW q \in Objects PROVE ObjectKept(q)'
    <2>1. ObjectKept(q) /\ Holders(q) \subseteq Connections /\ Holders(q)' = Holders(q)
      BY <1>2 DEF TablesInv, TableType, Holders
    <2> QED
      BY <1>1, <1>3, <2>1 DEF ObjectKept
  <1>7. LateKept' /\ astray' \subseteq passed'
    BY <1>1, <1>2 DEF TablesInv, TableType, LateCall, LateKept
  <1> QED
    BY <1>4, <1>5, <1>6, <1>7 DEF TablesInv

LEMMA RegisterServiceKeeps ==
  ASSUME TablesInv, NEW s, RegisterService(s)
  PROVE  TablesInv'
  <1>1. \A n \in DOMAIN factories' : factories'[n] \subseteq Keys
    BY DEF RegisterService, With, TablesInv, TableType
  <1>2. UNCHANGED <<live, services, curServiceId, object, late, historyVars>>
    BY DEF RegisterService, instanceVars
  <1> QED
    BY <1>1, <1>2, AroundTables

LEMMA SetDataKeeps ==
  ASSUME TablesInv, NEW s, NEW key \in Keys, SetData(s, key)
  PROVE  TablesInv'
  <1>1. \A n \in DOMAIN factories' : factories'[n] \subseteq Keys
    BY DEF SetData, TablesInv, TableType
  <1>2. UNCHANGED <<live, services, curServiceId, object, late, historyVars>>
    BY DEF SetData, instanceVars
  <1> QED
    BY <1>1, <1>2, AroundTables

LEMMA ExecKeeps ==
  ASSUME TablesInv, Exec
  PROVE  TablesInv'
  <1>1. \A n \in DOMAIN factories' : factories'[n] \subseteq Keys
    BY DEF Exec, TablesInv, TableType
  <1>2. UNCHANGED <<live, services, curServiceId, object, late, historyVars>>
    BY DEF Exec, instanceVars
  <1> QED
    BY <1>1, <1>2, AroundTables

LEMMA AuthenticateKeeps ==
  ASSUME TablesInv, NEW c, NEW id, Authenticate(c, id)
  PROVE  TablesInv'
  <1>1. \A n \in DOMAIN factories' : factories'[n] \subseteq Keys
    BY DEF Authenticate, TablesInv, TableType
  <1>2. UNCHANGED <<live, services, curServiceId, object, late, historyVars>>
    BY DEF Authenticate
  <1> QED
    BY <1>1, <1>2, AroundTables

LEMMA GetServiceObjectKeeps ==
  ASSUME TablesInv, NEW c \in Connections, NEW s, NEW o \in Objects, GetServiceObject(c, s, o)
  PROVE  TablesInv'
  <1>1. Request(c, s, o) /\ UNCHANGED <<factories, live, late, passed, astray>>
    BY DEF GetServiceObject
  <1>2. DOMAIN told = Connections
    BY DEF TablesInv, TableType
  <1>3. /\ DOMAIN told' = Connections /\ \A d \in Connections : told[d] \subseteq told'[d]
        /\ refused \subseteq refused' /\ <<curServiceId[c] + 1, o>> \in told'[c]
    BY <1>2 DEF GetServiceObject
  <1> QED
    BY <1>1, <1>3, RequestKeeps

LEMMA GetServiceObjectAuthKeeps ==
  ASSUME TablesInv, NEW c \in Connections, NEW s, NEW o \in Objects, GetServiceObjectAuth(c, s, o)
  PROVE  TablesInv'
  <1>1. Request(c, s, o) /\ UNCHANGED <<factories, live, late, passed, astray>>
    BY DEF GetServiceObjectAuth
  <1>2. DOMAIN told = Connections
    BY DEF TablesInv, TableType
  <1>3. /\ DOMAIN told' = Connections /\ \A d \in Connections : told[d] \subseteq told'[d]
        /\ refused \subseteq refused'
        /\ <<curServiceId[c] + 1, o>> \in told'[c] \/ o \in refused'
    BY <1>2 DEF GetServiceObjectAuth
  <1> QED
    BY <1>1, <1>3, RequestKeeps

LEMMA CallReturnsServiceKeeps ==
  ASSUME TablesInv, NEW c \in Connections, NEW id, NEW o \in Objects, CallReturnsService(c, id, o)
  PROVE  TablesInv'
  <1>1. c \in live /\ ParseReturn(c, o) /\ UNCHANGED <<factories, live, late, refused, astray>>
    BY DEF CallReturnsService
  <1> QED
    BY <1>1, ParseReturnKeeps
\* Nobody holds o, and it only gets another life than "held".
LEMMA UnheldKeeps ==
  ASSUME TablesInv, NEW o \in Objects, NEW life \in {"deleted", "loose"}, Holders(o) = {},
         object' = [object EXCEPT ![o].life = life],
         UNCHANGED <<factories, live, services, curServiceId, late>>, UNCHANGED historyVars
  PROVE  TablesInv'
  <1>1. /\ UNCHANGED <<factories, live, services, curServiceId, late>>
        /\ UNCHANGED <<told, refused, passed, selected, astray>>
    BY DEF historyVars
  <1>2. \A q \in Objects : Holders(q)' = Holders(q) /\ Holders(q) \subseteq Connections
    BY <1>1 DEF Holders, TablesInv, TableType
  <1>3. \A q \in Objects, d \in Connections : ServiceId(d, q)' = ServiceId(d, q)
    BY <1>1 DEF ServiceId
  <1>4. /\ object' \in [Objects -> Life] /\ \A q \in Objects : q # o => object'[q] = object[q]
        /\ object'[o].life = life /\ object'[o].instance = object[o].instance
    BY DEF TablesInv, TableType, Life
  <1>5. TableType'
    BY <1>1, <1>4 DEF TablesInv, TableType
  <1>6. \A d \in Connections : Numbering(d)'
    BY <1>1 DEF TablesInv, Numbering
  <1>7. ASSUME NEW q \in Objects PROVE ObjectKept(q)'
    <2>1. ObjectKept(q)
      BY DEF TablesInv
    <2>2. CASE q = o
      BY <1>1, <1>2, <1>4, <2>1, <2>2 DEF ObjectKept
    <2>3. CASE q # o
      BY <1>1, <1>2, <1>3, <1>4, <2>1, <2>3 DEF ObjectKept
    <2> QED
      BY <2>2, <2>3
  <1>8. LateKept' /\ astray' \subseteq passed'
    BY <1>1, <1>2 DEF TablesInv, TableType, LateCall, LateKept
  <1> QED
    BY <1>5, <1>6, <1>7, <1>8 DEF TablesInv

LEMMA SendReturnServiceKeeps ==
  ASSUME TablesInv, NEW s \in Objects, NEW o \in Objects, SendReturnService(s, o)
  PROVE  TablesInv'
  <1>1. object[o].life = "none"
    BY DEF SendReturnService
  <1>2. CASE object[s].instance # NoInstance /\ ParseReturn(object[s].instance, o)
    <2>1. object[s].instance \in live
      BY <1>2 DEF TablesInv, ObjectKept, Holders
    <2>2. UNCHANGED <<factories, live, late, refused, astray>>
      BY DEF SendReturnService
    <2> QED
      BY <1>2, <2>1, <2>2, ParseReturnKeeps
  <1>3. CASE /\ object' = [object EXCEPT ![o].life = "loose"]
             /\ UNCHANGED <<services, curServiceId, told, passed, selected>>
    <2>1. Holders(o) = {}
      BY <1>1 DEF TablesInv, ObjectKept
    <2>2. UNCHANGED <<factories, live, services, curServiceId, late>> /\ UNCHANGED historyVars
      BY <1>3 DEF SendReturnService, historyVars
    <2> QED
      BY <1>3, <2>1, <2>2, UnheldKeeps
  <1> QED
    BY <1>2, <1>3 DEF SendReturnService

LEMMA DeleteObjectKeeps ==
  ASSUME TablesInv, NEW o \in Objects, DeleteObject(o)
  PROVE  TablesInv'
  <1>1. Holders(o) = {}
    BY DEF DeleteObject, TablesInv, ObjectKept
  <1>2. object' = [object EXCEPT ![o].life = "deleted"]
    BY DEF DeleteObject
  <1>3. UNCHANGED <<factories, live, services, curServiceId, late>> /\ UNCHANGED historyVars
    BY DEF DeleteObject, instanceVars
  <1> QED
    BY <1>1, <1>2, <1>3, UnheldKeeps

\* Calls to be answered later come and go: the tables stand still.
LEMMA LateKeeps ==
  ASSUME TablesInv, UNCHANGED <<factories, instanceVars, object, told, refused, passed, selected>>,
         late' \subseteq LateCall, LateKept', astray' \subseteq passed
  PROVE  TablesInv'
  <1>1. UNCHANGED <<factories, live, services, curServiceId, object, told, refused, passed, selected>>
    BY DEF instanceVars
  <1>2. \A q \in Objects : Holders(q)' = Holders(q) /\ Holders(q) \subseteq Connections
    BY <1>1 DEF Holders, TablesInv, TableType
  <1>3. \A q \in Objects, d \in Connections : ServiceId(d, q)' = ServiceId(d, q)
    BY <1>1 DEF ServiceId
  <1>4. TableType'
    BY <1>1 DEF TablesInv, TableType
  <1>5. \A d \in Connections : Numbering(d)'
    BY <1>1 DEF TablesInv, Numbering
  <1>6. ASSUME NEW q \in Objects PROVE ObjectKept(q)'
    <2>1. ObjectKept(q)
      BY DEF TablesInv
    <2> QED
      BY <1>1, <1>2, <1>3, <2>1 DEF ObjectKept
  <1> QED
    BY <1>1, <1>4, <1>5, <1>6 DEF TablesInv

LEMMA CallReturnsLaterKeeps ==
  ASSUME TablesInv, NEW c \in Connections, NEW id, CallReturnsLater(c, id)
  PROVE  TablesInv'
  <1>1. PICK o \in ServicesOf(c, id) :
             /\ c \in live
             /\ late' = late \cup {[of |-> o, by |-> c, own |-> object[o].instance = c]}
             /\ UNCHANGED <<factories, instanceVars, object, historyVars>>
    BY DEF CallReturnsLater
  <1>2. PICK own \in BOOLEAN : own = (object[o].instance = c)
    OBVIOUS
  <1>3. o \in Objects /\ c \in Holders(o)
    BY <1>1 DEF ServicesOf, Holders, TablesInv, Numbering
  <1>4. ~own => o \in passed
    BY <1>2, <1>3 DEF TablesInv, ObjectKept
  <1>5. UNCHANGED <<factories, instanceVars, object, told, refused, passed, selected>>
        /\ UNCHANGED <<live, services, astray>>
    BY <1>1 DEF historyVars, instanceVars
  <1>6. late' = late \cup {[of |-> o, by |-> c, own |-> own]}
    BY <1>1, <1>2
  <1>7. late' \subseteq LateCall
    BY <1>3, <1>6 DEF TablesInv, TableType, LateCall
  <1>8. \A q : Holders(q)' = Holders(q)
    BY <1>5 DEF Holders
  <1>9. LateKept'
    BY <1>3, <1>4, <1>5, <1>6, <1>8 DEF TablesInv, LateKept
  <1> QED
    BY <1>5, <1>7, <1>9, LateKeeps DEF TablesInv

LEMMA SendReturnValueKeeps ==
  ASSUME TablesInv, NEW o \in Objects, SendReturnValue(o)
  PROVE  TablesInv'
  <1>1. PICK call \in late :
             /\ call.of = o /\ late' = late \ {call}
             /\ astray' = IF call.by \in live /\ ~(call.own /\ object[o].instance = call.by)
                          THEN astray \cup {o} ELSE astray
             /\ UNCHANGED <<factories, instanceVars, object, told, refused, passed, selected>>
    BY DEF SendReturnValue
  <1>2. /\ call.by \in live => call.by \in Holders(o)
        /\ ~call.own => o \in passed
    BY <1>1 DEF TablesInv, LateKept
  <1>3. astray' \subseteq passed
    BY <1>1, <1>2 DEF TablesInv, ObjectKept
  <1>4. UNCHANGED <<live, services, passed>> /\ \A q : Holders(q)' = Holders(q)
    BY <1>1 DEF instanceVars, Holders
  <1>5. late' \subseteq LateCall /\ LateKept'
    BY <1>1, <1>4 DEF TablesInv, TableType, LateKept
  <1> QED
    BY <1>1, <1>3, <1>5, LateKeeps
\* An instance goes: who only it held is let go of, and who it shared is nobody's.
LEMMA DestroyInstanceKeeps ==
  ASSUME TablesInv, NEW c \in Connections, DestroyInstance(c)
  PROVE  TablesInv'
  <1>1. /\ c \in live /\ live' = live \ {c}
        /\ services' = [services EXCEPT ![c] = [id \in {} |-> NoInstance]]
        /\ UNCHANGED <<factories, curServiceId, late, told, refused, passed, selected, astray>>
    BY DEF DestroyInstance, historyVars
  <1>2. /\ DOMAIN services' = Connections /\ DOMAIN services'[c] = {}
        /\ \A d \in Connections : d # c => services'[d] = services[d]
    BY <1>1 DEF TablesInv, TableType
  <1>3. \A q \in Objects : Holders(q)' = Holders(q) \ {c} /\ Holders(q) \subseteq Connections
    BY <1>1, <1>2 DEF Holders, TablesInv, TableType
  <1>4. \A q \in Objects, d \in Connections : d # c => ServiceId(d, q)' = ServiceId(d, q)
    BY <1>2 DEF ServiceId
  <1>5. \A d \in Connections : Numbering(d)'
    BY <1>1, <1>2 DEF TablesInv, Numbering
  <1>6. ASSUME NEW q \in Objects
        PROVE  /\ object[q] \in Life /\ object'[q] \in Life
               /\ Holders(q) = {c} => object'[q].life # "held" /\ object'[q].instance = NoInstance
               /\ Holders(q) # {c} /\ c \in Holders(q) =>
                    object'[q].life = object[q].life /\ object'[q].instance = NoInstance
               /\ c \notin Holders(q) => object'[q] = object[q]
               /\ object'[q].data = object[q].data
    <2>1. object[q] \in Life
      BY DEF TablesInv, TableType
    <2>2. object'[q] = IF Holders(q) = {c}
                       THEN [object[q] EXCEPT !.life = object[q].gone, !.instance = NoInstance]
                       ELSE IF c \in Holders(q) THEN [object[q] EXCEPT !.instance = NoInstance]
                       ELSE object[q]
      BY DEF DestroyInstance, LetGo
    <2> QED
      BY <2>1, <2>2 DEF Life
  <1>7. object' \in [Objects -> Life]
    <2>1. object' = [q \in Objects |-> object'[q]]
      BY DEF DestroyInstance, LetGo
    <2> QED
      BY <1>6, <2>1
  <1>8. TableType'
    BY <1>1, <1>2, <1>7 DEF TablesInv, TableType
  <1>9. ASSUME NEW q \in Objects PROVE ObjectKept(q)'
    <2>1. ObjectKept(q) /\ Holders(q)' = Holders(q) \ {c} /\ Holders(q) \subseteq Connections
      BY <1>3 DEF TablesInv
    <2>2. CASE Holders(q) = {c}
      BY <1>6, <2>1, <2>2 DEF ObjectKept
    <2>3. CASE Holders(q) # {c} /\ c \in Holders(q)
      <3>1. PICK d \in Holders(q) : d # c
        BY <2>3
      <3>2. q \in passed
        BY <2>1, <2>3, <3>1 DEF ObjectKept
      <3>3. \A e \in Connections : object'[q].instance # e
        BY <1>6, <2>3, ConnectionsAssumption
      <3> QED
        BY <1>1, <1>6, <2>1, <2>3, <3>1, <3>2, <3>3 DEF ObjectKept
    <2>4. CASE c \notin Holders(q)
      BY <1>1, <1>4, <1>6, <2>1, <2>4 DEF ObjectKept
    <2> QED
      BY <2>2, <2>3, <2>4
  <1>10. LateKept' /\ astray' \subseteq passed'
    BY <1>1, <1>3 DEF TablesInv, TableType, LateCall, LateKept
  <1> QED
    BY <1>5, <1>8, <1>9, <1>10 DEF TablesInv

LEMMA TablesStart ==
  ASSUME TableInit
  PROVE  TablesInv
  <1> USE DEF TableInit
  <1>1. TableType
    BY DEF TableType, Life, Unmade
  <1>2. \A d \in Connections : Numbering(d)
    BY DEF Numbering
  <1>3. \A q \in Objects : ObjectKept(q)
    BY DEF ObjectKept, Holders, Unmade
  <1> QED
    BY <1>1, <1>2, <1>3 DEF TablesInv, LateKept

LEMMA TablesStep ==
  ASSUME TablesInv, TableNext
  PROVE  TablesInv'
  <1>1. CASE Exec
    BY <1>1, ExecKeeps
  <1>2. ASSUME NEW n \in ServiceNames, RegisterService(n) PROVE TablesInv'
    BY <1>2, RegisterServiceKeeps
  <1>3. ASSUME NEW n \in ServiceNames, NEW key \in Keys, SetData(n, key) PROVE TablesInv'
    BY <1>3, SetDataKeeps
  <1>4. ASSUME NEW c \in Connections, NEW n \in ServiceNames, NEW o \in Objects,
               GetServiceObject(c, n, o) \/ GetServiceObjectAuth(c, n, o)
        PROVE  TablesInv'
    BY <1>4, GetServiceObjectKeeps, GetServiceObjectAuthKeeps
  <1>5. ASSUME NEW c \in Connections, NEW id \in 0 .. Cardinality(Objects),
               Authenticate(c, id) \/ CallReturnsLater(c, id)
        PROVE  TablesInv'
    BY <1>5, AuthenticateKeeps, CallReturnsLaterKeeps
  <1>6. ASSUME NEW c \in Connections, NEW id \in 0 .. Cardinality(Objects), NEW o \in Objects,
               CallReturnsService(c, id, o)
        PROVE  TablesInv'
    BY <1>6, CallReturnsServiceKeeps
  <1>7. ASSUME NEW s \in Objects, NEW o \in Objects, SendReturnService(s, o) PROVE TablesInv'
    BY <1>7, SendReturnServiceKeeps
  <1>8. ASSUME NEW c \in Connections, DestroyInstance(c) PROVE TablesInv'
    BY <1>8, DestroyInstanceKeeps
  <1>9. ASSUME NEW o \in Objects, SendReturnValue(o) \/ DeleteObject(o) PROVE TablesInv'
    BY <1>9, SendReturnValueKeeps, DeleteObjectKeeps
  <1> QED
    BY <1>1, <1>2, <1>3, <1>4, <1>5, <1>6, <1>7, <1>8, <1>9 DEF TableNext

LEMMA TablesStill ==
  ASSUME TablesInv, UNCHANGED tableVars
  PROVE  TablesInv'
  <1>1. \A n \in DOMAIN factories' : factories'[n] \subseteq Keys
    BY DEF tableVars, TablesInv, TableType
  <1>2. UNCHANGED <<live, services, curServiceId, object, late, historyVars>>
    BY DEF tableVars, instanceVars
  <1> QED
    BY <1>1, <1>2, AroundTables

LEMMA TablesKeep ==
  ASSUME TablesInv, [CallsNext]_callsVars
  PROVE  TablesInv'
  <1>1. CASE TableStep
    BY <1>1, TablesStep DEF TableStep
  <1>2. CASE UNCHANGED tableVars
    BY <1>2, TablesStill
  <1> QED
    BY <1>1, <1>2 DEF CallsNext, callsVars, DispatchStep, FramingStep, ValuesStep, AuthStep

\* An object lives as long as a connection holds it, under one number, writes to
\* no instance that is gone, and tells its clients numbers they were told; and
\* what a holder calls is answered to it, unless the object was ever shared:
\* ServicesKept, for any connections, objects and names, in any order of
\* selections, returns, destructions and late answers.
THEOREM ServicesStayKept == CallsSpec => []ServicesKept
  <1>1. CallsInit => TablesInv
    BY TablesStart DEF CallsInit
  <1>2. TablesInv /\ [CallsNext]_callsVars => TablesInv'
    BY TablesKeep
  <1>3. TablesInv => ServicesKept
    BY TablesKept
  <1> QED
    BY <1>1, <1>2, <1>3, PTL DEF CallsSpec
-----------------------------------------------------------------------------
(* Values.                                                                  *)

ValuesInv == datum \in [Handles -> Places]

\* There are as many places as handles.
LEMMA PlacesCount ==
  IsFiniteSet(Places) /\ Cardinality(Places) = Cardinality(Handles)
  <1>1. Cardinality(Handles) \in Nat
    BY HandlesAssumption, FS_CardinalityType
  <1> QED
    BY <1>1, FS_Interval DEF Places

\* While two handles share a place, another is free.
LEMMA FreshThere ==
  ASSUME ValuesInv, NEW g \in Handles, NEW h \in Handles, g # h, datum[g] = datum[h]
  PROVE  Fresh \in Places /\ \A k \in Handles : datum[k] # Fresh
  <1>1. ASSUME \A d \in Places : \E k \in Handles : datum[k] = d
        PROVE  FALSE
    <2>1. datum \in Surjection(Handles, Places)
      BY <1>1 DEF ValuesInv, Surjection
    <2>2. datum \in Injection(Handles, Places)
      BY <2>1, PlacesCount, HandlesAssumption, FS_SurjSameCardinalityImpliesInj
    <2> QED
      BY <2>2 DEF Injection, IsInjective
  <1> QED
    BY <1>1 DEF Fresh, Holds

\* What h is given goes to a place that is h's alone, or that has that value:
\* the other handles read what they read before.
LEMMA OthersRead ==
  ASSUME ValuesInv, NEW h \in Handles, NEW d \in Places, NEW v, Point(h, d, v),
         \A k \in Handles \ {h} : datum[k] = d => v = data[d]
  PROVE  ValuesInv' /\ \A k \in Handles \ {h} : Value(k)' = Value(k)
  <1>1. /\ datum' = [datum EXCEPT ![h] = d]
        /\ data' = [e \in Places |-> IF e = d THEN v
                                     ELSE IF \E g \in Handles \ {h} : datum[g] = e THEN data[e]
                                     ELSE Free]
    BY DEF Point, Holds
  <1>2. ValuesInv'
    BY <1>1 DEF ValuesInv
  <1>3. ASSUME NEW k \in Handles \ {h} PROVE Value(k)' = Value(k)
    <2>1. datum'[k] = datum[k] /\ datum[k] \in Places
      BY <1>1 DEF ValuesInv
    <2>2. data'[datum[k]] = data[datum[k]]
      BY <1>1, <2>1
    <2> QED
      BY <2>1, <2>2 DEF Value
  <1> QED
    BY <1>2, <1>3

LEMMA PlaceKeeps ==
  ASSUME ValuesInv, NEW h \in Handles, NEW v, Place(h, v)
  PROVE  ValuesInv' /\ \A k \in Handles \ {h} : Value(k)' = Value(k)
  <1>1. CASE \A g \in Handles \ {h} : ~Holds(g, datum[h])
    <2>1. Point(h, datum[h], v)
      BY <1>1 DEF Place
    <2>2. datum[h] \in Places /\ \A k \in Handles \ {h} : datum[k] # datum[h]
      BY <1>1 DEF ValuesInv, Holds
    <2> QED
      BY <2>1, <2>2, OthersRead
  <1>2. CASE ~\A g \in Handles \ {h} : ~Holds(g, datum[h])
    <2>1. Point(h, Fresh, v)
      BY <1>2 DEF Place
    <2>2. PICK g \in Handles \ {h} : datum[g] = datum[h]
      BY <1>2 DEF Holds
    <2>3. Fresh \in Places /\ \A k \in Handles : datum[k] # Fresh
      BY <2>2, FreshThere
    <2> QED
      BY <2>1, <2>3, OthersRead
  <1> QED
    BY <1>1, <1>2

LEMMA CopyKeeps ==
  ASSUME ValuesInv, NEW h \in Handles, NEW g \in Handles, Copy(h, g)
  PROVE  ValuesInv' /\ \A k \in Handles \ {h} : Value(k)' = Value(k)
  <1>1. Point(h, datum[g], data[datum[g]]) /\ datum[g] \in Places
    BY DEF Copy, Value, ValuesInv
  <1> QED
    BY <1>1, OthersRead

\* Past the sharing only the values change that share it.
LEMMA ParseSharedTells ==
  ASSUME ValuesInv, NEW h \in Handles, ParseShared(h)
  PROVE  ValuesInv' /\ \A k \in Handles : Value(k)' # Value(k) => ParseShared(k)
  <1>1. UNCHANGED datum
    BY DEF ParseShared
  <1>2. ASSUME NEW k \in Handles, Value(k)' # Value(k) PROVE ParseShared(k)
    <2>1. datum[k] = datum[h]
      BY <1>1, <1>2 DEF ParseShared, Value
    <2> QED
      BY <2>1 DEF ParseShared, Value
  <1> QED
    BY <1>1, <1>2 DEF ValuesInv

\* One handle gets another value, or parseReturn() writes past the sharing.
OneValue ==
  \/ \E h \in Handles : \A k \in Handles \ {h} : Value(k)' = Value(k)
  \/ \A k \in Handles : Value(k)' # Value(k) => ParseShared(k)

LEMMA ValuesStepKeeps ==
  ASSUME ValuesInv, ValuesNext
  PROVE  ValuesInv' /\ OneValue
  <1>1. ASSUME NEW h \in Handles, NEW v, Construct(h, v) \/ Change(h, v)
        PROVE  ValuesInv' /\ OneValue
    BY <1>1, PlaceKeeps DEF Construct, Change, OneValue
  <1>2. ASSUME NEW h \in Handles, ParseShared(h) PROVE ValuesInv' /\ OneValue
    BY <1>2, ParseSharedTells DEF OneValue
  <1>3. ASSUME NEW h \in Handles, NEW g \in Handles, Copy(h, g) PROVE ValuesInv' /\ OneValue
    BY <1>3, CopyKeeps DEF OneValue
  <1>4. ASSUME NEW h \in Handles, SignatureStep(h) PROVE ValuesInv' /\ OneValue
    BY <1>1, <1>4 DEF SignatureStep
  <1>5. ASSUME NEW h \in Handles, ReturnStep(h) PROVE ValuesInv' /\ OneValue
    BY <1>1, <1>5 DEF ReturnStep
  <1>6. ASSUME NEW h \in Handles, MessageStep(h) PROVE ValuesInv' /\ OneValue
    BY <1>1, <1>6 DEF MessageStep
  <1> QED
    BY <1>2, <1>3, <1>4, <1>5, <1>6 DEF ValuesNext

LEMMA ValuesStart ==
  ASSUME ValuesInit
  PROVE  ValuesInv
  <1>1. ExistsBijection(Handles, Places)
    BY PlacesCount, HandlesAssumption, FS_SameCardinalityBij
  <1>2. \E f \in [Handles -> Places] : \A g, h \in Handles : g # h => f[g] # f[h]
    BY <1>1 DEF ExistsBijection, Bijection, Injection, IsInjective
  <1> QED
    BY <1>2 DEF ValuesInit, ValuesInv

LEMMA ValuesKeep ==
  ASSUME ValuesInv, [CallsNext]_callsVars
  PROVE  ValuesInv' /\ (OneValue \/ UNCHANGED valueVars)
  <1>1. CASE ValuesStep
    BY <1>1, ValuesStepKeeps DEF ValuesStep
  <1>2. CASE UNCHANGED valueVars
    BY <1>2 DEF valueVars, ValuesInv, Places
  <1> QED
    BY <1>1, <1>2 DEF CallsNext, callsVars, DispatchStep, FramingStep, TableStep, AuthStep

\* No value changes because a copy of it is changed, for any number of handles and
\* whatever values they are given, except past the sharing: CopiesIndependent.
THEOREM CopiesApart == CallsSpec => CopiesIndependent
  <1>1. CallsInit => ValuesInv
    BY ValuesStart DEF CallsInit
  <1>2. ValuesInv /\ [CallsNext]_callsVars => ValuesInv'
    BY ValuesKeep
  <1>3. ValuesInv /\ [CallsNext]_callsVars =>
          [\A g, h \in Handles :
             Value(g)' # Value(g) /\ Value(h)' # Value(h) /\ g # h => ParseShared(g)]_valueVars
    BY ValuesKeep DEF OneValue
  <1> QED
    BY <1>1, <1>2, <1>3, PTL DEF CallsSpec, CopiesIndependent
-----------------------------------------------------------------------------
(* Frames: words, and what is read of them.                                 *)

\* Any message the operators of the stream are for, whatever its contents.
Returns ==
  {RetValue(v) : v \in Nat} \cup {RetError(n, s) : n, s \in Nat} \cup {RetService(i) : i \in Nat}
AnyMessage ==
  {m \in [type : {Function, QtRpc, Event, Return}, id : Nat, service : Nat, body : Seq(Nat)] :
     m.type = Return => m.body \in Returns}

\* A stream is read behind a word, and behind two.
LEMMA BehindWords ==
  ASSUME NEW s \in Seq(Nat), NEW a \in Nat
  PROVE  /\ <<a>> \o s \in Seq(Nat) /\ Len(<<a>> \o s) = Len(s) + 1
         /\ WordAt(<<a>> \o s, 1) = a /\ WordAt(<<a>> \o s, 2) = WordAt(s, 1)
         /\ WordAt(<<a>> \o s, 3) = WordAt(s, 2)
         /\ From(s, 1) = s
         /\ From(<<a>> \o s, 2) = s
         /\ \A n \in Nat \ {0} : From(<<a>> \o s, n + 1) = From(s, n)
  <1> DEFINE r == <<a>> \o s
  <1>1. /\ r \in Seq(Nat) /\ Len(r) = Len(s) + 1 /\ Len(s) \in Nat /\ r[1] = a
        /\ \A i \in 1 .. Len(s) : r[i + 1] = s[i]
        /\ \A i \in 1 .. Len(s) : s[i] \in Nat
        /\ \A i \in 1 .. Len(r) : r[i] \in Nat
    OBVIOUS
  <1> HIDE DEF r
  <1>2. WordAt(r, 1) = a /\ WordAt(r, 2) = WordAt(s, 1) /\ WordAt(r, 3) = WordAt(s, 2)
    BY <1>1 DEF WordAt
  <1>3. ASSUME NEW n \in Nat \ {0}
        PROVE  From(r, n + 1) = From(s, n)
    <2>0. n \in Int /\ n + 1 \in Int /\ Len(s) \in Int /\ Len(r) \in Int
      BY <1>1
    <2>1. /\ From(s, n) \in Seq(Nat)
          /\ Len(From(s, n)) = IF n <= Len(s) THEN Len(s) - n + 1 ELSE 0
          /\ \A i \in 1 .. Len(s) - n + 1 : From(s, n)[i] = s[n + i - 1]
      BY <1>1, <2>0, SubSeqProperties DEF From
    <2>2. /\ From(r, n + 1) \in Seq(Nat)
          /\ Len(From(r, n + 1)) = IF n + 1 <= Len(r) THEN Len(r) - (n + 1) + 1 ELSE 0
          /\ \A i \in 1 .. Len(r) - (n + 1) + 1 : From(r, n + 1)[i] = r[n + 1 + i - 1]
      BY <1>1, <2>0, SubSeqProperties DEF From
    <2>3. Len(From(r, n + 1)) = Len(From(s, n))
      BY <1>1, <2>1, <2>2
    <2>4. \A i \in 1 .. Len(From(s, n)) : From(r, n + 1)[i] = From(s, n)[i]
      <3> SUFFICES ASSUME NEW i \in 1 .. Len(From(s, n))
                   PROVE  From(r, n + 1)[i] = From(s, n)[i]
        OBVIOUS
      <3>1. PICK j : j = n + i - 1
        OBVIOUS
      <3>2. /\ i \in 1 .. Len(s) - n + 1 /\ j \in 1 .. Len(s) /\ n + 1 + i - 1 = j + 1
            /\ i \in 1 .. Len(r) - (n + 1) + 1
        BY <1>1, <2>1, <3>1
      <3>3. From(s, n)[i] = s[j] /\ From(r, n + 1)[i] = r[j + 1]
        BY <2>1, <2>2, <3>1, <3>2
      <3> QED
        BY <1>1, <3>2, <3>3
    <2> QED
      BY <2>1, <2>2, <2>3, <2>4, SeqEqual
  <1>4. From(s, 1) = s
    BY SubSeqFull DEF From
  <1>5. From(r, 2) = s
    <2>1. 1 \in Nat \ {0} /\ 1 + 1 = 2
      OBVIOUS
    <2> QED
      BY <1>3, <1>4, <2>1
  <1> QED
    BY <1>1, <1>2, <1>3, <1>4, <1>5 DEF r

\* Versions 1 and 2 read what they packed: a service only where one was written.
LEMMA PackedReads ==
  ASSUME NEW m \in AnyMessage
  PROVE  /\ PackedBody(m) \in Seq(Nat) /\ Len(PackedBody(m)) >= 2
         /\ WordAt(PackedBody(m), 1) = m.type
         /\ Unpacked(PackedBody(m)) = Shown(m, 1) /\ Shown(m, 2) = Shown(m, 1)
  <1> DEFINE tail == <<m.id>> \o m.body
  <1>1. /\ m \in [type : {Function, QtRpc, Event, Return}, id : Nat, service : Nat, body : Seq(Nat)]
        /\ m.type \in {0, 1, 2, 3} /\ m.type \in Nat /\ m.id \in Nat /\ m.service \in Nat
        /\ m.body \in Seq(Nat) /\ Len(m.body) \in Nat
    BY DEF AnyMessage, Function, QtRpc, Event, Return
  <1>2. /\ tail \in Seq(Nat) /\ Len(tail) = Len(m.body) + 1 /\ WordAt(tail, 1) = m.id
        /\ From(tail, 2) = m.body
    BY <1>1, BehindWords
  <1>3. /\ <<m.type>> \in Seq(Nat) /\ <<m.service>> \in Seq(Nat) /\ <<m.id>> \in Seq(Nat)
        /\ <<>> \in Seq(Nat)
    BY <1>1
  <1>4. Shown(m, 2) = Shown(m, 1)
    BY DEF Shown
  <1>5. CASE m.type \in {Function, Event}
    <2> DEFINE more == <<m.service>> \o tail
               all  == <<m.type>> \o more
    <2>1. PackedBody(m) = all
      <3>1. PackedBody(m) = ((<<m.type>> \o <<m.service>>) \o <<m.id>>) \o m.body
        BY <1>5 DEF PackedBody
      <3>2. /\ <<m.type>> \o <<m.service>> \in Seq(Nat)
            /\ (<<m.type>> \o <<m.service>>) \o <<m.id>> \in Seq(Nat)
        BY <1>3, ConcatProperties
      <3>3. PackedBody(m) = (<<m.type>> \o <<m.service>>) \o tail
        BY <1>1, <1>3, <3>1, <3>2, ConcatAssociative
      <3> HIDE DEF tail
      <3> QED
        BY <1>2, <1>3, <3>3, ConcatAssociative
    <2> HIDE DEF tail
    <2>2. /\ more \in Seq(Nat) /\ Len(more) = Len(tail) + 1 /\ WordAt(more, 1) = m.service
          /\ WordAt(more, 2) = m.id /\ From(more, 3) = m.body
      <3>1. From(more, 2 + 1) = From(tail, 2)
        <4>1. \A n \in Nat \ {0} : From(<<m.service>> \o tail, n + 1) = From(tail, n)
          BY <1>1, <1>2, BehindWords
        <4> QED
          BY <4>1
      <3> QED
        BY <1>1, <1>2, <3>1, BehindWords
    <2> HIDE DEF more
    <2>3. /\ all \in Seq(Nat) /\ Len(all) = Len(more) + 1 /\ WordAt(all, 1) = m.type
          /\ WordAt(all, 2) = m.service /\ WordAt(all, 3) = m.id /\ From(all, 4) = m.body
      <3>1. From(all, 3 + 1) = From(more, 3)
        <4>1. \A n \in Nat \ {0} : From(<<m.type>> \o more, n + 1) = From(more, n)
          BY <1>1, <2>2, BehindWords
        <4> QED
          BY <4>1
      <3> QED
        BY <1>1, <2>2, <3>1, BehindWords
    <2> HIDE DEF all
    <2>4. Unpacked(all) = Message(m.type, m.id, m.service, m.body)
      BY <1>1, <1>5, <2>3 DEF Unpacked, Function, QtRpc, Event, Return
    <2>5. Shown(m, 1) = m
      BY <1>1, <1>5 DEF Shown
    <2>6. m = Message(m.type, m.id, m.service, m.body)
      BY <1>1 DEF Message
    <2> QED
      BY <1>1, <1>2, <1>4, <2>1, <2>2, <2>3, <2>4, <2>5, <2>6
  <1>6. CASE m.type \notin {Function, Event}
    <2> DEFINE all == <<m.type>> \o tail
    <2>1. PackedBody(m) = all
      <3>1. PackedBody(m) = ((<<m.type>> \o <<>>) \o <<m.id>>) \o m.body
        BY <1>6 DEF PackedBody
      <3>2. <<m.type>> \o <<>> = <<m.type>>
        BY <1>3, ConcatEmptySeq
      <3> QED
        BY <1>1, <1>3, <3>1, <3>2, ConcatAssociative
    <2> HIDE DEF tail
    <2>2. /\ all \in Seq(Nat) /\ Len(all) = Len(tail) + 1 /\ WordAt(all, 1) = m.type
          /\ WordAt(all, 2) = m.id /\ From(all, 3) = m.body
      <3>1. From(all, 2 + 1) = From(tail, 2)
        <4>1. \A n \in Nat \ {0} : From(<<m.type>> \o tail, n + 1) = From(tail, n)
          BY <1>1, <1>2, BehindWords
        <4> QED
          BY <4>1
      <3> QED
        BY <1>1, <1>2, <3>1, BehindWords
    <2> HIDE DEF all
    <2>3. Unpacked(all) = Message(m.type, m.id, 0, m.body)
      BY <1>1, <1>6, <2>2 DEF Unpacked, Function, QtRpc, Event, Return
    <2>4. Shown(m, 1) = Message(m.type, m.id, 0, m.body)
      BY <1>1, <1>6 DEF Shown, Message
    <2> QED
      BY <1>1, <1>2, <1>4, <2>1, <2>2, <2>3, <2>4
  <1> QED
    BY <1>5, <1>6

\* What version 0 sends of a return.
LEMMA ReturnArguments ==
  ASSUME NEW ret \in Returns
  PROVE  RetArgs(ret) \in Seq(Nat) /\ <<0>> \o RetArgs(ret) \in Seq(Nat)
  <1>1. RetArgs(ret) \in Seq(Nat)
    <2>1. ASSUME NEW v \in Nat, ret = RetValue(v) PROVE RetArgs(ret) \in Seq(Nat)
      BY <2>1 DEF RetArgs, RetValue
    <2>2. ASSUME NEW n \in Nat, NEW s \in Nat, ret = RetError(n, s)
          PROVE  RetArgs(ret) \in Seq(Nat)
      BY <2>2 DEF RetArgs, RetError
    <2>3. ASSUME NEW i \in Nat, ret = RetService(i) PROVE RetArgs(ret) \in Seq(Nat)
      BY <2>3 DEF RetArgs, RetService
    <2> QED
      BY <2>1, <2>2, <2>3 DEF Returns
  <1> QED
    BY <1>1, BehindWords

\* The two words in front of a message in version 0.
LEMMA OldFormat ==
  ASSUME NEW m \in AnyMessage
  PROVE  LET rest == IF m.type = Return THEN <<0>> \o RetArgs(m.body) ELSE m.body IN
         /\ rest \in Seq(Nat)
         /\ Encode(m, 0) = <<m.id>> \o (<<m.type>> \o rest)
         /\ Encode(m, 0) \in Seq(Nat) /\ Len(Encode(m, 0)) >= 2
         /\ WordAt(Encode(m, 0), 1) = m.id /\ WordAt(Encode(m, 0), 2) = m.type
         /\ From(Encode(m, 0), 3) = rest
         /\ m.type = Return => From(Encode(m, 0), 4) = RetArgs(m.body)
  <1> DEFINE rest == IF m.type = Return THEN <<0>> \o RetArgs(m.body) ELSE m.body
             more == <<m.type>> \o rest
             all  == <<m.id>> \o more
  <1>1. /\ m.type \in Nat /\ m.id \in Nat /\ m.body \in Seq(Nat)
        /\ m.type = Return => m.body \in Returns
    BY DEF AnyMessage, Function, QtRpc, Event, Return
  <1>2. rest \in Seq(Nat) /\ Len(rest) \in Nat
    BY <1>1, ReturnArguments
  <1>3. m.type = Return => From(rest, 2) = RetArgs(m.body)
    BY <1>1, ReturnArguments, BehindWords
  <1>4. Encode(m, 0) = <<m.id, m.type>> \o rest
    BY DEF Encode
  <1> HIDE DEF rest
  <1>5. /\ more \in Seq(Nat) /\ Len(more) = Len(rest) + 1 /\ WordAt(more, 1) = m.type
        /\ From(more, 2) = rest /\ (m.type = Return => From(more, 3) = RetArgs(m.body))
    <2>1. From(more, 2 + 1) = From(rest, 2)
      BY <1>1, <1>2, BehindWords
    <2> QED
      BY <1>1, <1>2, <1>3, <2>1, BehindWords
  <1>6. <<m.id, m.type>> \o rest = all
    <2>1. <<m.id, m.type>> = <<m.id>> \o <<m.type>> /\ <<m.id>> \in Seq(Nat) /\ <<m.type>> \in Seq(Nat)
      BY <1>1
    <2> QED
      BY <1>2, <2>1, ConcatAssociative
  <1> HIDE DEF more
  <1>7. /\ all \in Seq(Nat) /\ Len(all) = Len(more) + 1 /\ WordAt(all, 1) = m.id /\ WordAt(all, 2) = m.type
        /\ From(all, 3) = rest /\ (m.type = Return => From(all, 4) = RetArgs(m.body))
    <2>1. From(all, 2 + 1) = From(more, 2) /\ From(all, 3 + 1) = From(more, 3)
      BY <1>1, <1>5, BehindWords
    <2> QED
      BY <1>1, <1>5, <2>1, BehindWords
  <1>8. Len(all) >= 2
    BY <1>2, <1>5, <1>7
  <1> QED
    BY <1>2, <1>4, <1>6, <1>7, <1>8 DEF rest, more

\* What operator<< writes in a version, operator>> reads in the same as it should show,
\* whatever message it is.
THEOREM ReadInItsVersion ==
  ASSUME NEW m \in AnyMessage, NEW v \in 0 .. 2
  PROVE  /\ Encode(m, v) \in Seq(Nat) /\ Len(Encode(m, v)) >= 2
         /\ Decode(Encode(m, v), v) = Shown(m, v)
  <1> DEFINE P == PackedBody(m)
  <1>1. /\ P \in Seq(Nat) /\ Len(P) >= 2 /\ Len(P) \in Nat /\ Unpacked(P) = Shown(m, 1)
        /\ Shown(m, 2) = Shown(m, 1)
    BY PackedReads
  <1> HIDE DEF P
  <1>2. CASE v = 2
    <2>1. Encode(m, v) = <<Magic>> \o P
      BY <1>2 DEF Encode, P
    <2>2. /\ <<Magic>> \o P \in Seq(Nat) /\ Len(<<Magic>> \o P) = Len(P) + 1
          /\ WordAt(<<Magic>> \o P, 1) = Magic /\ From(<<Magic>> \o P, 2) = P
      <3>1. Magic \in Nat
        BY DEF Magic
      <3> QED
        BY <1>1, <3>1, BehindWords
    <2>3. PICK e : e = <<Magic>> \o P
      OBVIOUS
    <2>4. e \in Seq(Nat) /\ Len(e) >= 2
      BY <1>1, <2>2, <2>3
    <2>5. Decode(e, 2) = Unpacked(P)
      BY <2>2, <2>3 DEF Decode
    <2> QED
      BY <1>1, <1>2, <2>1, <2>3, <2>4, <2>5
  <1>3. CASE v = 1
    <2>1. Encode(m, v) = P
      BY <1>3 DEF Encode, P
    <2>2. Decode(P, 1) = Unpacked(P)
      BY DEF Decode
    <2> QED
      BY <1>1, <1>3, <2>1, <2>2
  <1>4. CASE v = 0
    <2> DEFINE rest == IF m.type = Return THEN <<0>> \o RetArgs(m.body) ELSE m.body
    <2>1. PICK e : e = Encode(m, 0)
      OBVIOUS
    <2>2. /\ e \in Seq(Nat) /\ Len(e) >= 2 /\ WordAt(e, 1) = m.id /\ WordAt(e, 2) = m.type
          /\ From(e, 3) = rest /\ (m.type = Return => From(e, 4) = RetArgs(m.body))
      BY <2>1, OldFormat
    <2>3. Decode(e, 0) = Message(m.type, m.id, 1,
                                 IF m.type = Return THEN ArgsRet(RetArgs(m.body)) ELSE m.body)
      BY <2>2 DEF Decode
    <2>4. m \in [type : {Function, QtRpc, Event, Return}, id : Nat, service : Nat, body : Seq(Nat)]
      BY DEF AnyMessage
    <2>5. Shown(m, 0) = [m EXCEPT !.service = 1, !.body = IF m.type = Return THEN ArgsRet(RetArgs(@)) ELSE @]
      BY DEF Shown
    <2>6. Shown(m, 0) = Message(m.type, m.id, 1,
                                IF m.type = Return THEN ArgsRet(RetArgs(m.body)) ELSE m.body)
      BY <2>4, <2>5 DEF Message
    <2> QED
      BY <1>4, <2>1, <2>2, <2>3, <2>6
  <1> QED
    BY <1>2, <1>3, <1>4

\* A server that reads version 2 tells the old format by the magic number.
LEMMA OldTold ==
  ASSUME NEW m \in AnyMessage, m.id # Magic
  PROVE  Decode(Encode(m, 0), 2) = NoMessage
  <1>1. WordAt(Encode(m, 0), 1) # Magic
    BY OldFormat
  <1> QED
    BY <1>1 DEF Decode
-----------------------------------------------------------------------------
(* What is under way.                                                       *)

\* Putting streams together: kept folded where only their order matters.
Join(a, b) == a \o b

LEMMA Joining ==
  ASSUME NEW S
  PROVE  /\ \A a, b \in Seq(S) : Join(a, b) \in Seq(S)
         /\ \A a, b, c \in Seq(S) : Join(Join(a, b), c) = Join(a, Join(b, c))
  <1>1. ASSUME NEW a \in Seq(S), NEW b \in Seq(S) PROVE Join(a, b) \in Seq(S)
    BY ConcatProperties DEF Join
  <1>2. ASSUME NEW a \in Seq(S), NEW b \in Seq(S), NEW c \in Seq(S)
        PROVE  Join(Join(a, b), c) = Join(a, Join(b, c))
    <2>1. (a \o b) \o c = a \o (b \o c)
      BY ConcatAssociative
    <2> QED
      BY <2>1 DEF Join
  <1> QED
    BY <1>1, <1>2

LEMMA Joins ==
  /\ \A a, b \in Seq(Nat) : Join(a, b) \in Seq(Nat)
  /\ \A a, b, c \in Seq(Nat) : Join(Join(a, b), c) = Join(a, Join(b, c))
  <1>1. ASSUME NEW a \in Seq(Nat), NEW b \in Seq(Nat) PROVE Join(a, b) \in Seq(Nat)
    BY Joining
  <1>2. ASSUME NEW a \in Seq(Nat), NEW b \in Seq(Nat), NEW c \in Seq(Nat)
        PROVE  Join(Join(a, b), c) = Join(a, Join(b, c))
    BY Joining
  <1> QED
    BY <1>1, <1>2

\* Two streams that agree, and have heads of one length, agree in both parts.
LEMMA SameHead ==
  ASSUME NEW a \in Seq(Nat), NEW b \in Seq(Nat), NEW c \in Seq(Nat), NEW d \in Seq(Nat),
         Len(a) = Len(c), Join(a, b) = Join(c, d)
  PROVE  a = c /\ b = d
  <1>1. PICK s : s = a \o b /\ s = c \o d
    BY DEF Join
  <1>0. /\ s \in Seq(Nat) /\ Len(s) = Len(a) + Len(b)
        /\ \A i \in 1 .. Len(a) + Len(b) : s[i] = IF i <= Len(a) THEN a[i] ELSE b[i - Len(a)]
    <2>1. s = a \o b
      BY <1>1
    <2> QED
      BY <2>1, ConcatProperties
  <1>01. /\ Len(s) = Len(c) + Len(d)
         /\ \A i \in 1 .. Len(c) + Len(d) : s[i] = IF i <= Len(c) THEN c[i] ELSE d[i - Len(c)]
    <2>1. s = c \o d
      BY <1>1
    <2> QED
      BY <2>1, ConcatProperties
  <1>2. /\ s = a \o b /\ s = c \o d /\ Len(a) \in Nat /\ Len(b) \in Nat /\ Len(d) \in Nat
        /\ Len(c) = Len(a) /\ s \in Seq(Nat)
        /\ Len(s) = Len(a) + Len(b) /\ Len(s) = Len(a) + Len(d)
        /\ \A i \in 1 .. Len(s) : s[i] = IF i <= Len(a) THEN a[i] ELSE b[i - Len(a)]
        /\ \A i \in 1 .. Len(s) : s[i] = IF i <= Len(a) THEN c[i] ELSE d[i - Len(a)]
    BY <1>0, <1>01, <1>1
  <1>3. /\ \A i \in 1 .. Len(a) : s[i] = a[i] /\ s[i] = c[i]
        /\ \A i \in 1 .. Len(b) : s[Len(a) + i] = b[i] /\ s[Len(a) + i] = d[i]
    <2>1. ASSUME NEW i \in 1 .. Len(a)
          PROVE  s[i] = a[i] /\ s[i] = c[i]
      <3>1. i \in 1 .. Len(s) /\ i <= Len(a)
        BY <1>2
      <3> QED
        BY <1>2, <3>1
    <2>2. ASSUME NEW i \in 1 .. Len(b)
          PROVE  s[Len(a) + i] = b[i] /\ s[Len(a) + i] = d[i]
      <3>1. PICK j : j = Len(a) + i
        OBVIOUS
      <3>2. j \in 1 .. Len(s) /\ ~(j <= Len(a)) /\ j - Len(a) = i
        BY <1>2, <3>1
      <3>3. s[j] = b[j - Len(a)] /\ s[j] = d[j - Len(a)]
        BY <1>2, <3>2
      <3> QED
        BY <3>1, <3>2, <3>3
    <2> QED
      BY <2>1, <2>2
  <1>4. a = c
    BY <1>3, SeqEqual
  <1>5. Len(b) = Len(d) /\ \A i \in 1 .. Len(b) : b[i] = d[i]
    <2>1. Len(b) = Len(d)
      BY <1>2
    <2> QED
      BY <1>3, <2>1
  <1>6. b = d
    BY <1>5, SeqEqual
  <1> QED
    BY <1>4, <1>6

\* A stream is its first k words and the others.
LEMMA Parted ==
  ASSUME NEW s \in Seq(Nat), NEW k \in 0 .. Len(s)
  PROVE  /\ SubSeq(s, 1, k) \in Seq(Nat) /\ Len(SubSeq(s, 1, k)) = k
         /\ From(s, k + 1) \in Seq(Nat) /\ Len(From(s, k + 1)) = Len(s) - k
         /\ s = SubSeq(s, 1, k) \o From(s, k + 1)
  <1> DEFINE a == SubSeq(s, 1, k)
             b == From(s, k + 1)
  <1>0. Len(s) \in Nat /\ k \in Nat /\ \A i \in 1 .. Len(s) : s[i] \in Nat
    OBVIOUS
  <1>1. a \in Seq(Nat) /\ Len(a) = k /\ \A i \in 1 .. k : a[i] = s[i]
    <2>1. \A i \in 1 .. k : s[i] \in Nat
      BY <1>0
    <2>2. /\ a \in Seq(Nat) /\ Len(a) = (IF 1 <= k THEN k - 1 + 1 ELSE 0)
          /\ \A i \in 1 .. k - 1 + 1 : a[i] = s[1 + i - 1]
      BY <1>0, <2>1, SubSeqProperties
    <2> QED
      BY <1>0, <2>2
  <1>2. b \in Seq(Nat) /\ Len(b) = Len(s) - k /\ \A i \in 1 .. Len(s) - k : b[i] = s[k + i]
    <2>0. k + 1 \in Int /\ Len(s) \in Int
      BY <1>0
    <2>1. \A i \in k + 1 .. Len(s) : s[i] \in Nat
      BY <1>0
    <2>2. /\ b \in Seq(Nat) /\ Len(b) = (IF k + 1 <= Len(s) THEN Len(s) - (k + 1) + 1 ELSE 0)
          /\ \A i \in 1 .. Len(s) - (k + 1) + 1 : b[i] = s[k + 1 + i - 1]
      BY <1>0, <2>0, <2>1, SubSeqProperties DEF From
    <2>3. Len(b) = Len(s) - k
      BY <1>0, <2>2
    <2>4. ASSUME NEW i \in 1 .. Len(s) - k PROVE b[i] = s[k + i]
      <3>1. i \in 1 .. Len(s) - (k + 1) + 1 /\ k + 1 + i - 1 = k + i
        BY <1>0
      <3> QED
        BY <2>2, <3>1
    <2> QED
      BY <2>2, <2>3, <2>4
  <1> HIDE DEF a, b
  <1>3. /\ a \o b \in Seq(Nat) /\ Len(a \o b) = Len(s)
        /\ \A i \in 1 .. Len(s) : (a \o b)[i] = IF i <= k THEN a[i] ELSE b[i - k]
    <2>1. /\ a \o b \in Seq(Nat) /\ Len(a \o b) = Len(a) + Len(b)
          /\ \A i \in 1 .. Len(a) + Len(b) : (a \o b)[i] = IF i <= Len(a) THEN a[i] ELSE b[i - Len(a)]
      BY <1>1, <1>2, ConcatProperties
    <2>2. k + (Len(s) - k) = Len(s)
      BY <1>0
    <2> QED
      BY <1>1, <1>2, <2>1, <2>2
  <1>4. ASSUME NEW i \in 1 .. Len(s) PROVE s[i] = (a \o b)[i]
    <2>1. CASE i <= k
      <3>1. (a \o b)[i] = a[i] /\ i \in 1 .. k
        BY <1>0, <1>3, <2>1
      <3> QED
        BY <1>1, <3>1
    <2>2. CASE ~(i <= k)
      <3>1. PICK j : j = i - k
        OBVIOUS
      <3>2. j \in 1 .. Len(s) - k /\ k + j = i
        BY <1>0, <2>2, <3>1
      <3>3. (a \o b)[i] = b[j]
        BY <1>0, <1>3, <2>2, <3>1
      <3> QED
        BY <1>2, <3>2, <3>3
    <2> QED
      BY <2>1, <2>2
  <1>5. s = a \o b
    BY <1>3, <1>4, SeqEqual
  <1> QED
    BY <1>1, <1>2, <1>5 DEF a, b
-----------------------------------------------------------------------------
(* The messages of one direction.                                           *)

MessagesOf(d) == IF d = "toServer" THEN ClientMessages ELSE ServerMessages

\* A message and the version it was written in
Outgoing == [m : AnyMessage, v : 0 .. 2]
Words(x) == Encode(x.m, x.v)

\* The words of the message at hand, the reader's device, and the net
Partial == IF total = 0 THEN <<>> ELSE <<0, total>> \o buffer
Stream  == Partial \o (avail \o net)

FrameType ==
  /\ dir \in {"toServer", "toClient"} /\ target \in 0 .. 2
  /\ asked \in BOOLEAN /\ looping \in BOOLEAN /\ open \in BOOLEAN
  /\ net \in Seq(Nat) /\ avail \in Seq(Nat) /\ buffer \in Seq(Nat) /\ total \in Nat
  /\ total > 0 => Len(buffer) < total
  /\ ~looping => avail = <<>> \/ (total = 0 /\ Len(avail) < 2)
  /\ got \in Seq(AnyMessage) /\ sent \in Seq(AnyMessage)

\* The messages written are w; the stream from the i-th on was rem[i], and what
\* a cut took of it is lost.
Carried(w, rem, lost) ==
  /\ w \in Seq(Outgoing) /\ lost \in Seq(Nat) /\ rem \in [1 .. Len(w) + 1 -> Seq(Nat)]
  /\ open => lost = <<>>
  /\ Len(sent) = Len(w) /\ Len(got) <= Len(w)
  /\ \A i \in 1 .. Len(w) : /\ sent[i] = Shown(w[i].m, w[i].v)
                            /\ rem[i] = Frame(Words(w[i])) \o rem[i + 1]
  /\ rem[Len(w) + 1] = <<>>
  /\ rem[Len(got) + 1] = Stream \o lost

\* The version in which the i-th message is read, when the p-th is the change.
ReadAs(p, i) == IF p # 0 /\ p < i THEN target ELSE 0

\* What is written in v can be read in r.
Fits(v, r) == v = r \/ (dir = "toServer" /\ v = 0 /\ r # 1)

InFormat(w, p) ==
  /\ p \in 0 .. Len(w) /\ (p = 0 <=> ~asked)
  /\ wver \in {0, target} /\ (~asked => wver = 0)
  /\ dir = "toClient" /\ asked => wver = target
  /\ rver = ReadAs(p, Len(got) + 1)
  /\ \A i \in 1 .. Len(w) : /\ w[i].m \in IF i = p THEN {Switch(target)} ELSE MessagesOf(dir)
                            /\ Fits(w[i].v, ReadAs(p, i))

FrameInv ==
  /\ FrameType
  /\ \E w \in Seq(Outgoing), p \in Nat, lost \in Seq(Nat) :
       InFormat(w, p) /\ \E rem \in [1 .. Len(w) + 1 -> Seq(Nat)] : Carried(w, rem, lost)

\* What a return carries goes out word by word.
LEMMA ReturnsAreWords ==
  ASSUME NEW r \in Returns
  PROVE  r \in Seq(Nat)
  <1>1. ASSUME NEW v \in Nat PROVE RetValue(v) \in Seq(Nat) /\ RetService(v) \in Seq(Nat)
    BY DEF RetValue, RetService
  <1>2. ASSUME NEW n \in Nat, NEW s \in Nat PROVE RetError(n, s) \in Seq(Nat)
    BY DEF RetError
  <1> QED
    BY <1>1, <1>2 DEF Returns

\* What shows of a message is a message of the same kind.
LEMMA ShownOf ==
  ASSUME NEW m \in AnyMessage, NEW v \in 0 .. 2
  PROVE  /\ Shown(m, v) \in AnyMessage /\ Shown(m, v).type = m.type
         /\ m.type # Return => Shown(m, v).body = m.body
  <1>1. /\ m \in [type : {Function, QtRpc, Event, Return}, id : Nat, service : Nat, body : Seq(Nat)]
        /\ m.type = Return => m.body \in Returns
    BY DEF AnyMessage
  <1>2. ASSUME NEW r \in Returns
        PROVE  ArgsRet(RetArgs(r)) \in Returns
    <2>1. ASSUME NEW x \in Nat, r = RetValue(x) \/ r = RetService(x)
          PROVE  ArgsRet(RetArgs(r)) \in {RetValue(x), RetValue(0)}
      BY <2>1 DEF ArgsRet, RetArgs, RetValue, RetService
    <2>2. ASSUME NEW n \in Nat, NEW s \in Nat, r = RetError(n, s)
          PROVE  ArgsRet(RetArgs(r)) = RetError(n, s)
      BY <2>2 DEF ArgsRet, RetArgs, RetError
    <2> QED
      BY <2>1, <2>2 DEF Returns
  <1>3. CASE v > 0
    <2>1. PICK s : s = IF m.type \in {Function, Event} THEN m.service ELSE 0
      OBVIOUS
    <2>2. Shown(m, v) = [m EXCEPT !.service = s] /\ s \in Nat
      BY <1>1, <1>3, <2>1 DEF Shown
    <2> QED
      BY <1>1, <2>2 DEF AnyMessage
  <1>4. CASE ~(v > 0)
    <2>1. PICK b : b = IF m.type = Return THEN ArgsRet(RetArgs(m.body)) ELSE m.body
      OBVIOUS
    <2>2. b \in Seq(Nat) /\ (m.type = Return => b \in Returns)
      BY <1>1, <1>2, <2>1, ReturnsAreWords
    <2>3. Shown(m, v) = [m EXCEPT !.service = 1, !.body = b]
      BY <1>1, <1>4, <2>1 DEF Shown
    <2>4. PICK t : t = Shown(m, v)
      OBVIOUS
    <2>5. /\ t \in [type : {Function, QtRpc, Event, Return}, id : Nat, service : Nat, body : Seq(Nat)]
          /\ t.type = m.type /\ t.body = b
      <3>1. m.type \in {Function, QtRpc, Event, Return} /\ m.id \in Nat
        BY <1>1
      <3>2. PICK u : u = [m EXCEPT !.service = 1]
        OBVIOUS
      <3>3. /\ u \in [type : {Function, QtRpc, Event, Return}, id : Nat, service : Nat, body : Seq(Nat)]
            /\ u.type = m.type /\ t = [u EXCEPT !.body = b]
        BY <1>1, <2>3, <2>4, <3>2
      <3> QED
        BY <2>2, <3>3
    <2>6. t \in AnyMessage
      BY <2>2, <2>5 DEF AnyMessage
    <2> QED
      BY <2>1, <2>4, <2>5, <2>6
  <1> QED
    BY <1>3, <1>4

\* The messages looked at are messages, and one of them only changes the version.
LEMMA Samples ==
  ASSUME FrameType, NEW m, NEW d \in {"toServer", "toClient"},
         m \in MessagesOf(d) \/ m = Switch(target)
  PROVE  /\ m \in AnyMessage /\ m.id # Magic
         /\ d = "toServer" => m.type \in {Function, QtRpc}
         /\ m = Switch(target) => m.type = QtRpc /\ WordAt(m.body, 1) = SetVersion
                                  /\ WordAt(m.body, 3) = target
         /\ m \in MessagesOf(d) /\ m.type = QtRpc => WordAt(m.body, 1) # SetVersion
  <1> DEFINE Good(x) == /\ x \in AnyMessage /\ x.id # Magic
                        /\ d = "toServer" => x.type \in {Function, QtRpc}
  <1>1. CASE m = Switch(target)
    <2>1. m = [type |-> 1, id |-> 0, service |-> 0, body |-> <<9, 1, target>>] /\ target \in Nat
      BY <1>1 DEF Switch, Message, FrameType, QtRpc, SetVersion
    <2>2. m.body = <<9, 1, target>> /\ m.body \in Seq(Nat) /\ Len(m.body) = 3 /\ m.body[1] = 9 /\ m.body[3] = target
      BY <2>1
    <2>3. m.type = QtRpc /\ WordAt(m.body, 1) = SetVersion /\ WordAt(m.body, 3) = target /\ m.id # Magic
      BY <2>1, <2>2 DEF WordAt, QtRpc, SetVersion, Magic
    <2>4. m \in AnyMessage
      BY <2>1, <2>2 DEF AnyMessage, Function, QtRpc, Event, Return
    <2>5. m \notin MessagesOf(d)
      <3>1. ASSUME NEW x \in MessagesOf(d) PROVE x.type # 1 \/ x.body[1] # 9
        BY DEF MessagesOf, ClientMessages, ServerMessages, Message, Function, QtRpc, Event, Return, Signature
      <3> QED
        BY <2>1, <2>2, <3>1
    <2> QED
      BY <2>3, <2>4, <2>5
  <1>2. CASE m \in MessagesOf(d)
    <2>1. ASSUME NEW b, m = Message(Function, 5, 2, b), b = <<Signature, 1, 6>>
          PROVE  Good(m) /\ m.type # QtRpc
      BY <2>1 DEF Message, AnyMessage, Function, QtRpc, Event, Return, Signature, Magic
    <2>2. ASSUME NEW b, m = Message(QtRpc, 4, 0, b), b = <<Signature, 0>>
          PROVE  Good(m) /\ WordAt(m.body, 1) # SetVersion
      BY <2>2 DEF Message, AnyMessage, Function, QtRpc, Event, Return, Signature, SetVersion, Magic, WordAt
    <2>3. ASSUME NEW b, m = Message(Event, 0, 2, b), b = <<Signature, 0>>, d = "toClient"
          PROVE  Good(m) /\ m.type # QtRpc
      BY <2>3 DEF Message, AnyMessage, Function, QtRpc, Event, Return, Signature, Magic
    <2>4. ASSUME NEW b \in Returns, m = Message(Return, 5, 0, b), d = "toClient"
          PROVE  Good(m) /\ m.type # QtRpc
      <3>1. b \in Seq(Nat)
        BY ReturnsAreWords
      <3> QED
        BY <2>4, <3>1 DEF Message, AnyMessage, Function, QtRpc, Event, Return, Magic
    <2>5. RetError(1, 7) \in Returns /\ RetService(3) \in Returns
      BY DEF Returns
    <2>6. m # Switch(target)
      BY <2>1, <2>2, <2>3, <2>4, <2>5, <1>2 DEF MessagesOf, ClientMessages, ServerMessages, Switch, Message, WordAt,
         QtRpc, SetVersion, Signature, Function, Event, Return
    <2> QED
      BY <1>2, <2>1, <2>2, <2>3, <2>4, <2>5, <2>6 DEF MessagesOf, ClientMessages, ServerMessages
  <1> QED
    BY <1>1, <1>2
\* A message with its size in front.
LEMMA Framed ==
  ASSUME NEW x \in Outgoing
  PROVE  /\ Words(x) \in Seq(Nat) /\ Len(Words(x)) \in Nat /\ Len(Words(x)) >= 2
         /\ Frame(Words(x)) \in Seq(Nat) /\ Len(Frame(Words(x))) = Len(Words(x)) + 2
         /\ Decode(Words(x), x.v) = Shown(x.m, x.v)
  <1>1. x.m \in AnyMessage /\ x.v \in 0 .. 2
    BY DEF Outgoing
  <1>2. PICK e : e = Words(x)
    OBVIOUS
  <1>3. e \in Seq(Nat) /\ Len(e) >= 2 /\ Decode(e, x.v) = Shown(x.m, x.v)
    BY <1>1, <1>2, ReadInItsVersion DEF Words
  <1>4. Frame(e) \in Seq(Nat) /\ Len(Frame(e)) = Len(e) + 2
    <2>1. <<0, Len(e)>> \in Seq(Nat) /\ Len(<<0, Len(e)>>) = 2 /\ Len(e) \in Nat
      BY <1>3
    <2>2. /\ <<0, Len(e)>> \o e \in Seq(Nat)
          /\ Len(<<0, Len(e)>> \o e) = Len(<<0, Len(e)>>) + Len(e)
      BY <1>3, <2>1, ConcatProperties
    <2> QED
      BY <2>1, <2>2 DEF Frame
  <1> QED
    BY <1>2, <1>3, <1>4

\* What the reader holds of a message is a stream too.
LEMMA PartialWords ==
  ASSUME FrameType
  PROVE  Partial \in Seq(Nat) /\ Stream \in Seq(Nat)
  <1>1. <<0, total>> \in Seq(Nat) /\ buffer \in Seq(Nat) /\ avail \in Seq(Nat) /\ net \in Seq(Nat)
    BY DEF FrameType
  <1>2. <<0, total>> \o buffer \in Seq(Nat) /\ avail \o net \in Seq(Nat)
    BY <1>1, ConcatProperties
  <1>3. Partial \in Seq(Nat)
    BY <1>2 DEF Partial
  <1> QED
    BY <1>2, <1>3, ConcatProperties DEF Stream

\* A message goes into the stream behind the others.
LEMMA WriteKeeps ==
  ASSUME FrameInv, FrameType', NEW m, Write(m),
         \/ m \in MessagesOf(dir) /\ UNCHANGED <<wver, asked>>
            /\ (dir = "toServer" /\ asked /\ wver = 0 => target # 1)
         \/ m = Switch(target) /\ ~asked /\ asked' = TRUE
            /\ wver' = IF dir = "toClient" THEN target ELSE wver
  PROVE  FrameInv'
  <1>1. PICK w \in Seq(Outgoing), p \in Nat, lost \in Seq(Nat) :
          InFormat(w, p) /\ \E rem \in [1 .. Len(w) + 1 -> Seq(Nat)] : Carried(w, rem, lost)
    BY DEF FrameInv
  <1>2. PICK rem \in [1 .. Len(w) + 1 -> Seq(Nat)] : Carried(w, rem, lost)
    BY <1>1
  <1>3. /\ open /\ UNCHANGED <<dir, target, rver, avail, total, buffer, looping, got, open>>
        /\ sent' = Append(sent, Shown(m, wver))
        /\ net' = net \o Frame(Encode(m, wver))
    BY DEF Write, readerVars
  <1>4. PICK x : x = [m |-> m, v |-> wver]
    OBVIOUS
  <1>5. x \in Outgoing /\ x.m = m /\ x.v = wver
    <2>1. m \in AnyMessage
      BY Samples DEF FrameInv, FrameType
    <2>2. wver \in 0 .. 2
      BY <1>1 DEF FrameInv, FrameType, InFormat
    <2> QED
      BY <1>4, <2>1, <2>2 DEF Outgoing
  <1>6. PICK F : F = Frame(Words(x))
    OBVIOUS
  <1>7. F \in Seq(Nat) /\ net' = net \o F
    BY <1>3, <1>5, <1>6, Framed DEF Words
  <1>8. PICK n \in Nat : n = Len(w)
    OBVIOUS
  <1>a. PICK w2 : w2 = Append(w, x)
    OBVIOUS
  <1>b. PICK p2 : p2 = IF m = Switch(target) /\ ~asked THEN n + 1 ELSE p
    OBVIOUS
  <1>c. PICK rem2 : rem2 = [i \in 1 .. n + 2 |-> IF i = n + 2 THEN <<>> ELSE rem[i] \o F]
    OBVIOUS
  <1>9. /\ w2 \in Seq(Outgoing) /\ Len(w2) = n + 1 /\ w2[n + 1] = x
        /\ \A i \in 1 .. n : w2[i] = w[i]
    BY <1>5, <1>8, <1>a
  <1>10. /\ rem2 \in [1 .. n + 2 -> Seq(Nat)] /\ rem2[n + 2] = <<>>
         /\ \A i \in 1 .. n + 1 : rem2[i] = rem[i] \o F /\ rem[i] \in Seq(Nat)
    <2>1. ASSUME NEW i \in 1 .. n + 1
          PROVE  rem[i] \in Seq(Nat) /\ rem[i] \o F \in Seq(Nat)
      BY <1>7, <1>8, ConcatProperties
    <2>2. <<>> \in Seq(Nat) /\ n + 2 \in 1 .. n + 2
      OBVIOUS
    <2>3. ASSUME NEW i \in 1 .. n + 2
          PROVE  (IF i = n + 2 THEN <<>> ELSE rem[i] \o F) \in Seq(Nat)
      <3>1. i = n + 2 \/ i \in 1 .. n + 1
        OBVIOUS
      <3> QED
        BY <2>1, <2>2, <3>1
    <2>4. \A i \in 1 .. n + 1 : i \in 1 .. n + 2 /\ i # n + 2
      OBVIOUS
    <2> QED
      BY <1>c, <2>1, <2>2, <2>3, <2>4
  <1>11. /\ lost = <<>> /\ Len(sent) = n /\ Len(got) <= n /\ Len(got) \in Nat
         /\ \A i \in 1 .. n : /\ sent[i] = Shown(w[i].m, w[i].v) /\ w[i] \in Outgoing
                              /\ rem[i] = Frame(Words(w[i])) \o rem[i + 1]
         /\ rem[n + 1] = <<>> /\ rem[Len(got) + 1] = Stream \o lost
    <2>1. got \in Seq(AnyMessage)
      BY DEF FrameInv, FrameType
    <2>2. \A i \in 1 .. n : w[i] \in Outgoing
      BY <1>8
    <2>3. /\ open => lost = <<>>
          /\ Len(sent) = Len(w) /\ Len(got) <= Len(w)
          /\ \A i \in 1 .. Len(w) : /\ sent[i] = Shown(w[i].m, w[i].v)
                                    /\ rem[i] = Frame(Words(w[i])) \o rem[i + 1]
          /\ rem[Len(w) + 1] = <<>>
          /\ rem[Len(got) + 1] = Stream \o lost
      BY <1>2 DEF Carried
    <2>4. Len(got) \in Nat
      BY <2>1
    <2> QED
      BY <1>3, <1>8, <2>2, <2>3, <2>4
  <1>12. Carried(w2, rem2, <<>>)'
    <2>1. Len(sent') = n + 1 /\ sent'[n + 1] = Shown(m, wver) /\ \A i \in 1 .. n : sent'[i] = sent[i]
      <3>1. sent \in Seq(AnyMessage) /\ Shown(m, wver) \in AnyMessage
        BY <1>5, ShownOf DEF FrameInv, FrameType, Outgoing
      <3> QED
        <4>1. PICK g \in AnyMessage : g = Shown(m, wver)
          BY <3>1
        <4>2. sent' = Append(sent, g) /\ Len(sent) = n
          BY <1>3, <1>11, <4>1
        <4> QED
          BY <3>1, <4>1, <4>2
    <2>2. ASSUME NEW i \in 1 .. n + 1
          PROVE  /\ sent'[i] = Shown(w2[i].m, w2[i].v)
                 /\ rem2[i] = Frame(Words(w2[i])) \o rem2[i + 1]
      <3>1. CASE i = n + 1
        <4>1. rem2[i] = F /\ rem2[i + 1] = <<>>
          <5>1. n + 1 \in 1 .. n + 1 /\ n + 1 + 1 = n + 2 /\ <<>> \o F = F
            BY <1>7, ConcatEmptySeq
          <5> QED
            BY <1>10, <1>11, <3>1, <5>1
        <4>2. F \o <<>> = F
          BY <1>7, ConcatEmptySeq
        <4> QED
          BY <1>5, <1>6, <1>9, <2>1, <3>1, <4>1, <4>2
      <3>2. CASE i # n + 1
        <4>1. i \in 1 .. n /\ i + 1 \in 1 .. n + 1 /\ w2[i] = w[i] /\ sent'[i] = sent[i]
          BY <1>9, <2>1, <3>2
        <4>2. PICK G : G = Frame(Words(w[i]))
          OBVIOUS
        <4>3. /\ G \in Seq(Nat) /\ rem[i] = G \o rem[i + 1] /\ rem[i + 1] \in Seq(Nat)
              /\ rem2[i] = rem[i] \o F /\ rem2[i + 1] = rem[i + 1] \o F
          BY <1>10, <1>11, <4>1, <4>2, Framed
        <4>4. (G \o rem[i + 1]) \o F = G \o (rem[i + 1] \o F)
          <5>1. PICK u : u = rem[i + 1]
            OBVIOUS
          <5>2. u \in Seq(Nat)
            BY <4>3, <5>1
          <5>3. (G \o u) \o F = G \o (u \o F)
            <6>1. Join(Join(G, u), F) = Join(G, Join(u, F))
              BY <1>7, <4>3, <5>2, Joins
            <6> QED
              BY <6>1 DEF Join
          <5> QED
            BY <5>1, <5>3
        <4> QED
          BY <1>11, <4>1, <4>2, <4>3, <4>4
      <3> QED
        BY <3>1, <3>2
    <2>3. Stream' = Stream \o F
      <3>1. Partial \in Seq(Nat) /\ avail \in Seq(Nat) /\ net \in Seq(Nat)
        BY PartialWords DEF FrameInv, FrameType
      <3>2. Partial \o (avail \o (net \o F)) = (Partial \o (avail \o net)) \o F
        <4>1. Join(Partial, Join(avail, Join(net, F))) = Join(Join(Partial, Join(avail, net)), F)
          BY <1>7, <3>1, Joins
        <4> QED
          BY <4>1 DEF Join
      <3>3. Partial' = Partial
        BY <1>3 DEF Partial
      <3> QED
        BY <1>3, <1>7, <3>2, <3>3 DEF Stream
    <2>4. rem2[Len(got) + 1] = Stream' \o <<>>
      <3>1. Len(got) + 1 \in 1 .. n + 1
        BY <1>8, <1>11
      <3>2. Stream \in Seq(Nat) /\ Stream' \in Seq(Nat) /\ Stream \o <<>> = Stream /\ Stream' \o <<>> = Stream'
        <4>1. Stream \in Seq(Nat) /\ Stream' \in Seq(Nat)
          BY <1>7, <2>3, PartialWords, ConcatProperties DEF FrameInv
        <4> QED
          BY <4>1, ConcatEmptySeq
      <3> QED
        BY <1>10, <1>11, <2>3, <3>1, <3>2
    <2>5. n + 1 + 1 = n + 2 /\ Len(sent') = Len(w2) /\ Len(got') <= Len(w2) /\ got' = got
      BY <1>3, <1>9, <1>11, <2>1
    <2> QED
      <3>1. /\ rem2 \in [1 .. Len(w2) + 1 -> Seq(Nat)] /\ <<>> \in Seq(Nat) /\ rem2[Len(w2) + 1] = <<>>
            /\ \A i \in 1 .. Len(w2) : /\ sent'[i] = Shown(w2[i].m, w2[i].v)
                                       /\ rem2[i] = Frame(Words(w2[i])) \o rem2[i + 1]
        <4>1. <<>> \in Seq(Nat) /\ Len(w2) + 1 = n + 2 /\ Len(w2) = n + 1
          BY <1>9, <2>5
        <4> QED
          BY <1>10, <2>2, <4>1
      <3> QED
        BY <1>9, <2>4, <2>5, <3>1 DEF Carried
  <1>13. InFormat(w2, p2)' /\ p2 \in Nat
    <2>1. /\ p \in 0 .. n /\ (p = 0 <=> ~asked) /\ wver \in {0, target} /\ (~asked => wver = 0)
          /\ dir = "toClient" /\ asked => wver = target
          /\ rver = ReadAs(p, Len(got) + 1)
          /\ \A i \in 1 .. n : /\ w[i].m \in IF i = p THEN {Switch(target)} ELSE MessagesOf(dir)
                               /\ Fits(w[i].v, ReadAs(p, i))
      BY <1>1, <1>8 DEF InFormat
    <2>2. /\ dir \in {"toServer", "toClient"} /\ target' = target /\ dir' = dir
          /\ got' = got /\ rver' = rver
          /\ \A i : ReadAs(p2, i)' = ReadAs(p2, i)
          /\ \A v, r : Fits(v, r)' = Fits(v, r)
      <3>1. dir \in {"toServer", "toClient"}
        BY DEF FrameInv, FrameType
      <3>2. ASSUME NEW i PROVE ReadAs(p2, i)' = ReadAs(p2, i)
        BY <1>3 DEF ReadAs
      <3>3. ASSUME NEW v, NEW r PROVE Fits(v, r)' = Fits(v, r)
        BY <1>3 DEF Fits
      <3> QED
        BY <1>3, <3>1, <3>2, <3>3
    <2>3. CASE m \in MessagesOf(dir) /\ UNCHANGED <<wver, asked>>
               /\ (dir = "toServer" /\ asked /\ wver = 0 => target # 1)
      <3>1. p2 = p
        <4>1. ASSUME m = Switch(target) PROVE FALSE
          <5>1. m.type = QtRpc /\ WordAt(m.body, 1) = SetVersion
            BY <2>2, <4>1, Samples DEF FrameInv
          <5> QED
            BY <2>2, <2>3, <5>1, Samples DEF FrameInv
        <4> QED
          BY <1>b, <4>1
      <3>2. n + 1 # p /\ Fits(wver, ReadAs(p, n + 1))
        BY <1>8, <2>1, <2>2, <2>3 DEF Fits, ReadAs
      <3>3. ASSUME NEW i \in 1 .. n + 1
            PROVE  /\ w2[i].m \in IF i = p THEN {Switch(target)} ELSE MessagesOf(dir)
                   /\ Fits(w2[i].v, ReadAs(p, i))
        <4>1. CASE i = n + 1
          BY <1>5, <1>9, <2>3, <3>2, <4>1
        <4>2. CASE i # n + 1
          <5>1. i \in 1 .. n
            BY <4>2
          <5> QED
            BY <1>9, <2>1, <5>1
        <4> QED
          BY <4>1, <4>2
      <3>4. /\ p2 \in 0 .. Len(w2) /\ (p2 = 0 <=> ~asked') /\ wver' \in {0, target} /\ (~asked' => wver' = 0)
            /\ dir = "toClient" /\ asked' => wver' = target
            /\ rver' = ReadAs(p2, Len(got') + 1)
        BY <1>9, <2>1, <2>2, <2>3, <3>1
      <3>5. MessagesOf(dir)' = MessagesOf(dir) /\ Switch(target)' = Switch(target)
        BY <2>2
      <3> QED
        BY <1>9, <2>2, <3>1, <3>3, <3>4, <3>5 DEF InFormat
    <2>4. CASE m = Switch(target) /\ ~asked /\ asked' = TRUE
               /\ wver' = IF dir = "toClient" THEN target ELSE wver
      <3>1. p2 = n + 1 /\ p = 0 /\ wver = 0
        BY <1>b, <2>1, <2>4
      <3>2. \A i \in 1 .. n + 1 : ReadAs(p2, i) = 0 /\ ReadAs(p, i) = 0
        BY <3>1 DEF ReadAs
      <3>3. ASSUME NEW i \in 1 .. n + 1
            PROVE  /\ w2[i].m \in IF i = p2 THEN {Switch(target)} ELSE MessagesOf(dir)
                   /\ Fits(w2[i].v, ReadAs(p2, i))
        <4>1. CASE i = n + 1
          BY <1>5, <1>9, <2>4, <3>1, <3>2, <4>1 DEF Fits
        <4>2. CASE i # n + 1
          <5>1. i \in 1 .. n /\ i # p /\ i # p2
            BY <3>1, <4>2
          <5> QED
            BY <1>9, <2>1, <3>2, <5>1
        <4> QED
          BY <4>1, <4>2
      <3>4. rver' = ReadAs(p2, Len(got) + 1)
        <4>1. Len(got) + 1 \in 1 .. n + 1
          BY <1>8, <1>11
        <4> QED
          BY <2>1, <2>2, <3>2, <4>1
      <3> QED
        <4>1. /\ p2 \in 0 .. Len(w2) /\ (p2 = 0 <=> ~asked') /\ wver' \in {0, target} /\ (~asked' => wver' = 0)
              /\ dir = "toClient" /\ asked' => wver' = target
              /\ rver' = ReadAs(p2, Len(got') + 1)
          BY <1>9, <2>1, <2>2, <2>4, <3>1, <3>4
        <4>2. MessagesOf(dir)' = MessagesOf(dir) /\ Switch(target)' = Switch(target)
          BY <2>2
        <4> QED
          BY <1>9, <2>2, <3>1, <3>3, <4>1, <4>2 DEF InFormat
    <2> QED
      BY <2>3, <2>4, <2>1, <1>8, <1>b
  <1>14. n + 2 = Len(w2) + 1 /\ <<>> \in Seq(Nat)
    BY <1>8, <1>9
  <1>15. /\ InFormat(w2, p2)' /\ Carried(w2, rem2, <<>>)' /\ rem2 \in [1 .. Len(w2) + 1 -> Seq(Nat)]
    BY <1>10, <1>12, <1>13, <1>14
  <1>16. \E r \in [1 .. Len(w2) + 1 -> Seq(Nat)] : Carried(w2, r, <<>>)'
    BY <1>15
  <1> QED
    BY <1>9, <1>13, <1>14, <1>15, <1>16 DEF FrameInv
\* ReadSome's size, have and rest
SizeNow == IF total = 0 THEN WordAt(avail, 2) ELSE total
HaveNow == IF total = 0 THEN <<>> ELSE buffer
RestNow == IF total = 0 THEN From(avail, 3) ELSE avail

\* Wherever the stream was cut: what the reader goes on with is the rest of the
\* next message, and the size it has is that of this message.
LEMMA NextMessage ==
  ASSUME FrameType, Loops, NEW w, NEW rem, NEW lost, Carried(w, rem, lost)
  PROVE  /\ Len(got) < Len(w) /\ HaveNow \in Seq(Nat) /\ RestNow \in Seq(Nat)
         /\ SizeNow = Len(Words(w[Len(got) + 1])) /\ Len(HaveNow) < SizeNow
         /\ Join(HaveNow, Join(RestNow, Join(net, lost)))
              = Join(Words(w[Len(got) + 1]), rem[Len(got) + 2])
         /\ rem[Len(got) + 1] = Join(<<0, SizeNow>>, Join(HaveNow, Join(RestNow, Join(net, lost))))
  <1>a. PICK size : size = SizeNow
    OBVIOUS
  <1>b. PICK have : have = HaveNow
    OBVIOUS
  <1>c. PICK rest : rest = RestNow
    OBVIOUS
  <1>d. /\ size = IF total = 0 THEN WordAt(avail, 2) ELSE total
        /\ have = IF total = 0 THEN <<>> ELSE buffer
        /\ rest = IF total = 0 THEN From(avail, 3) ELSE avail
    BY <1>a, <1>b, <1>c DEF SizeNow, HaveNow, RestNow
  <1>e. avail # <<>> /\ (total = 0 => Len(avail) >= 2)
    BY DEF Loops
  <1>1. PICK n \in Nat : n = Len(got)
    BY DEF FrameType
  <1>2. PICK Z \in Seq(Nat) : Z = Join(net, lost)
    BY Joins DEF FrameType, Carried
  <1>3. /\ avail \in Seq(Nat) /\ net \in Seq(Nat) /\ buffer \in Seq(Nat) /\ lost \in Seq(Nat)
        /\ total \in Nat /\ Partial \in Seq(Nat) /\ Len(avail) \in Nat
    BY PartialWords DEF FrameType, Carried
  <1>4. rem[n + 1] = Join(Join(Partial, Join(avail, net)), lost)
    BY <1>1 DEF Carried, Stream, Join
  <1>5. rem[n + 1] = Join(Partial, Join(avail, Z))
    BY <1>2, <1>3, <1>4, Joins
  <1>6. PICK h \in Seq(Nat) :
          /\ have \in Seq(Nat) /\ rest \in Seq(Nat) /\ Len(h) = 2 /\ size = h[2]
          /\ rem[n + 1] = Join(h, Join(have, Join(rest, Z)))
          /\ total > 0 => Len(have) < size
          /\ total = 0 => Len(have) = 0
    <2>1. CASE total = 0
      <3>2. 2 \in 0 .. Len(avail) /\ 2 + 1 = 3
        BY <1>3, <1>e, <2>1
      <3>a. /\ SubSeq(avail, 1, 2) \in Seq(Nat) /\ Len(SubSeq(avail, 1, 2)) = 2
            /\ From(avail, 2 + 1) \in Seq(Nat)
            /\ avail = Join(SubSeq(avail, 1, 2), From(avail, 2 + 1))
        BY <1>3, <3>2, Parted DEF Join
      <3>1. PICK h \in Seq(Nat) : h = SubSeq(avail, 1, 2)
        BY <3>a
      <3>3. rest \in Seq(Nat) /\ Len(h) = 2 /\ avail = Join(h, rest)
        BY <1>d, <2>1, <3>1, <3>2, <3>a
      <3>4. size = h[2]
        <4>1. WordAt(avail, 2) = avail[2]
          BY <1>3, <3>2 DEF WordAt
        <4>2. SubSeq(avail, 1, 2)[2] = avail[2]
          BY <1>3, <3>2
        <4> QED
          BY <1>d, <2>1, <3>1, <4>1, <4>2
      <3>5. have = <<>> /\ have \in Seq(Nat) /\ Len(have) = 0
        BY <1>d, <2>1
      <3>6. Join(Partial, Join(avail, Z)) = Join(avail, Z) /\ Join(have, Join(rest, Z)) = Join(rest, Z)
        <4>1. Join(avail, Z) \in Seq(Nat) /\ Join(rest, Z) \in Seq(Nat)
          BY <1>3, <3>3, Joins
        <4>2. \A s \in Seq(Nat) : Join(<<>>, s) = s
          BY ConcatEmptySeq DEF Join
        <4>3. Partial = <<>>
          BY <2>1 DEF Partial
        <4> QED
          BY <3>5, <4>1, <4>2, <4>3
      <3>7. Join(avail, Z) = Join(h, Join(rest, Z))
        <4>1. Join(Join(h, rest), Z) = Join(h, Join(rest, Z))
          BY <3>3, Joins
        <4> QED
          BY <3>3, <4>1
      <3> QED
        BY <1>5, <2>1, <3>3, <3>4, <3>5, <3>6, <3>7
    <2>2. CASE total # 0
      <3>0. <<0, total>> \in Seq(Nat)
        BY <1>3
      <3>1. PICK h \in Seq(Nat) : h = <<0, total>>
        BY <3>0
      <3>2. Len(h) = 2 /\ h[2] = total
        BY <3>1
      <3>3. Partial = Join(h, buffer)
        BY <2>2, <3>1 DEF Partial, Join
      <3>4. Join(Partial, Join(avail, Z)) = Join(h, Join(buffer, Join(avail, Z)))
        BY <1>3, <3>3, Joins
      <3>5. have = buffer /\ rest = avail /\ size = total
        BY <1>d, <2>2
      <3>6. Len(buffer) < total
        BY <1>3, <2>2 DEF FrameType
      <3> QED
        BY <1>3, <1>5, <2>2, <3>2, <3>4, <3>5, <3>6
    <2> QED
      BY <2>1, <2>2
  <1>7. PICK R \in Seq(Nat) : R = Join(have, Join(rest, Z))
    BY <1>6, Joins
  <1>8. n < Len(w) /\ Len(w) \in Nat
    <2>1. Len(w) \in Nat /\ n <= Len(w) /\ rem[Len(w) + 1] = <<>>
      BY <1>1 DEF Carried
    <2>2. ASSUME n = Len(w) PROVE FALSE
      <3>1. Join(h, R) = <<>>
        BY <1>6, <1>7, <2>1, <2>2
      <3>2. h = <<>>
        BY <3>1, ConcatEqualIffEmpty DEF Join
      <3> QED
        BY <1>6, <3>2
    <2> QED
      BY <1>1, <2>1, <2>2
  <1>9. PICK e \in Seq(Nat) : e = Words(w[n + 1]) /\ Len(e) \in Nat /\ Len(e) >= 2
                              /\ rem[n + 1] = Frame(e) \o rem[n + 2] /\ rem[n + 2] \in Seq(Nat)
    <2>1. n + 1 \in 1 .. Len(w) /\ n + 1 + 1 = n + 2 /\ n + 2 \in 1 .. Len(w) + 1
      BY <1>8
    <2>2. w[n + 1] \in Outgoing
      BY <2>1 DEF Carried
    <2>3. rem[n + 2] \in Seq(Nat) /\ rem[n + 1] = Frame(Words(w[n + 1])) \o rem[n + 2]
      BY <2>1 DEF Carried
    <2> QED
      BY <2>2, <2>3, Framed
  <1>10. PICK f \in Seq(Nat) : f = <<0, Len(e)>> /\ Len(f) = 2 /\ f[2] = Len(e)
    <2>1. /\ <<0, Len(e)>> \in Seq(Nat) /\ Len(<<0, Len(e)>>) = 2
          /\ <<0, Len(e)>>[2] = Len(e)
      BY <1>9
    <2> QED
      BY <2>1
  <1>11. Join(h, R) = Join(f, Join(e, rem[n + 2]))
    <2>1. rem[n + 1] = Join(Join(f, e), rem[n + 2])
      BY <1>9, <1>10 DEF Join, Frame
    <2>2. Join(Join(f, e), rem[n + 2]) = Join(f, Join(e, rem[n + 2]))
      <3>1. PICK r \in Seq(Nat) : r = rem[n + 2]
        BY <1>9
      <3>2. Join(Join(f, e), r) = Join(f, Join(e, r))
        BY Joins
      <3> QED
        BY <3>1, <3>2
    <2> QED
      BY <1>6, <1>7, <2>1, <2>2
  <1>12. h = f /\ R = Join(e, rem[n + 2])
    <2>1. PICK T \in Seq(Nat) : T = Join(e, rem[n + 2])
      BY <1>9, Joins
    <2>2. Join(h, R) = Join(f, T)
      BY <1>11, <2>1
    <2>3. Len(h) = Len(f)
      BY <1>6, <1>10
    <2>4. h = f /\ R = T
      BY <2>2, <2>3, SameHead
    <2> QED
      BY <2>1, <2>4
  <1>13. size = Len(e) /\ f = <<0, size>>
    BY <1>6, <1>10, <1>12
  <1>14. Len(have) < size
    BY <1>3, <1>6, <1>9, <1>13
  <1> QED
    BY <1>1, <1>2, <1>6, <1>7, <1>8, <1>9, <1>12, <1>13, <1>14, <1>a, <1>b, <1>c
-----------------------------------------------------------------------------
(* Reading.                                                                 *)

ReaderSees(words) == IF dir = "toClient" THEN ClientSees(words) ELSE ServerSees(words)

\* Whatever the two ends have agreed on by then, the message that is next is read
\* as the version it was written in shows it.
LEMMA SeenAsWritten ==
  ASSUME FrameType, NEW w \in Seq(Outgoing), NEW p \in Nat, InFormat(w, p), Len(got) < Len(w)
  PROVE  LET x == w[Len(got) + 1] IN ReaderSees(Words(x)) = Shown(x.m, x.v)
  <1>1. PICK i \in 1 .. Len(w) : i = Len(got) + 1
    BY DEF FrameType
  <1>2. PICK x \in Outgoing : x = w[i]
    BY <1>1
  <1>3. /\ dir \in {"toServer", "toClient"} /\ target \in 0 .. 2 /\ rver = ReadAs(p, i)
        /\ Fits(x.v, rver)
        /\ x.m \in MessagesOf(dir) \/ x.m = Switch(target)
    BY <1>1, <1>2 DEF FrameType, InFormat
  <1>4. PICK m, v : m = x.m /\ v = x.v
    OBVIOUS
  <1>5. m \in AnyMessage /\ v \in 0 .. 2 /\ rver \in 0 .. 2
    BY <1>2, <1>3, <1>4 DEF Outgoing, ReadAs
  <1>6. m.id # Magic /\ (dir = "toServer" => m.type \in {Function, QtRpc})
    BY <1>3, <1>4, Samples
  <1>7. Decode(Words(x), v) = Shown(m, v) /\ Shown(m, v).type = m.type
    BY <1>2, <1>4, <1>5, Framed, ShownOf
  <1>8. CASE dir = "toClient"
    <2>1. rver = v
      BY <1>3, <1>4, <1>8 DEF Fits
    <2> QED
      BY <1>1, <1>2, <1>4, <1>7, <1>8, <2>1 DEF ReaderSees, ClientSees
  <1>9. CASE dir = "toServer"
    <2>1. CASE rver = v
      BY <1>1, <1>2, <1>4, <1>6, <1>7, <1>9, <2>1 DEF ReaderSees, ServerSees
    <2>2. CASE rver # v
      <3>1. v = 0 /\ rver = 2
        BY <1>3, <1>4, <1>5, <2>2 DEF Fits
      <3>2. Decode(Words(x), 2) = NoMessage
        BY <1>4, <1>5, <1>6, <3>1, OldTold DEF Words
      <3>3. NoMessage.type \notin {Function, QtRpc, Return}
        BY DEF NoMessage, Message, Invalid, Function, QtRpc, Return
      <3> QED
        BY <1>1, <1>2, <1>4, <1>7, <1>9, <3>1, <3>2, <3>3 DEF ReaderSees, ServerSees
    <2> QED
      BY <2>1, <2>2
  <1> QED
    BY <1>3, <1>8, <1>9

\* Once around the loop: the stream is the same, a message shorter when one is complete.
LEMMA ReadKeeps ==
  ASSUME FrameInv, ReadSome(ReaderSees)
  PROVE  /\ FrameInv'
         /\ \/ got' = got
            \/ Len(got) < Len(sent) /\ got' = Append(got, sent[Len(got) + 1])
  <1>1. PICK w \in Seq(Outgoing), p \in Nat, lost \in Seq(Nat) :
          InFormat(w, p) /\ \E rem \in [1 .. Len(w) + 1 -> Seq(Nat)] : Carried(w, rem, lost)
    BY DEF FrameInv
  <1>2. PICK rem \in [1 .. Len(w) + 1 -> Seq(Nat)] : Carried(w, rem, lost)
    BY <1>1
  <1>3. PICK size : size = SizeNow
    OBVIOUS
  <1>4. PICK have : have = HaveNow
    OBVIOUS
  <1>5. PICK rest : rest = RestNow
    OBVIOUS
  <1>6. PICK k : k = Lower(size - Len(have), Len(rest))
    OBVIOUS
  <1>7. PICK piece : piece = SubSeq(rest, 1, k)
    OBVIOUS
  <1>8. PICK all : all = have \o piece
    OBVIOUS
  <1>9. /\ Loops /\ buffer' = all /\ avail' = From(rest, Len(piece) + 1)
        /\ UNCHANGED <<dir, target, wver, asked, sent, net, open>>
        /\ \/ Len(all) < size /\ total' = size /\ UNCHANGED <<got, rver, looping>>
           \/ Len(all) >= size /\ total' = 0 /\ Handle(ReaderSees(all))
    BY <1>3, <1>4, <1>5, <1>6, <1>7, <1>8 DEF ReadSome, writerVars, SizeNow, HaveNow, RestNow
  <1>10. PICK n \in Nat : n = Len(got)
    BY DEF FrameInv, FrameType
  <1>11. PICK x : x = w[n + 1]
    OBVIOUS
  <1>12. PICK e : e = Words(x)
    OBVIOUS
  <1>13. PICK Z : Z = Join(net, lost)
    OBVIOUS
  <1>14. /\ n < Len(w) /\ have \in Seq(Nat) /\ rest \in Seq(Nat) /\ size = Len(e) /\ Len(have) < size
         /\ Join(have, Join(rest, Z)) = Join(e, rem[n + 2])
         /\ rem[n + 1] = Join(<<0, size>>, Join(have, Join(rest, Z)))
    <2>1. FrameType /\ Loops
      BY <1>9 DEF FrameInv
    <2>2. /\ Len(got) < Len(w) /\ have \in Seq(Nat) /\ rest \in Seq(Nat)
          /\ size = Len(Words(w[Len(got) + 1])) /\ Len(have) < size
          /\ Join(have, Join(rest, Join(net, lost))) = Join(Words(w[Len(got) + 1]), rem[Len(got) + 2])
          /\ rem[Len(got) + 1] = Join(<<0, size>>, Join(have, Join(rest, Join(net, lost))))
      <3>1. /\ Len(got) < Len(w) /\ HaveNow \in Seq(Nat) /\ RestNow \in Seq(Nat)
            /\ SizeNow = Len(Words(w[Len(got) + 1])) /\ Len(HaveNow) < SizeNow
            /\ Join(HaveNow, Join(RestNow, Join(net, lost)))
                 = Join(Words(w[Len(got) + 1]), rem[Len(got) + 2])
            /\ rem[Len(got) + 1] = Join(<<0, SizeNow>>, Join(HaveNow, Join(RestNow, Join(net, lost))))
        BY <1>2, <2>1, NextMessage
      <3> QED
        BY <1>3, <1>4, <1>5, <3>1
    <2> QED
      BY <1>10, <1>11, <1>12, <1>13, <2>2
  <1>15. /\ x \in Outgoing /\ Len(w) \in Nat /\ e \in Seq(Nat) /\ size \in Nat /\ size >= 2
         /\ sent[n + 1] = Shown(x.m, x.v) /\ Len(sent) = Len(w)
         /\ Z \in Seq(Nat) /\ rem[n + 2] \in Seq(Nat) /\ net \in Seq(Nat)
         /\ rem[Len(w) + 1] = <<>> /\ (open => lost = <<>>)
    <2>1. n + 1 \in 1 .. Len(w) /\ n + 2 \in 1 .. Len(w) + 1 /\ Len(w) \in Nat
      BY <1>14
    <2>2. x \in Outgoing
      BY <1>11, <2>1
    <2>3. e \in Seq(Nat) /\ size \in Nat /\ size >= 2
      BY <1>12, <1>14, <2>2, Framed
    <2>4. net \in Seq(Nat) /\ Z \in Seq(Nat)
      BY <1>13, Joins DEF FrameInv, FrameType
    <2> QED
      BY <1>2, <1>11, <2>1, <2>2, <2>3, <2>4 DEF Carried
  <1>16. k \in 0 .. Len(rest) /\ k <= size - Len(have) /\ (k < size - Len(have) => k = Len(rest))
    <2>1. PICK r \in Nat, h \in Nat : r = Len(rest) /\ h = Len(have)
      BY <1>14
    <2>2. k = IF size - h < r THEN size - h ELSE r
      BY <1>6, <2>1 DEF Lower
    <2>3. size \in Nat /\ h < size
      BY <1>14, <1>15, <2>1
    <2>4. k \in 0 .. r /\ k <= size - h /\ (k < size - h => k = r)
      BY <2>2, <2>3
    <2> QED
      BY <2>1, <2>4
  <1>17. PICK after : after = From(rest, k + 1)
    OBVIOUS
  <1>18. /\ piece \in Seq(Nat) /\ Len(piece) = k /\ after \in Seq(Nat) /\ rest = Join(piece, after)
         /\ avail' = after
    BY <1>7, <1>9, <1>14, <1>16, <1>17, Parted DEF Join
  <1>19. all \in Seq(Nat) /\ Len(all) = Len(have) + k /\ all = Join(have, piece)
    <2>1. all = have \o piece
      BY <1>8
    <2> QED
      BY <1>14, <1>18, <2>1, ConcatProperties DEF Join
  <1>20. Join(have, Join(rest, Z)) = Join(all, Join(after, Z))
    <2>1. Join(Join(piece, after), Z) = Join(piece, Join(after, Z))
      BY <1>15, <1>18, Joins
    <2>2. PICK y \in Seq(Nat) : y = Join(after, Z)
      BY <1>15, <1>18, Joins
    <2>3. Join(Join(have, piece), y) = Join(have, Join(piece, y))
      BY <1>14, <1>18, Joins
    <2> QED
      BY <1>18, <1>19, <2>1, <2>2, <2>3
  <1>21. CASE Len(all) < size /\ total' = size /\ UNCHANGED <<got, rver, looping>>
    <2>1. FrameType'
      <3>1. k \in Nat /\ Len(have) \in Nat
        BY <1>14, <1>16
      <3>2. looping
        BY <1>9 DEF Loops
      <3> QED
        BY <1>9, <1>15, <1>18, <1>19, <1>21, <3>2 DEF FrameInv, FrameType
    <2>2. rem[n + 1] = Stream' \o lost
      <3>1. PICK f \in Seq(Nat) : f = <<0, size>>
        <4>1. <<0, size>> \in Seq(Nat)
          BY <1>15
        <4> QED
          BY <4>1
      <3>2. Stream' = Join(Join(f, all), Join(after, net))
        <4>1. total' # 0 /\ total' = size /\ net' = net
          BY <1>9, <1>15, <1>21
        <4> QED
          BY <1>9, <1>18, <3>1, <4>1 DEF Stream, Partial, Join
      <3>3. lost \in Seq(Nat)
        OBVIOUS
      <3>4. Join(Join(Join(f, all), Join(after, net)), lost) = Join(f, Join(all, Join(after, Join(net, lost))))
        <4>1. PICK u \in Seq(Nat) : u = Join(f, all)
          BY <1>19, Joins
        <4>2. Join(Join(u, Join(after, net)), lost) = Join(u, Join(after, Join(net, lost)))
          <5>1. PICK t \in Seq(Nat) : t = Join(after, net)
            BY <1>15, <1>18, Joins
          <5>2. Join(Join(u, t), lost) = Join(u, Join(t, lost))
            BY Joins
          <5>3. Join(Join(after, net), lost) = Join(after, Join(net, lost))
            BY <1>15, <1>18, Joins
          <5> QED
            BY <5>1, <5>2, <5>3
        <4>3. PICK y \in Seq(Nat) : y = Join(after, Z)
          BY <1>15, <1>18, Joins
        <4>4. Join(Join(f, all), y) = Join(f, Join(all, y))
          BY <1>19, Joins
        <4> QED
          BY <1>13, <4>1, <4>2, <4>3, <4>4
      <3> QED
        BY <1>13, <1>14, <1>20, <3>1, <3>2, <3>4 DEF Join
    <2>3. Carried(w, rem, lost)'
      BY <1>2, <1>9, <1>10, <1>21, <2>2 DEF Carried
    <2>4. InFormat(w, p)'
      BY <1>1, <1>9, <1>21 DEF InFormat, ReadAs, Fits
    <2> QED
      BY <1>21, <2>1, <2>3, <2>4 DEF FrameInv
  <1>22. CASE Len(all) >= size /\ total' = 0 /\ Handle(ReaderSees(all))
    <2>1. all = e /\ Join(after, Z) = rem[n + 2]
      <3>1. Len(all) = Len(e)
        BY <1>14, <1>16, <1>19, <1>22
      <3>2. PICK y \in Seq(Nat) : y = Join(after, Z)
        BY <1>15, <1>18, Joins
      <3>3. PICK r \in Seq(Nat) : r = rem[n + 2]
        BY <1>15
      <3>4. Join(all, y) = Join(e, r)
        BY <1>14, <1>20, <3>2, <3>3
      <3>5. all = e /\ y = r
        BY <1>15, <1>19, <3>1, <3>4, SameHead
      <3> QED
        BY <3>2, <3>3, <3>5
    <2>2. PICK m : m = Shown(x.m, x.v)
      OBVIOUS
    <2>3. ReaderSees(all) = m
      BY <1>1, <1>10, <1>11, <1>12, <1>14, <2>1, <2>2, SeenAsWritten DEF FrameInv
    <2>4. m \in AnyMessage /\ m.type = x.m.type /\ (m.type # Return => m.body = x.m.body)
      <3>1. x.m \in AnyMessage /\ x.v \in 0 .. 2
        BY <1>15 DEF Outgoing
      <3> QED
        BY <2>2, <3>1, ShownOf
    <2>5. m.type \in {Function, QtRpc, Event, Return}
      BY <2>4 DEF AnyMessage
    <2>6. /\ got' = Append(got, m) /\ looping' = looping
          /\ rver' = IF m.type = QtRpc /\ WordAt(m.body, 1) = SetVersion THEN WordAt(m.body, 3) ELSE rver
      BY <1>22, <2>3, <2>5 DEF Handle
    <2>7. got \in Seq(AnyMessage) /\ got' \in Seq(AnyMessage) /\ Len(got') = n + 1
      BY <1>10, <2>4, <2>6 DEF FrameInv, FrameType
    <2>8. FrameType'
      <3>1. looping
        BY <1>9 DEF Loops
      <3> QED
        BY <1>9, <1>15, <1>18, <1>19, <1>22, <2>6, <2>7, <3>1 DEF FrameInv, FrameType
    <2>9. rem[n + 2] = Stream' \o lost
      <3>1. PICK u \in Seq(Nat) : u = Join(after, net)
        BY <1>15, <1>18, Joins
      <3>2. Stream' = u
        <4>1. Stream' = <<>> \o u
          BY <1>9, <1>18, <1>22, <3>1 DEF Stream, Partial, Join
        <4> QED
          BY <4>1, ConcatEmptySeq
      <3>3. Join(Join(after, net), lost) = Join(after, Join(net, lost))
        BY <1>15, <1>18, Joins
      <3> QED
        BY <1>13, <2>1, <3>1, <3>2, <3>3 DEF Join
    <2>10. Carried(w, rem, lost)'
      <3>1. n + 1 <= Len(w) /\ n + 1 + 1 = n + 2
        BY <1>14, <1>15
      <3> QED
        BY <1>2, <1>9, <2>7, <2>9, <3>1 DEF Carried
    <2>11. rver' = ReadAs(p, n + 2) /\ ReadAs(p, n + 2)' = ReadAs(p, n + 2)
      <3>1. /\ dir \in {"toServer", "toClient"} /\ rver = ReadAs(p, n + 1)
            /\ x.m \in IF n + 1 = p THEN {Switch(target)} ELSE MessagesOf(dir)
        <4>1. n + 1 \in 1 .. Len(w) /\ dir \in {"toServer", "toClient"}
          BY <1>14, <1>15 DEF FrameInv, FrameType
        <4> QED
          BY <1>1, <1>10, <1>11, <4>1 DEF InFormat
      <3>2. CASE n + 1 = p
        <4>1. x.m.type = QtRpc /\ WordAt(x.m.body, 1) = SetVersion /\ WordAt(x.m.body, 3) = target
          BY <3>1, <3>2, Samples DEF FrameInv
        <4>2. m.type = QtRpc /\ m.body = x.m.body
          BY <2>4, <4>1 DEF QtRpc, Return
        <4> QED
          BY <1>9, <2>6, <3>2, <4>1, <4>2 DEF ReadAs
      <3>3. CASE n + 1 # p
        <4>1. x.m.type = QtRpc => WordAt(x.m.body, 1) # SetVersion
          BY <3>1, <3>3, Samples DEF FrameInv
        <4>2. rver' = rver
          BY <2>4, <2>6, <4>1 DEF QtRpc, Return
        <4> QED
          BY <1>9, <3>1, <3>3, <4>2 DEF ReadAs
      <3> QED
        BY <3>2, <3>3
    <2>12. InFormat(w, p)'
      <3>1. Len(got') + 1 = n + 2
        BY <2>7
      <3>2. /\ p \in 0 .. Len(w) /\ (p = 0 <=> ~asked) /\ wver \in {0, target} /\ (~asked => wver = 0)
            /\ dir = "toClient" /\ asked => wver = target
            /\ \A i \in 1 .. Len(w) : /\ w[i].m \in IF i = p THEN {Switch(target)} ELSE MessagesOf(dir)
                                      /\ Fits(w[i].v, ReadAs(p, i))
        BY <1>1 DEF InFormat
      <3>3. MessagesOf(dir)' = MessagesOf(dir) /\ Switch(target)' = Switch(target)
        BY <1>9
      <3>4. \A i \in 1 .. Len(w) : Fits(w[i].v, ReadAs(p, i))' = Fits(w[i].v, ReadAs(p, i))
        BY <1>9 DEF Fits, ReadAs
      <3>5. (rver = ReadAs(p, Len(got) + 1))'
        BY <2>11, <3>1
      <3> QED
        BY <1>9, <3>2, <3>3, <3>4, <3>5 DEF InFormat
    <2>13. Len(got) < Len(sent) /\ got' = Append(got, sent[Len(got) + 1])
      BY <1>10, <1>14, <1>15, <2>2, <2>6
    <2> QED
      BY <2>8, <2>10, <2>12, <2>13 DEF FrameInv
  <1> QED
    BY <1>9, <1>21, <1>22
-----------------------------------------------------------------------------
(* Steps.                                                                   *)

\* Nothing is under way at first.
LEMMA FrameStart ==
  ASSUME FramingInit
  PROVE  FrameInv
  <1>1. /\ dir \in {"toServer", "toClient"} /\ target \in 0 .. 2
        /\ wver = 0 /\ rver = 0 /\ asked = FALSE /\ sent = <<>> /\ net = <<>>
        /\ avail = <<>> /\ total = 0 /\ buffer = <<>> /\ looping = FALSE /\ got = <<>> /\ open = TRUE
    BY DirectionsAssumption, TargetsAssumption DEF FramingInit
  <1>2. <<>> \in Seq(Nat) /\ <<>> \in Seq(AnyMessage) /\ <<>> \in Seq(Outgoing) /\ Len(<<>>) = 0
    OBVIOUS
  <1>3. FrameType
    BY <1>1, <1>2 DEF FrameType
  <1>4. PICK w \in Seq(Outgoing) : w = <<>> /\ Len(w) = 0
    BY <1>2
  <1>5. InFormat(w, 0)
    BY <1>1, <1>4 DEF InFormat, ReadAs
  <1>6. PICK rem \in [1 .. 1 -> Seq(Nat)] : rem[1] = <<>>
    <2>1. [i \in 1 .. 1 |-> <<>>] \in [1 .. 1 -> Seq(Nat)] /\ [i \in 1 .. 1 |-> <<>>][1] = <<>>
      BY <1>2
    <2> QED
      BY <2>1
  <1>7. Carried(w, rem, <<>>)
    <2>1. Stream \o <<>> = <<>>
      <3>1. avail \o net = <<>> /\ Partial = <<>>
        BY <1>1, <1>2, ConcatEmptySeq DEF Partial
      <3> QED
        BY <1>2, <3>1, ConcatEmptySeq DEF Stream
    <2>2. Len(w) + 1 = 1 /\ Len(got) + 1 = 1 /\ Len(sent) = Len(w) /\ Len(got) <= Len(w)
      BY <1>1, <1>2, <1>4
    <2>3. \A i \in 1 .. Len(w) : FALSE
      BY <1>4
    <2> QED
      BY <1>2, <1>6, <2>1, <2>2, <2>3 DEF Carried
  <1>8. \E r \in [1 .. Len(w) + 1 -> Seq(Nat)] : Carried(w, r, <<>>)
    BY <1>4, <1>6, <1>7
  <1> QED
    BY <1>2, <1>3, <1>5, <1>8 DEF FrameInv

\* A message is added behind those written.
LEMMA WriteTyped ==
  ASSUME FrameType, wver \in 0 .. 2, NEW m \in AnyMessage, Write(m),
         wver' \in 0 .. 2, asked' \in BOOLEAN
  PROVE  FrameType' /\ Len(sent') = Len(sent) + 1 /\ SubSeq(sent', 1, Len(sent)) = sent
  <1>1. PICK g \in AnyMessage : g = Shown(m, wver)
    BY ShownOf
  <1>2. /\ sent \in Seq(AnyMessage) /\ sent' = Append(sent, g)
        /\ UNCHANGED <<dir, target, rver, avail, total, buffer, looping, got, open>>
    BY <1>1 DEF Write, readerVars, FrameType
  <1>3. net' \in Seq(Nat)
    <2>1. PICK x \in Outgoing : x.m = m /\ x.v = wver
      <3>1. [m |-> m, v |-> wver] \in Outgoing
        BY DEF Outgoing
      <3> QED
        BY <3>1
    <2>2. Frame(Encode(m, wver)) \in Seq(Nat)
      BY <2>1, Framed DEF Words
    <2>3. PICK F \in Seq(Nat) : net' = net \o F
      BY <2>2 DEF Write
    <2> QED
      BY <2>3, ConcatProperties DEF FrameType
  <1>4. Len(sent') = Len(sent) + 1 /\ SubSeq(sent', 1, Len(sent)) = sent /\ sent' \in Seq(AnyMessage)
    <2>1. sent' \in Seq(AnyMessage) /\ Len(sent') = Len(sent) + 1 /\ Len(sent) \in Nat
          /\ \A i \in 1 .. Len(sent) : sent'[i] = sent[i]
      BY <1>2
    <2>2. /\ SubSeq(sent', 1, Len(sent)) \in Seq(AnyMessage)
          /\ Len(SubSeq(sent', 1, Len(sent))) = Len(sent)
          /\ \A i \in 1 .. Len(sent) : SubSeq(sent', 1, Len(sent))[i] = sent[i]
      BY <1>2, <2>1
    <2> QED
      BY <1>2, <2>1, <2>2, SeqEqual
  <1> QED
    BY <1>2, <1>3, <1>4 DEF FrameType

\* The words that arrive are those that were under way.
LEMMA ArriveKeeps ==
  ASSUME FrameInv, Arrive
  PROVE  FrameInv'
  <1>1. PICK w \in Seq(Outgoing), p \in Nat, lost \in Seq(Nat) :
          InFormat(w, p) /\ \E rem \in [1 .. Len(w) + 1 -> Seq(Nat)] : Carried(w, rem, lost)
    BY DEF FrameInv
  <1>2. PICK rem \in [1 .. Len(w) + 1 -> Seq(Nat)] : Carried(w, rem, lost)
    BY <1>1
  <1>3. PICK n \in 1 .. Len(net) : avail' = avail \o SubSeq(net, 1, n) /\ net' = From(net, n + 1)
    BY DEF Arrive
  <1>4. UNCHANGED <<dir, target, wver, asked, sent, rver, total, buffer, got, open>> /\ looping' = TRUE
    BY DEF Arrive, writerVars
  <1>5. avail \in Seq(Nat) /\ net \in Seq(Nat)
    BY DEF FrameInv, FrameType
  <1>6. PICK a \in Seq(Nat) : a = SubSeq(net, 1, n) /\ net' \in Seq(Nat) /\ net = Join(a, net')
    <2>1. n \in 0 .. Len(net)
      BY <1>5
    <2>2. /\ SubSeq(net, 1, n) \in Seq(Nat) /\ From(net, n + 1) \in Seq(Nat)
          /\ net = SubSeq(net, 1, n) \o From(net, n + 1)
      BY <1>5, <2>1, Parted
    <2> QED
      BY <1>3, <2>2 DEF Join
  <1>7. avail' = Join(avail, a) /\ avail' \in Seq(Nat)
    <2>1. avail' = Join(avail, a)
      BY <1>3, <1>6 DEF Join
    <2> QED
      BY <1>5, <2>1, Joins
  <1>8. Stream' = Stream
    <2>1. Join(Join(avail, a), net') = Join(avail, Join(a, net'))
      BY <1>5, <1>6, Joins
    <2>2. Join(avail', net') = Join(avail, net)
      BY <1>6, <1>7, <2>1
    <2>3. Partial' = Partial
      BY <1>4 DEF Partial
    <2> QED
      BY <2>2, <2>3 DEF Stream, Join
  <1>9. FrameType'
    BY <1>4, <1>6, <1>7 DEF FrameInv, FrameType
  <1>10. Carried(w, rem, lost)'
    BY <1>2, <1>4, <1>8 DEF Carried
  <1>11. InFormat(w, p)'
    BY <1>1, <1>4 DEF InFormat, ReadAs, Fits
  <1> QED
    BY <1>9, <1>10, <1>11 DEF FrameInv

\* What the words under way do not take part in.
LEMMA StillCarried ==
  ASSUME FrameInv, UNCHANGED <<dir, target, asked, sent, rver, avail, total, buffer, got>>,
         \/ UNCHANGED <<wver, net, open>> /\ (looping' = looping \/ (looping' = FALSE /\ looping /\ ~Loops))
         \/ UNCHANGED <<net, open, looping>> /\ asked /\ wver' = target
         \/ UNCHANGED <<wver, looping>> /\ open /\ open' = FALSE /\ net' = <<>>
  PROVE  FrameInv'
  <1>1. PICK w \in Seq(Outgoing), p \in Nat, lost \in Seq(Nat) :
          InFormat(w, p) /\ \E rem \in [1 .. Len(w) + 1 -> Seq(Nat)] : Carried(w, rem, lost)
    BY DEF FrameInv
  <1>2. PICK rem \in [1 .. Len(w) + 1 -> Seq(Nat)] : Carried(w, rem, lost)
    BY <1>1
  <1>3. Partial' = Partial
    BY DEF Partial
  <1>4. FrameType'
    <2>1. <<>> \in Seq(Nat)
      OBVIOUS
    <2>2. avail \in Seq(Nat) /\ Len(avail) \in Nat /\ Len(avail') = Len(avail)
      BY DEF FrameInv, FrameType
    <2>3. ~looping' => avail' = <<>> \/ (total' = 0 /\ Len(avail') < 2)
      BY <2>2 DEF FrameInv, FrameType, Loops
    <2>4. net' \in Seq(Nat) /\ looping' \in BOOLEAN /\ open' \in BOOLEAN
      BY <2>1 DEF FrameInv, FrameType
    <2> QED
      BY <2>3, <2>4 DEF FrameInv, FrameType
  <1>5. InFormat(w, p)'
    BY <1>1 DEF InFormat, ReadAs, Fits
  <1>6. PICK lost2 \in Seq(Nat) : Carried(w, rem, lost2)'
    <2>1. CASE UNCHANGED <<net, open>>
      <3>1. Stream' = Stream
        BY <1>3, <2>1 DEF Stream
      <3> QED
        BY <1>2, <2>1, <3>1 DEF Carried
    <2>2. CASE open /\ open' = FALSE /\ net' = <<>>
      <3>1. avail \in Seq(Nat) /\ net \in Seq(Nat) /\ lost = <<>> /\ Partial \in Seq(Nat)
        BY <1>2, <2>2, PartialWords DEF FrameInv, FrameType, Carried
      <3>2. Stream' \o net = Stream \o lost
        <4>1. avail \o <<>> = avail
          BY <3>1, ConcatEmptySeq
        <4>2. Stream' = Join(Partial, avail)
          BY <1>3, <2>2, <4>1 DEF Stream, Join
        <4>3. Join(Join(Partial, avail), net) = Join(Partial, Join(avail, net))
          BY <3>1, Joins
        <4>4. Stream \in Seq(Nat) /\ Stream \o lost = Stream
          BY <3>1, PartialWords, ConcatEmptySeq DEF FrameInv
        <4> QED
          BY <4>2, <4>3, <4>4 DEF Stream, Join
      <3>3. rem[Len(got') + 1] = Stream' \o net
        BY <1>2, <3>2 DEF Carried
      <3>0. PICK cut \in Seq(Nat) : cut = net
        BY <3>1
      <3>4. Carried(w, rem, cut)'
        <4>1. /\ w \in Seq(Outgoing) /\ rem \in [1 .. Len(w) + 1 -> Seq(Nat)]
              /\ Len(sent) = Len(w) /\ Len(got) <= Len(w)
              /\ \A i \in 1 .. Len(w) : /\ sent[i] = Shown(w[i].m, w[i].v)
                                        /\ rem[i] = Frame(Words(w[i])) \o rem[i + 1]
              /\ rem[Len(w) + 1] = <<>>
          BY <1>2 DEF Carried
        <4> QED
          BY <2>2, <3>0, <3>3, <4>1 DEF Carried
      <3> QED
        BY <3>4
    <2> QED
      BY <2>1, <2>2
  <1> QED
    BY <1>4, <1>5, <1>6 DEF FrameInv
\* Every step keeps the order of the messages, and is one that MessageChannel allows.
LEMMA FrameKeeps ==
  ASSUME FrameInv, [FramingNext]_framingVars
  PROVE  /\ FrameInv'
         /\ [Channel!ChannelNext]_<<sent, got, open>>
  <1> USE DEF Channel!ChannelNext
  <1>1. FrameType /\ dir \in {"toServer", "toClient"} /\ target \in 0 .. 2 /\ wver \in 0 .. 2
    BY DEF FrameInv, FrameType, InFormat
  <1>2. ASSUME NEW m, Write(m), asked' \in BOOLEAN, wver' \in 0 .. 2,
               \/ m \in MessagesOf(dir) /\ UNCHANGED <<wver, asked>>
                  /\ (dir = "toServer" /\ asked /\ wver = 0 => target # 1)
               \/ m = Switch(target) /\ ~asked /\ asked' = TRUE
                  /\ wver' = IF dir = "toClient" THEN target ELSE wver
        PROVE  FrameInv' /\ Channel!WriteOne
    <2>1. m \in AnyMessage
      BY <1>1, <1>2, Samples
    <2>2. FrameType' /\ Len(sent') = Len(sent) + 1 /\ SubSeq(sent', 1, Len(sent)) = sent
      BY <1>1, <1>2, <2>1, WriteTyped
    <2>3. UNCHANGED <<got, open>>
      BY <1>2 DEF Write, readerVars
    <2> QED
      BY <1>2, <2>2, <2>3, WriteKeeps DEF Channel!WriteOne
  <1>3. CASE ClientWrite \/ ServerWrite
    <2>1. PICK m : Write(m) /\ m \in MessagesOf(dir) /\ UNCHANGED <<wver, asked>>
                   /\ (dir = "toServer" /\ asked /\ wver = 0 => target # 1)
      BY <1>3 DEF ClientWrite, ServerWrite, MessagesOf
    <2>2. asked' \in BOOLEAN /\ wver' \in 0 .. 2
      BY <1>1, <2>1 DEF FrameType
    <2> QED
      BY <1>2, <2>1, <2>2
  <1>4. CASE ServerSwitch \/ ClientAsk
    <2>1. /\ Write(Switch(target)) /\ ~asked /\ asked' = TRUE
          /\ wver' = IF dir = "toClient" THEN target ELSE wver
      BY <1>4 DEF ServerSwitch, ClientAsk
    <2>2. asked' \in BOOLEAN /\ wver' \in 0 .. 2
      BY <1>1, <2>1
    <2> QED
      BY <1>2, <2>1, <2>2
  <1>5. CASE ClientSwitch
    <2>1. FrameInv'
      BY <1>5, StillCarried DEF ClientSwitch, readerVars
    <2> QED
      BY <1>5, <2>1 DEF ClientSwitch, readerVars
  <1>6. CASE Arrive
    <2>1. FrameInv'
      BY <1>6, ArriveKeeps
    <2> QED
      BY <1>6, <2>1 DEF Arrive, writerVars
  <1>7. CASE EndLoop
    <2>1. FrameInv'
      BY <1>7, StillCarried DEF EndLoop, writerVars
    <2> QED
      BY <1>7, <2>1 DEF EndLoop, writerVars
  <1>8. CASE ClientRead \/ ServerRead
    <2>1. ReadSome(ReaderSees)
      BY <1>8 DEF ClientRead, ServerRead, ReadSome, ReaderSees, Handle
    <2>2. UNCHANGED <<sent, open>>
      BY <2>1 DEF ReadSome, writerVars
    <2> QED
      BY <2>1, <2>2, ReadKeeps DEF Channel!HandleOne
  <1>9. CASE Cut
    <2>1. FrameInv'
      BY <1>9, StillCarried DEF Cut, writerVars, readerVars
    <2> QED
      BY <1>9, <2>1 DEF Cut, writerVars, readerVars, Channel!CutOff
  <1>10. CASE UNCHANGED framingVars
    <2>1. FrameInv'
      BY <1>10, StillCarried DEF framingVars, writerVars, readerVars
    <2> QED
      BY <1>10, <2>1 DEF framingVars, writerVars, readerVars
  <1> QED
    BY <1>3, <1>4, <1>5, <1>6, <1>7, <1>8, <1>9, <1>10 DEF FramingNext

\* A loop that ended with everything there leaves no message.
LEMMA NothingLeft ==
  ASSUME FrameInv
  PROVE  AllHandled
  <1> SUFFICES ASSUME open, ~looping, net = <<>> PROVE Len(got) = Len(sent)
    BY DEF AllHandled
  <1>1. PICK w \in Seq(Outgoing), p \in Nat, lost \in Seq(Nat) :
          InFormat(w, p) /\ \E rem \in [1 .. Len(w) + 1 -> Seq(Nat)] : Carried(w, rem, lost)
    BY DEF FrameInv
  <1>2. PICK rem \in [1 .. Len(w) + 1 -> Seq(Nat)] : Carried(w, rem, lost)
    BY <1>1
  <1>3. PICK n \in Nat : n = Len(got)
    BY DEF FrameInv, FrameType
  <1>4. Len(w) \in Nat /\ n <= Len(w) /\ Len(sent) = Len(w) /\ lost = <<>>
    BY <1>2, <1>3 DEF Carried
  <1>5. ASSUME n < Len(w) PROVE FALSE
    <2>1. n + 1 \in 1 .. Len(w) /\ n + 2 \in 1 .. Len(w) + 1 /\ n + 1 + 1 = n + 2
      BY <1>4, <1>5
    <2>2. PICK x \in Outgoing : x = w[n + 1]
      BY <2>1
    <2>3. PICK e \in Seq(Nat) : e = Words(x) /\ Len(e) >= 2 /\ Len(e) \in Nat
      BY <2>2, Framed
    <2>4. PICK r \in Seq(Nat) : r = rem[n + 2]
      BY <2>1
    <2>5. PICK f \in Seq(Nat) : f = <<0, Len(e)>> /\ Len(f) = 2 /\ f[2] = Len(e)
      <3>1. /\ <<0, Len(e)>> \in Seq(Nat) /\ Len(<<0, Len(e)>>) = 2
            /\ <<0, Len(e)>>[2] = Len(e)
        BY <2>3
      <3> QED
        BY <3>1
    <2>6. Stream = Join(f, Join(e, r))
      <3>1. rem[n + 1] = Join(Join(f, e), r)
        BY <1>2, <2>1, <2>2, <2>3, <2>4, <2>5 DEF Carried, Join, Frame
      <3>2. Join(Join(f, e), r) = Join(f, Join(e, r))
        BY Joins
      <3>3. Stream \o lost = Stream
        BY <1>4, PartialWords, ConcatEmptySeq DEF FrameInv
      <3> QED
        BY <1>2, <1>3, <3>1, <3>2, <3>3 DEF Carried
    <2>7. PICK t \in Seq(Nat) : t = Join(e, r) /\ Len(t) = Len(e) + Len(r)
      <3>1. e \o r \in Seq(Nat) /\ Len(e \o r) = Len(e) + Len(r)
        BY ConcatProperties
      <3> QED
        BY <3>1 DEF Join
    <2>8. avail \in Seq(Nat) /\ Stream = Join(Partial, avail)
      <3>1. avail \in Seq(Nat) /\ avail \o net = avail
        BY ConcatEmptySeq DEF FrameInv, FrameType
      <3> QED
        BY <3>1 DEF Stream, Join
    <2>9. CASE total = 0
      <3>1. Stream = avail
        BY <2>8, <2>9, ConcatEmptySeq DEF Partial, Join
      <3>2. Len(Stream) = Len(f) + Len(t)
        BY <2>6, <2>7, ConcatProperties DEF Join
      <3>3. Len(avail) < 2
        BY <2>8, <2>9 DEF FrameInv, FrameType
      <3>4. Len(r) \in Nat
        OBVIOUS
      <3> QED
        BY <2>3, <2>5, <2>7, <3>1, <3>2, <3>3, <3>4
    <2>10. CASE total # 0
      <3>1. avail = <<>> /\ buffer \in Seq(Nat) /\ total \in Nat /\ Len(buffer) < total
        BY <2>10 DEF FrameInv, FrameType
      <3>2. PICK h \in Seq(Nat) : h = <<0, total>> /\ Len(h) = 2 /\ h[2] = total
        <4>1. <<0, total>> \in Seq(Nat) /\ Len(<<0, total>>) = 2 /\ <<0, total>>[2] = total
          BY <3>1
        <4> QED
          BY <4>1
      <3>3. Stream = Join(h, buffer)
        <4>1. Partial = Join(h, buffer) /\ Partial \in Seq(Nat)
          BY <2>10, <3>2, PartialWords DEF Partial, Join, FrameInv
        <4>2. Partial \o avail = Partial
          BY <3>1, <4>1, ConcatEmptySeq
        <4> QED
          BY <2>8, <4>1, <4>2 DEF Join
      <3>4. h = f /\ buffer = t
        <4>1. Join(h, buffer) = Join(f, t) /\ Len(h) = Len(f)
          BY <2>5, <2>6, <2>7, <3>2, <3>3
        <4> QED
          BY <3>1, <4>1, SameHead
      <3>5. Len(r) \in Nat
        OBVIOUS
      <3> QED
        BY <2>3, <2>5, <2>7, <3>1, <3>2, <3>4, <3>5
    <2> QED
      BY <2>9, <2>10
  <1> QED
    BY <1>3, <1>4, <1>5

\* A step of another part leaves the stream as it is.
LEMMA FramesStep ==
  ASSUME [CallsNext]_callsVars
  PROVE  [FramingNext]_framingVars
  BY DEF CallsNext, callsVars, DispatchStep, FramingStep, TableStep, ValuesStep, AuthStep

\* However the stream is cut, and whatever the two ends agree on while messages are
\* under way, a direction handles the messages written: whole, as they went, in order,
\* none twice.  Framing implements MessageChannel: ChannelSpec.
THEOREM ChannelImplemented == CallsSpec => ChannelSpec
  <1>1. CallsInit => FrameInv
    BY FrameStart DEF CallsInit
  <1>2. FrameInv /\ [CallsNext]_callsVars => FrameInv'
    BY FramesStep, FrameKeeps
  <1>3. CallsInit => Channel!ChannelInit
    BY DEF CallsInit, FramingInit, Channel!ChannelInit
  <1>4. FrameInv /\ [CallsNext]_callsVars => [Channel!ChannelNext]_(Channel!channelVars)
    BY FramesStep, FrameKeeps DEF Channel!channelVars
  <1> QED
    BY <1>1, <1>2, <1>3, <1>4, PTL DEF CallsSpec, ChannelSpec, Channel!ChannelSpec

\* When everything has arrived and readyRead() has returned, every message written was
\* handled: the part of ReadAsWritten that is about the stream.
THEOREM EverythingHandled == CallsSpec => []AllHandled
  <1>1. CallsInit => FrameInv
    BY FrameStart DEF CallsInit
  <1>2. FrameInv /\ [CallsNext]_callsVars => FrameInv'
    BY FramesStep, FrameKeeps
  <1>3. FrameInv => AllHandled
    BY NothingLeft
  <1> QED
    BY <1>1, <1>2, <1>3, PTL DEF CallsSpec
-----------------------------------------------------------------------------
(* Signatures, and the texts they are sent as.                              *)

Name == (STRING \cup Names \cup {""}) \ {"(", ")"}
Word == (STRING \cup Types \cup {""}) \ {"(", ")", ","}
Cell == Word \cup {","}
SignatureType == [name : Name, args : Seq(Word)]

\* A sequence as a function, and one of one element
LEMMA AsFunction ==
  ASSUME NEW S, NEW l \in Nat, NEW f \in [1 .. l -> S]
  PROVE  f \in Seq(S) /\ Len(f) = l /\ DOMAIN f = 1 .. l
  OBVIOUS

LEMMA AsSequence ==
  ASSUME NEW S, NEW q \in Seq(S)
  PROVE  q = [k \in 1 .. Len(q) |-> q[k]] /\ Len(q) \in Nat
  OBVIOUS

Alone(word) == <<word>>

LEMMA OneAlone ==
  ASSUME NEW S, NEW w \in S
  PROVE  Alone(w) \in Seq(S) /\ Len(Alone(w)) = 1 /\ Alone(w)[1] = w
  BY DEF Alone

\* A longer sequence with the same first element is not one of one element either.
LEMMA StillNotAlone ==
  ASSUME NEW S, NEW w \in S, NEW q \in Seq(S), q # Alone(w),
         NEW mid, Len(mid) = 2 * Len(q) - 1, Len(q) = 1 => mid[1] = q[1]
  PROVE  mid # Alone(w)
  <1>1. Alone(w) \in Seq(S) /\ Len(Alone(w)) = 1 /\ Alone(w)[1] = w
    BY OneAlone
  <1>2. PICK n \in Nat : n = Len(q)
    OBVIOUS
  <1>3. CASE n = 1
    <2>1. ASSUME q[1] = w
          PROVE  FALSE
      <3>1. \A i \in 1 .. 1 : q[i] = Alone(w)[i]
        BY <1>1, <2>1
      <3>2. q = Alone(w)
        BY <1>1, <1>2, <1>3, <3>1, SeqEqual
      <3> QED
        BY <3>2
    <2> QED
      BY <1>1, <1>2, <1>3, <2>1
  <1>4. CASE n # 1
    <2>1. 2 * n - 1 # 1
      BY <1>4
    <2> QED
      BY <1>1, <1>2, <2>1
  <1> QED
    BY <1>3, <1>4

\* The odd numbers, and which of them is the k-th
Odds(n) == {2 * t - 1 : t \in 1 .. n}

LEMMA OddsCount ==
  ASSUME NEW n \in Nat
  PROVE  Cardinality(Odds(n)) = n
  <1> DEFINE odd == [t \in 1 .. n |-> 2 * t - 1]
  <1>1. odd \in Bijection(1 .. n, Odds(n))
    <2>1. odd \in [1 .. n -> Odds(n)] /\ \A t \in 1 .. n : odd[t] = 2 * t - 1
      BY DEF Odds
    <2>2. \A t, u \in 1 .. n : odd[t] = odd[u] => t = u
      BY <2>1
    <2>3. \A i \in Odds(n) : \E t \in 1 .. n : odd[t] = i
      BY <2>1 DEF Odds
    <2> HIDE DEF odd
    <2> QED
      BY <2>1, <2>2, <2>3 DEF Bijection, Injection, Surjection, IsInjective
  <1>2. IsFiniteSet(1 .. n) /\ Cardinality(1 .. n) = n
    BY FS_Interval
  <1> QED
    BY <1>1, <1>2, FS_Bijection DEF ExistsBijection

LEMMA OddNth ==
  ASSUME NEW n \in Nat, NEW k \in 1 .. n
  PROVE  Nth(Odds(n), k) = 2 * k - 1
  <1>1. PICK m \in Nat : m = 2 * n
    OBVIOUS
  <1>2. Odds(n) \in SUBSET (1 .. m)
    BY <1>1 DEF Odds
  <1>3. Cardinality(Odds(n)) = n
    BY OddsCount
  <1>4. Nth(Odds(n), k) \in Odds(n) /\ Cardinality({j \in Odds(n) : j <= Nth(Odds(n), k)}) = k
    BY <1>2, <1>3, NthIndex
  <1>5. PICK t \in 1 .. n : Nth(Odds(n), k) = 2 * t - 1
    BY <1>4 DEF Odds
  <1>6. {j \in Odds(n) : j <= 2 * t - 1} = Odds(t)
    BY DEF Odds
  <1>7. Cardinality(Odds(t)) = t
    BY OddsCount
  <1> QED
    BY <1>4, <1>5, <1>6, <1>7

\* The types of a signature with commas between them
Listed(args) ==
  [i \in 1 .. 2 * Len(args) - 1 |-> IF i % 2 = 1 THEN args[(i + 1) \div 2] ELSE ","]

LEMMA ListedWords ==
  ASSUME NEW args \in Seq(Word), args # <<>>, NEW mid, mid = Listed(args)
  PROVE  /\ Len(args) \in Nat \ {0} /\ 2 * Len(args) - 1 \in Nat
         /\ DOMAIN mid = 1 .. 2 * Len(args) - 1 /\ Len(mid) = 2 * Len(args) - 1
         /\ mid \in Seq(Cell)
         /\ \A t \in 1 .. Len(args) : mid[2 * t - 1] = args[t]
         /\ mid[1] = args[1]
         /\ {i \in DOMAIN mid : mid[i] # ","} = Odds(Len(args))
  <1>1. PICK n \in Nat \ {0} : n = Len(args) /\ 2 * n - 1 \in Nat
    OBVIOUS
  <1>2. /\ \A i \in 1 .. n : args[i] \in Word
        /\ mid = [i \in 1 .. 2 * n - 1 |-> IF i % 2 = 1 THEN args[(i + 1) \div 2] ELSE ","]
    <2>1. \A i \in 1 .. n : args[i] \in Word
      BY <1>1
    <2> QED
      BY <1>1, <2>1 DEF Listed
  <1>3. ASSUME NEW t \in 1 .. n
        PROVE  2 * t - 1 \in 1 .. 2 * n - 1 /\ mid[2 * t - 1] = args[t]
    <2>1. PICK i \in 1 .. 2 * n - 1 : i = 2 * t - 1
      OBVIOUS
    <2>2. i % 2 = 1 /\ (i + 1) \div 2 = t
      BY <2>1
    <2> QED
      BY <1>2, <2>1, <2>2
  <1>4. ASSUME NEW i \in 1 .. 2 * n - 1
        PROVE  \/ mid[i] = ","  /\ i \notin Odds(n)
               \/ i \in Odds(n) /\ mid[i] \in Word
    <2>1. CASE i % 2 = 1
      <3>0. PICK h : h = (i + 1) \div 2
        OBVIOUS
      <3>1. PICK t \in 1 .. n : i = 2 * t - 1
        <4>1. h \in Int /\ i = 2 * h - 1
          BY <2>1, <3>0
        <4>2. h \in 1 .. n
          BY <4>1
        <4> QED
          BY <4>1, <4>2
      <3> QED
        BY <1>2, <1>3, <3>1 DEF Odds
    <2>2. CASE i % 2 # 1
      <3>1. mid[i] = ","
        BY <1>2, <2>2
      <3>2. \A t \in 1 .. n : (2 * t - 1) % 2 = 1
        OBVIOUS
      <3> QED
        BY <2>2, <3>1, <3>2 DEF Odds
    <2> QED
      BY <2>1, <2>2
  <1>5. "," \notin Word
    BY DEF Word
  <1>6. {i \in 1 .. 2 * n - 1 : mid[i] # ","} = Odds(n)
    <2>1. Odds(n) \subseteq 1 .. 2 * n - 1
      BY <1>3 DEF Odds
    <2> QED
      BY <1>4, <1>5, <2>1
  <1>7. mid \in [1 .. 2 * n - 1 -> Cell]
    BY <1>2, <1>4 DEF Cell
  <1>8. mid \in Seq(Cell) /\ Len(mid) = 2 * n - 1 /\ DOMAIN mid = 1 .. 2 * n - 1
    <2>1. PICK l \in Nat : l = 2 * n - 1
      BY <1>1
    <2>2. PICK S : S = Cell
      OBVIOUS
    <2>3. mid \in [1 .. l -> S]
      BY <1>7, <2>1, <2>2
    <2> QED
      BY <2>1, <2>2, <2>3, AsFunction
  <1>9. mid[1] = args[1]
    <2>1. 2 * 1 - 1 = 1 /\ 1 \in 1 .. n
      OBVIOUS
    <2> QED
      BY <1>3, <2>1
  <1> QED
    BY <1>1, <1>3, <1>6, <1>8, <1>9

\* Cut at the commas, they are the types again.
LEMMA CutBack ==
  ASSUME NEW args \in Seq(Word), args # <<>>, args # Alone("")
  PROVE  CutAtCommas(Listed(args)) = args
  <1>n. PICK n \in Nat \ {0} : n = Len(args)
    BY ListedWords
  <1>m. PICK mid \in Seq(Cell) : mid = Listed(args)
    BY ListedWords
  <1>0. mid = Listed(args) /\ n = Len(args)
    BY <1>n, <1>m
  <1>1. /\ n \in Nat \ {0} /\ DOMAIN mid = 1 .. 2 * n - 1 /\ Len(mid) = 2 * n - 1
        /\ \A t \in 1 .. n : mid[2 * t - 1] = args[t]
        /\ {i \in DOMAIN mid : mid[i] # ","} = Odds(n)
    <2>1. DOMAIN mid = 1 .. 2 * n - 1 /\ Len(mid) = 2 * n - 1
      BY <1>0, ListedWords
    <2>2. \A t \in 1 .. n : mid[2 * t - 1] = args[t]
      BY <1>0, ListedWords
    <2>3. {i \in DOMAIN mid : mid[i] # ","} = Odds(n)
      BY <1>0, ListedWords
    <2> QED
      BY <2>1, <2>2, <2>3
  <1>2. mid # Alone("")
    <2>1. "" \in Word
      BY DEF Word
    <2>3. mid[1] = args[1]
      BY <1>0, ListedWords
    <2>4. Len(mid) = 2 * Len(args) - 1
      BY <1>0, <1>1
    <2> QED
      BY <1>0, <2>1, <2>3, <2>4, StillNotAlone
  <1>3. CutAtCommas(mid) = At(mid, Odds(n))
    BY <1>1, <1>2 DEF CutAtCommas, Only, Alone
  <1>4. At(mid, Odds(n)) = [k \in 1 .. n |-> args[k]]
    <2>1. Cardinality(Odds(n)) = n
      BY <1>1, OddsCount
    <2>2. \A k \in 1 .. n : mid[Nth(Odds(n), k)] = args[k]
      BY <1>1, OddNth
    <2> QED
      BY <2>1, <2>2 DEF At
  <1>5. args = [k \in 1 .. n |-> args[k]]
    BY <1>0, AsSequence
  <1> QED
    BY <1>0, <1>3, <1>4, <1>5

\* What stands once in a text stands nowhere else.
LEMMA StandsOnce ==
  ASSUME NEW S, NEW text \in Seq(S), NEW word, Count(text, word) = 1,
         NEW i \in DOMAIN text, text[i] = word
  PROVE  \A j \in DOMAIN text : text[j] = word => j = i
  <1> DEFINE K == {j \in DOMAIN text : text[j] = word}
  <1>1. IsFiniteSet(DOMAIN text)
    <2>1. DOMAIN text = 1 .. Len(text) /\ Len(text) \in Nat
      OBVIOUS
    <2> QED
      BY <2>1, FS_Interval
  <1>2. K \in SUBSET (DOMAIN text)
    OBVIOUS
  <1>3. IsFiniteSet(K)
    BY <1>1, <1>2, FS_Subset
  <1>4. Cardinality(K) = 1
    BY DEF Count
  <1>5. PICK x : K = {x}
    BY <1>3, <1>4, FS_Singleton
  <1>6. i \in K /\ \A j \in DOMAIN text : text[j] = word => j \in K
    OBVIOUS
  <1> HIDE DEF K
  <1> QED
    BY <1>5, <1>6

LEMMA StandsSomewhere ==
  ASSUME NEW text, NEW word, Count(text, word) = 1
  PROVE  \E i \in DOMAIN text : text[i] = word
  <1>1. {j \in DOMAIN text : text[j] = word} # {}
    BY FS_EmptySet DEF Count
  <1> QED
    BY <1>1

LEMMA CountOne ==
  ASSUME NEW text, NEW word, NEW i \in DOMAIN text,
         \A j \in DOMAIN text : text[j] = word <=> j = i
  PROVE  Count(text, word) = 1
  <1>1. {j \in DOMAIN text : text[j] = word} = {i}
    OBVIOUS
  <1> QED
    BY <1>1, FS_Singleton DEF Count

\* A word that is none of the marks is a name, or a type.
LEMMA IsName ==
  ASSUME NEW w \in STRING, w # "(", w # ")"
  PROVE  w \in Name
  BY DEF Name

LEMMA IsWord ==
  ASSUME NEW w \in STRING \cup {","}, w # "(", w # ")"
  PROVE  w \in Cell
  BY DEF Cell, Word

LEMMA NotAComma ==
  ASSUME NEW w \in Cell, w # ","
  PROVE  w \in Word
  BY DEF Cell

LEMMA ElementIn ==
  ASSUME NEW S, NEW q \in Seq(S), NEW i \in DOMAIN q
  PROVE  q[i] \in S
  OBVIOUS

LEMMA FromThird ==
  ASSUME NEW S, NEW text, NEW m \in Int, \A j \in 3 .. m : text[j] \in S
  PROVE  /\ SubSeq(text, 3, m) \in Seq(S)
         /\ Len(SubSeq(text, 3, m)) = (IF 3 <= m THEN m - 3 + 1 ELSE 0)
         /\ \A i \in 1 .. m - 3 + 1 : SubSeq(text, 3, m)[i] = text[3 + i - 1]
  <1>1. 3 \in Int
    OBVIOUS
  <1> QED
    BY <1>1, SubSeqProperties

\* Where the brackets of a valid text stand
LEMMA Brackets ==
  ASSUME NEW text \in Seq(STRING), Valid(text), text[2] = "("
  PROVE  /\ Len(text) \in Nat /\ Len(text) >= 3
         /\ \A j \in 1 .. Len(text) : /\ text[j] = "(" => j = 2
                                      /\ text[j] = ")" => j = Len(text)
  <1>1. PICK n \in Nat : n = Len(text) /\ DOMAIN text = 1 .. n
    OBVIOUS
  <1>2. Count(text, "(") = 1 /\ Count(text, ")") = 1
    BY DEF Valid
  <1>3. text[1] # "(" /\ text[n] = ")"
    BY <1>1 DEF Valid
  <1>4. \E i \in DOMAIN text : text[i] = "("
    BY <1>2, StandsSomewhere
  <1>5. PICK i \in 1 .. n : text[i] = "("
    BY <1>1, <1>4
  <1>6. i # 1 /\ i # n
    BY <1>3, <1>5
  <1>7. n >= 3 /\ 2 \in 1 .. n /\ n \in 1 .. n
    BY <1>5, <1>6
  <1>8. \A j \in DOMAIN text : text[j] = "(" => j = 2
    BY <1>1, <1>2, <1>7, StandsOnce
  <1>9. \A j \in DOMAIN text : text[j] = ")" => j = n
    BY <1>1, <1>2, <1>3, <1>7, StandsOnce
  <1> QED
    BY <1>1, <1>7, <1>8, <1>9

\* The parts of a valid text are a name and types.
LEMMA ValidParts ==
  ASSUME NEW text \in Texts, Valid(text)
  PROVE  /\ text[1] \in Name
         /\ SubSeq(text, 3, Len(text) - 1) \in Seq(Cell)
  <1>1. text \in Seq(STRING) /\ text[2] = "("
    BY TextsAssumption
  <1>2. /\ Len(text) \in Nat /\ Len(text) >= 3
        /\ \A j \in 1 .. Len(text) : (text[j] = "(" => j = 2) /\ (text[j] = ")" => j = Len(text))
    BY <1>1, Brackets
  <1>3. PICK n \in Nat : n = Len(text)
    BY <1>2
  <1>4. n >= 3 /\ \A j \in 1 .. n : (text[j] = "(" => j = 2) /\ (text[j] = ")" => j = n)
    BY <1>2, <1>3
  <1>5. \A j \in 1 .. n : text[j] \in STRING
    BY <1>1, <1>3
  <1>6. text[1] \in Name
    <2>1. 1 \in 1 .. n /\ 1 # 2 /\ 1 # n
      BY <1>4
    <2>2. text[1] # "(" /\ text[1] # ")"
      BY <1>4, <2>1
    <2> QED
      BY <1>5, <2>1, <2>2, IsName
  <1>7. ASSUME NEW j \in 3 .. n - 1
        PROVE  text[j] \in Cell
    <2>1. j \in 1 .. n /\ j # 2 /\ j # n
      BY <1>4
    <2>2. text[j] # "(" /\ text[j] # ")"
      BY <1>4, <2>1
    <2>3. text[j] \in STRING \cup {","}
      BY <1>5, <2>1
    <2> QED
      BY <2>2, <2>3, IsWord
  <1>8. PICK m \in Int : m = n - 1
    OBVIOUS
  <1>9. SubSeq(text, 3, m) \in Seq(Cell)
    BY <1>7, <1>8, FromThird
  <1> QED
    BY <1>3, <1>6, <1>8, <1>9

\* What is cut has no commas.
LEMMA CutWords ==
  ASSUME NEW words \in Seq(Cell)
  PROVE  CutAtCommas(words) \in Seq(Word)
  <1>1. PICK K : K = {i \in DOMAIN words : words[i] # ","}
    OBVIOUS
  <1>2. K \in SUBSET (DOMAIN words)
    BY <1>1
  <1>3. /\ DOMAIN At(words, K) = 1 .. Cardinality(K) /\ Cardinality(K) \in Nat
        /\ \A n \in DOMAIN At(words, K) : Nth(K, n) \in K /\ At(words, K)[n] = words[Nth(K, n)]
    BY <1>2, AtElements
  <1>4. PICK m \in Nat : m = Cardinality(K)
    BY <1>3
  <1>5. \A i \in K : words[i] \in Word
    <2> SUFFICES ASSUME NEW i \in K
                 PROVE  words[i] \in Word
      OBVIOUS
    <2>1. i \in DOMAIN words /\ words[i] # ","
      BY <1>1
    <2>2. words[i] \in Cell
      BY <2>1, ElementIn
    <2> QED
      BY <2>1, <2>2, NotAComma
  <1>6. \A n \in 1 .. m : words[Nth(K, n)] \in Word
    BY <1>3, <1>4, <1>5
  <1>7. At(words, K) = [n \in 1 .. m |-> words[Nth(K, n)]]
    BY <1>4 DEF At
  <1>8. At(words, K) \in [1 .. m -> Word]
    BY <1>6, <1>7
  <1>9. At(words, K) \in Seq(Word)
    BY <1>8, AsFunction
  <1>10. CutAtCommas(words) = <<>> \/ CutAtCommas(words) = At(words, K)
    BY <1>1 DEF CutAtCommas, Only
  <1> QED
    BY <1>9, <1>10, EmptySeq

LEMMA ParsedType ==
  ASSUME NEW text \in Texts
  PROVE  Parse(text) \in SignatureType
  <1>1. CASE Valid(text)
    <2>1. PICK args \in Seq(Word) : args = CutAtCommas(SubSeq(text, 3, Len(text) - 1))
      BY <1>1, ValidParts, CutWords
    <2>2. PICK name \in Name : name = text[1]
      BY <1>1, ValidParts
    <2>3. Parse(text) = [name |-> name, args |-> args]
      BY <1>1, <2>1, <2>2 DEF Parse
    <2> QED
      BY <2>3 DEF SignatureType
  <1>2. CASE ~Valid(text)
    <2>1. PICK args \in Seq(Word) : args = <<>>
      BY EmptySeq
    <2>2. PICK name \in Name : name = ""
      BY DEF Name
    <2>3. Parse(text) = [name |-> name, args |-> args]
      BY <1>2, <2>1, <2>2 DEF Parse
    <2> QED
      BY <2>3 DEF SignatureType
  <1> QED
    BY <1>1, <1>2

\* What a text is that ToText() made: the name and a bracket, the types, a bracket
Fronted(a, b, mid) == <<a, b>> \o mid
Bracketed(text, a, b, mid, c) == text = Append(Fronted(a, b, mid), c)

LEMMA Two ==
  ASSUME NEW S, NEW a \in S, NEW b \in S
  PROVE  <<a, b>> \in Seq(S) /\ Len(<<a, b>>) = 2 /\ <<a, b>>[1] = a /\ <<a, b>>[2] = b
  OBVIOUS

LEMMA FrontedParts ==
  ASSUME NEW S, NEW a \in S, NEW b \in S, NEW mid \in Seq(S), NEW l \in Nat, l = Len(mid)
  PROVE  /\ Fronted(a, b, mid) \in Seq(S) /\ Len(Fronted(a, b, mid)) = l + 2
         /\ Fronted(a, b, mid)[1] = a /\ Fronted(a, b, mid)[2] = b
         /\ \A i \in 1 .. l : Fronted(a, b, mid)[i + 2] = mid[i]
  <1>1. PICK ab \in Seq(S) : ab = <<a, b>> /\ Len(ab) = 2 /\ ab[1] = a /\ ab[2] = b
    <2>1. <<a, b>> \in Seq(S) /\ Len(<<a, b>>) = 2 /\ <<a, b>>[1] = a /\ <<a, b>>[2] = b
      BY Two
    <2> QED
      BY <2>1
  <1>2. PICK front \in Seq(S) :
          /\ front = ab \o mid /\ Len(front) = 2 + l
          /\ \A i \in 1 .. 2 + l : front[i] = IF i <= 2 THEN ab[i] ELSE mid[i - 2]
    <2>1. /\ ab \o mid \in Seq(S) /\ Len(ab \o mid) = Len(ab) + Len(mid)
          /\ \A i \in 1 .. Len(ab) + Len(mid) :
               (ab \o mid)[i] = IF i <= Len(ab) THEN ab[i] ELSE mid[i - Len(ab)]
      BY ConcatProperties
    <2>2. Len(ab) + Len(mid) = 2 + l
      BY <1>1
    <2> QED
      BY <1>1, <2>1, <2>2
  <1>3. front = Fronted(a, b, mid)
    BY <1>1, <1>2 DEF Fronted
  <1>4. 1 \in 1 .. 2 + l /\ 2 \in 1 .. 2 + l
    OBVIOUS
  <1>5. \A i \in 1 .. l : i + 2 \in 1 .. 2 + l /\ ~(i + 2 <= 2) /\ i + 2 - 2 = i
    OBVIOUS
  <1> HIDE DEF Fronted
  <1> QED
    BY <1>1, <1>2, <1>3, <1>4, <1>5

LEMMA BracketedParts ==
  ASSUME NEW S, NEW a \in S, NEW b \in S, NEW c \in S, NEW mid \in Seq(S),
         NEW text, Bracketed(text, a, b, mid, c)
  PROVE  /\ text \in Seq(S) /\ Len(mid) \in Nat /\ Len(text) = Len(mid) + 3
         /\ text[1] = a /\ text[2] = b /\ text[Len(mid) + 3] = c
         /\ \A i \in 1 .. Len(mid) : text[i + 2] = mid[i]
  <1>l. PICK l \in Nat : l = Len(mid)
    BY LenProperties
  <1>1. PICK front \in Seq(S) : /\ front = Fronted(a, b, mid) /\ Len(front) = l + 2
                                /\ front[1] = a /\ front[2] = b
                                /\ \A i \in 1 .. l : front[i + 2] = mid[i]
    BY <1>l, FrontedParts
  <1>2. text = Append(front, c)
    BY <1>1 DEF Bracketed
  <1>3. /\ Append(front, c) \in Seq(S) /\ Len(Append(front, c)) = l + 2 + 1
        /\ \A i \in 1 .. l + 2 : Append(front, c)[i] = front[i]
        /\ Append(front, c)[l + 2 + 1] = c
    BY <1>1, AppendProperties
  <1>4. l + 2 + 1 = l + 3 /\ 1 \in 1 .. l + 2 /\ 2 \in 1 .. l + 2
        /\ \A i \in 1 .. l : i + 2 \in 1 .. l + 2
    OBVIOUS
  <1> QED
    BY <1>l, <1>1, <1>2, <1>3, <1>4

LEMMA BetweenBrackets ==
  ASSUME NEW S, NEW text \in Seq(S), NEW mid \in Seq(S), NEW l \in Nat, l = Len(mid),
         Len(text) = l + 3, \A i \in 1 .. l : text[i + 2] = mid[i]
  PROVE  SubSeq(text, 3, Len(text) - 1) = mid
  <1>1. PICK m \in Int : m = l + 2 /\ m = Len(text) - 1
    OBVIOUS
  <1>2. \A i \in 3 .. m : text[i] \in S
    <2>1. \A i \in 3 .. m : i \in 1 .. Len(text)
      BY <1>1
    <2> QED
      BY <2>1, ElementOfSeq
  <1>3. PICK inner : inner = SubSeq(text, 3, m)
    OBVIOUS
  <1>4. /\ inner \in Seq(S) /\ Len(inner) = (IF 3 <= m THEN m - 3 + 1 ELSE 0)
        /\ \A i \in 1 .. m - 3 + 1 : inner[i] = text[3 + i - 1]
    BY <1>2, <1>3, FromThird
  <1>5. Len(inner) = l
    BY <1>1, <1>4
  <1>6. \A i \in 1 .. l : 3 + i - 1 = i + 2 /\ i \in 1 .. m - 3 + 1
    BY <1>1
  <1>7. \A i \in 1 .. l : inner[i] = mid[i]
    BY <1>4, <1>6
  <1>8. inner = mid
    BY <1>4, <1>5, <1>7, SeqEqual
  <1> QED
    BY <1>1, <1>3, <1>8

LEMMA NoneCut ==
  ASSUME NEW S, NEW none \in Seq(S), Len(none) = 0, NEW K, K = {}
  PROVE  At(none, K) = none
  <1>1. PICK z \in Nat : z = 0
    OBVIOUS
  <1>2. Cardinality(K) = z
    BY <1>1, FS_EmptySet
  <1>3. At(none, K) = [k \in 1 .. z |-> none[Nth(K, k)]]
    BY <1>2 DEF At
  <1>4. \A k \in 1 .. z : none[Nth(K, k)] \in S
    BY <1>1
  <1>5. At(none, K) \in [1 .. z -> S]
    BY <1>3, <1>4
  <1>6. At(none, K) \in Seq(S) /\ Len(At(none, K)) = z
    BY <1>5, AsFunction
  <1>7. \A k \in 1 .. z : At(none, K)[k] = none[k]
    BY <1>1
  <1> QED
    BY <1>1, <1>6, <1>7, SeqEqual

LEMMA CutNothing == CutAtCommas(<<>>) = <<>>
  <1>1. PICK none \in Seq(Word) : none = <<>> /\ Len(none) = 0
    BY EmptySeq
  <1>2. PICK K : K = {i \in DOMAIN none : none[i] # ","}
    OBVIOUS
  <1>3. K = {}
    BY <1>1, <1>2
  <1>4. At(none, K) = none
    BY <1>1, <1>3, NoneCut
  <1>5. Len(Alone("")) = 1
    <2>1. "" \in Word
      BY DEF Word
    <2> QED
      BY <2>1, OneAlone
  <1>6. CutAtCommas(none) = At(none, K)
    BY <1>1, <1>2, <1>5 DEF CutAtCommas, Only, Alone
  <1> QED
    BY <1>1, <1>4, <1>6

LEMMA Placed ==
  ASSUME NEW l \in Nat, NEW i \in 1 .. l + 3, i # 1, i # 2, i # l + 3
  PROVE  \E k \in 1 .. l : i = k + 2
  <1>1. PICK k \in Int : k = i - 2
    OBVIOUS
  <1>2. k \in 1 .. l /\ i = k + 2
    BY <1>1
  <1> QED
    BY <1>2

\* Neither stands in between.
Without(mid, b, c) == \A i \in 1 .. Len(mid) : mid[i] # b /\ mid[i] # c

\* In such a text there is one bracket of each kind.
LEMMA OneOfEach ==
  ASSUME NEW S, NEW a \in S, NEW b \in S, NEW c \in S, NEW mid \in Seq(S),
         NEW text, Bracketed(text, a, b, mid, c),
         a # b, a # c, b # c, Without(mid, b, c)
  PROVE  /\ text[1] = a /\ text[Len(text)] = c
         /\ Count(text, b) = 1 /\ Count(text, c) = 1
         /\ SubSeq(text, 3, Len(text) - 1) = mid
  <1>l. PICK l \in Nat : l = Len(mid)
    BY LenProperties
  <1>1. /\ text \in Seq(S) /\ Len(text) = l + 3
        /\ text[1] = a /\ text[2] = b /\ text[l + 3] = c
        /\ \A i \in 1 .. l : text[i + 2] = mid[i]
    <2>1. /\ text \in Seq(S) /\ Len(text) = Len(mid) + 3
          /\ text[1] = a /\ text[2] = b /\ text[Len(mid) + 3] = c
          /\ \A i \in 1 .. Len(mid) : text[i + 2] = mid[i]
      BY BracketedParts
    <2> QED
      BY <1>l, <2>1
  <1>2. SubSeq(text, 3, Len(text) - 1) = mid
    BY <1>l, <1>1, BetweenBrackets
  <1>3. PICK n \in Nat : n = l + 3
    OBVIOUS
  <1>4. n # 1 /\ n # 2 /\ 2 \in 1 .. n /\ n \in 1 .. n
    BY <1>3
  <1>5. DOMAIN text = 1 .. n
    BY <1>1, <1>3
  <1>6. ASSUME NEW i \in 1 .. n
        PROVE  (text[i] = b <=> i = 2) /\ (text[i] = c <=> i = n)
    <2>1. CASE i = 1
      BY <1>1, <1>3, <1>4, <2>1
    <2>2. CASE i = 2
      BY <1>1, <1>3, <1>4, <2>2
    <2>3. CASE i = n
      BY <1>1, <1>3, <1>4, <2>3
    <2>4. CASE i # 1 /\ i # 2 /\ i # n
      <3>1. PICK k \in 1 .. l : i = k + 2
        BY <1>3, <2>4, Placed
      <3>2. text[i] = mid[k]
        BY <1>1, <3>1
      <3>3. mid[k] # b /\ mid[k] # c
        BY <1>l DEF Without
      <3> QED
        BY <2>4, <3>2, <3>3
    <2> QED
      BY <2>1, <2>2, <2>3, <2>4
  <1>7. Count(text, b) = 1
    <2>1. 2 \in DOMAIN text /\ \A i \in DOMAIN text : text[i] = b <=> i = 2
      BY <1>4, <1>5, <1>6
    <2> QED
      BY <2>1, CountOne
  <1>8. Count(text, c) = 1
    <2>1. n \in DOMAIN text /\ \A i \in DOMAIN text : text[i] = c <=> i = n
      BY <1>4, <1>5, <1>6
    <2> QED
      BY <2>1, CountOne
  <1> QED
    BY <1>1, <1>2, <1>7, <1>8

\* Anything there is in a text
Mark == Name \cup Word \cup {"(", ")", ","}

LEMMA Wider ==
  ASSUME NEW S, NEW T, S \subseteq T, NEW q \in Seq(S)
  PROVE  q \in Seq(T)
  OBVIOUS

LEMMA Marked ==
  /\ "(" \in Mark /\ ")" \in Mark /\ \A name \in Name : name \in Mark
  /\ \A mid \in Seq(Cell) : mid \in Seq(Mark)
  <1>1. Cell \subseteq Mark
    BY DEF Cell, Mark
  <1>2. \A mid \in Seq(Cell) : mid \in Seq(Mark)
    BY <1>1, Wider
  <1> QED
    BY <1>2 DEF Mark

LEMMA NoBrackets ==
  /\ \A w \in Cell : w # "(" /\ w # ")"
  /\ \A w \in Name : w # "(" /\ w # ")"
  BY DEF Cell, Word, Name

Open == "("
Close == ")"

LEMMA TextParts ==
  ASSUME NEW name \in Name, NEW mid \in Seq(Cell),
         NEW text, Bracketed(text, name, Open, mid, Close)
  PROVE  /\ name # "" => Valid(text)
         /\ text[1] = name /\ SubSeq(text, 3, Len(text) - 1) = mid
  <1>1. Open \in Mark /\ Close \in Mark /\ name \in Mark /\ mid \in Seq(Mark)
    BY Marked DEF Open, Close
  <1>2. name # Open /\ name # Close /\ Open # Close
    BY NoBrackets DEF Open, Close
  <1>3. Without(mid, Open, Close)
    <2>1. \A i \in 1 .. Len(mid) : mid[i] \in Cell
      BY ElementOfSeq
    <2> QED
      BY <2>1, NoBrackets DEF Without, Open, Close
  <1>4. /\ text[1] = name /\ text[Len(text)] = Close
        /\ Count(text, Open) = 1 /\ Count(text, Close) = 1
        /\ SubSeq(text, 3, Len(text) - 1) = mid
    BY <1>1, <1>2, <1>3, OneOfEach
  <1>5. name # "" => Valid(text)
    BY <1>2, <1>4 DEF Valid, Open, Close
  <1> QED
    BY <1>4, <1>5

LEMMA AppendedIsBracketed ==
  ASSUME NEW S, NEW a \in S, NEW b \in S, NEW c \in S, NEW mid \in Seq(S)
  PROVE  Bracketed((<<a, b>> \o mid) \o <<c>>, a, b, mid, c)
  <1>1. Fronted(a, b, mid) \in Seq(S)
    <2>1. PICK l \in Nat : l = Len(mid)
      OBVIOUS
    <2> QED
      BY <2>1, FrontedParts
  <1>2. Append(Fronted(a, b, mid), c) = Fronted(a, b, mid) \o <<c>>
    BY <1>1, AppendIsConcat
  <1> QED
    BY <1>2 DEF Bracketed, Fronted

\* What ToText() puts between the brackets
Inside(args) == IF args = <<>> THEN <<>> ELSE Listed(args)

LEMMA MadeText ==
  ASSUME NEW name \in Name, NEW args \in Seq(Word)
  PROVE  /\ Inside(args) \in Seq(Cell)
         /\ Bracketed(ToText([name |-> name, args |-> args]), name, Open, Inside(args), Close)
  <1>1. Inside(args) \in Seq(Cell)
    <2>1. CASE args = <<>>
      BY <2>1, EmptySeq DEF Inside
    <2>2. CASE args # <<>>
      <3>1. Listed(args) \in Seq(Cell)
        BY <2>2, ListedWords
      <3> QED
        BY <2>2, <3>1 DEF Inside
    <2> QED
      BY <2>1, <2>2
  <1>2. ToText([name |-> name, args |-> args]) = (<<name, "(">> \o Inside(args)) \o <<")">>
    BY DEF ToText, Listed, Inside
  <1>3. "(" \in Mark /\ ")" \in Mark /\ name \in Mark /\ Inside(args) \in Seq(Mark)
    BY <1>1, Marked
  <1> QED
    BY <1>1, <1>2, <1>3, AppendedIsBracketed DEF Open, Close

\* A signature is read back from its text.
LEMMA ParseBack ==
  ASSUME NEW name \in Name, NEW args \in Seq(Word), name # "", args # Alone("")
  PROVE  Parse(ToText([name |-> name, args |-> args])) = [name |-> name, args |-> args]
  <1>1. PICK mid \in Seq(Cell) : mid = Inside(args)
    BY MadeText
  <1>2. PICK text : text = ToText([name |-> name, args |-> args])
    OBVIOUS
  <1>3. Bracketed(text, name, Open, mid, Close)
    BY <1>1, <1>2, MadeText
  <1>4. Valid(text) /\ text[1] = name /\ SubSeq(text, 3, Len(text) - 1) = mid
    BY <1>3, TextParts
  <1>5. Parse(text) = [name |-> name, args |-> CutAtCommas(mid)]
    BY <1>4 DEF Parse
  <1>6. CutAtCommas(mid) = args
    <2>1. CASE args # <<>>
      BY <1>1, <2>1, CutBack DEF Inside
    <2>2. CASE args = <<>>
      BY <1>1, <2>2, CutNothing DEF Inside
    <2> QED
      BY <2>1, <2>2
  <1> QED
    BY <1>2, <1>5, <1>6

-----------------------------------------------------------------------------
(* The values there are, and what is read of them.                          *)

ReturnKinds == {"variant", "error", "service", "asyncronous"}
ReturnType ==
  [type : ReturnKinds, number : Contents \cup {0}, pointer : Contents \cup {0},
   held : BOOLEAN, serviceId : Contents \cup {0}, variant : Contents \cup {0}]

\* Signatures have a name and types without marks, return values all their fields.
ReadInv ==
  /\ ValuesInv
  /\ class = "signature" => \A h \in Handles : Value(h) \in SignatureType
  /\ class = "returnValue" => \A h \in Handles : Value(h) \in ReturnType

\* All values are still of a type after a step that gives a handle one of it.
LEMMA PointTyped ==
  ASSUME ValuesInv, NEW T, \A k \in Handles : Value(k) \in T,
         NEW h \in Handles, NEW d \in Places, NEW v \in T, Point(h, d, v)
  PROVE  \A k \in Handles : Value(k)' \in T
  <1>1. /\ datum' = [datum EXCEPT ![h] = d]
        /\ data' = [e \in Places |-> IF e = d THEN v
                                     ELSE IF \E g \in Handles \ {h} : datum[g] = e THEN data[e]
                                     ELSE Free]
    BY DEF Point, Holds
  <1>2. datum \in [Handles -> Places] /\ datum' = [datum EXCEPT ![h] = d]
    BY <1>1 DEF ValuesInv
  <1>3. Value(h)' \in T
    <2>1. datum'[h] = d /\ data'[d] = v
      BY <1>1, <1>2
    <2> QED
      BY <2>1 DEF Value
  <1>4. ASSUME NEW k \in Handles \ {h} PROVE Value(k)' \in T
    <2>1. datum'[k] = datum[k] /\ datum[k] \in Places
      BY <1>2
    <2>2. data'[datum[k]] = v \/ data'[datum[k]] = data[datum[k]]
      BY <1>1, <2>1
    <2>3. data[datum[k]] \in T
      BY DEF Value
    <2> QED
      BY <2>1, <2>2, <2>3 DEF Value
  <1> QED
    BY <1>3, <1>4

LEMMA PlaceTyped ==
  ASSUME ValuesInv, NEW T, \A k \in Handles : Value(k) \in T,
         NEW h \in Handles, NEW v \in T, Place(h, v)
  PROVE  \A k \in Handles : Value(k)' \in T
  <1>1. CASE \A g \in Handles \ {h} : ~Holds(g, datum[h])
    <2>1. Point(h, datum[h], v) /\ datum[h] \in Places
      BY <1>1 DEF Place, ValuesInv
    <2> QED
      BY <2>1, PointTyped
  <1>2. CASE ~\A g \in Handles \ {h} : ~Holds(g, datum[h])
    <2>1. Point(h, Fresh, v)
      BY <1>2 DEF Place
    <2>2. PICK g \in Handles \ {h} : datum[g] = datum[h]
      BY <1>2 DEF Holds
    <2>3. Fresh \in Places
      BY <2>2, FreshThere
    <2> QED
      BY <2>1, <2>3, PointTyped
  <1> QED
    BY <1>1, <1>2

LEMMA CopyTyped ==
  ASSUME ValuesInv, NEW T, \A k \in Handles : Value(k) \in T,
         NEW h \in Handles, NEW g \in Handles, Copy(h, g)
  PROVE  \A k \in Handles : Value(k)' \in T
  <1>1. PICK d \in Places, v \in T : d = datum[g] /\ v = Value(g)
    BY DEF ValuesInv
  <1>2. Point(h, d, v)
    BY <1>1 DEF Copy
  <1> QED
    BY <1>2, PointTyped

LEMMA ReplacedTyped ==
  ASSUME NEW S, NEW q \in Seq(S), NEW i, NEW w \in S
  PROVE  [q EXCEPT ![i] = w] \in Seq(S)
  <1>1. PICK l \in Nat : l = Len(q) /\ DOMAIN q = 1 .. l
    OBVIOUS
  <1>2. PICK f : f = [q EXCEPT ![i] = w]
    OBVIOUS
  <1>3. f = [j \in 1 .. l |-> IF j = i THEN w ELSE q[j]]
    BY <1>1, <1>2
  <1>4. \A j \in 1 .. l : q[j] \in S
    BY <1>1, ElementIn
  <1>5. f \in [1 .. l -> S]
    BY <1>3, <1>4
  <1> QED
    BY <1>2, <1>5, AsFunction

\* Each way to make or change a signature makes one.
LEMMA SignatureMade ==
  ASSUME NEW sig \in SignatureType
  PROVE  /\ \A text \in Texts : Reparse(sig, text) \in SignatureType
         /\ \A n \in Names : SetName(sig, n) \in SignatureType
         /\ \A args \in ArgLists : SetArgs(sig, args) \in SignatureType
         /\ \A num \in 0 .. 2 : SetNumArgs(sig, num) \in SignatureType
         /\ \A num \in 0 .. 1, type \in Types : SetArg(sig, num, type) \in SignatureType
  <1>1. PICK name \in Name, args \in Seq(Word) : sig = [name |-> name, args |-> args]
    BY DEF SignatureType
  <1>2. \A w \in Types : w \in Word
    BY TextsAssumption DEF Word
  <1>3. \A n \in Name, a \in Seq(Word) : [name |-> n, args |-> a] \in SignatureType
    BY DEF SignatureType
  <1>4. ASSUME NEW text \in Texts PROVE Reparse(sig, text) \in SignatureType
    <2>1. [sig EXCEPT !.args = <<>>] = [name |-> name, args |-> <<>>]
      BY <1>1
    <2>2. <<>> \in Seq(Word)
      BY EmptySeq
    <2> QED
      BY <1>3, <2>1, <2>2, ParsedType DEF Reparse
  <1>5. ASSUME NEW n \in Names PROVE SetName(sig, n) \in SignatureType
    <2>1. SetName(sig, n) = [name |-> n, args |-> args]
      BY <1>1 DEF SetName
    <2>2. n \in Name
      BY TextsAssumption DEF Name
    <2> QED
      BY <1>3, <2>1, <2>2
  <1>6. ASSUME NEW a \in ArgLists PROVE SetArgs(sig, a) \in SignatureType
    <2>1. PICK n \in 0 .. 2 : a \in [1 .. n -> Types]
      BY DEF ArgLists
    <2>2. a \in [1 .. n -> Word] /\ n \in Nat
      BY <1>2, <2>1
    <2>3. a \in Seq(Word)
      BY <2>2, AsFunction
    <2>4. SetArgs(sig, a) = [name |-> name, args |-> a]
      BY <1>1 DEF SetArgs
    <2> QED
      BY <1>3, <2>3, <2>4
  <1>7. ASSUME NEW num \in 0 .. 2 PROVE SetNumArgs(sig, num) \in SignatureType
    <2>1. PICK a : a = [i \in 1 .. num |-> IF i \in DOMAIN args THEN args[i] ELSE ""]
      OBVIOUS
    <2>2. \A i \in DOMAIN args : args[i] \in Word
      BY ElementIn
    <2>0. "" \in Word
      BY DEF Word
    <2>3. num \in Nat
      OBVIOUS
    <2>4. a \in [1 .. num -> Word]
      BY <2>0, <2>1, <2>2
    <2>5. a \in Seq(Word)
      BY <2>3, <2>4, AsFunction
    <2>6. SetNumArgs(sig, num) = [name |-> name, args |-> a]
      <3>1. sig.args = args /\ sig.name = name /\ sig = [name |-> name, args |-> args]
        BY <1>1
      <3>2. SetNumArgs(sig, num) = [sig EXCEPT !.args = a]
        BY <2>1, <3>1 DEF SetNumArgs
      <3>3. [sig EXCEPT !.args = a] = [name |-> name, args |-> a]
        BY <3>1
      <3> QED
        BY <3>2, <3>3
    <2> QED
      BY <1>3, <2>5, <2>6
  <1>8. ASSUME NEW num \in 0 .. 1, NEW type \in Types PROVE SetArg(sig, num, type) \in SignatureType
    <2>1. CASE num < Len(sig.args)
      <3>1. PICK a : a = [args EXCEPT ![num + 1] = type]
        OBVIOUS
      <3>2. SetArg(sig, num, type) = [name |-> name, args |-> a]
        BY <1>1, <2>1, <3>1 DEF SetArg
      <3>3. PICK w \in Word : w = type
        BY <1>2
      <3>4. a \in Seq(Word)
        BY <1>1, <2>1, <3>1, <3>3, ReplacedTyped
      <3> QED
        BY <1>3, <3>2, <3>4
    <2>2. CASE ~(num < Len(sig.args))
      BY <2>2 DEF SetArg
    <2> QED
      BY <2>1, <2>2
  <1> QED
    BY <1>4, <1>5, <1>6, <1>7, <1>8

LEMMA SignatureTyped ==
  ASSUME ReadInv, NEW h \in Handles, SignatureStep(h)
  PROVE  \A k \in Handles : Value(k)' \in SignatureType
  <1>1. ValuesInv /\ \A k \in Handles : Value(k) \in SignatureType
    BY DEF SignatureStep, ReadInv
  <1>2. \E v \in SignatureType : Place(h, v)
    <2>1. PICK sig \in SignatureType : sig = Value(h)
      BY <1>1
    <2> QED
      BY <2>1, SignatureMade, ParsedType DEF SignatureStep, Construct, Change
  <1> QED
    BY <1>1, <1>2, PlaceTyped

\* Each way to make or change a return value makes one.
LEMMA ReturnMade ==
  /\ NoReturn \in ReturnType /\ Asyncronous \in ReturnType
  /\ \A c \in Contents : OfVariant(c) \in ReturnType /\ OfError(c) \in ReturnType
  /\ \A c \in Contents, held \in BOOLEAN : OfService(c, held) \in ReturnType
  /\ \A ret \in ReturnType, c \in Contents : SetServiceId(ret, c) \in ReturnType
  /\ \A ret, other \in ReturnType : Read(ret, other) \in ReturnType
  <1>1. \A kind \in ReturnKinds, n, p, i, v \in Contents \cup {0}, held \in BOOLEAN :
          [type |-> kind, number |-> n, pointer |-> p, held |-> held, serviceId |-> i,
           variant |-> v] \in ReturnType
    BY DEF ReturnType
  <1>2. /\ "variant" \in ReturnKinds /\ "error" \in ReturnKinds
        /\ "service" \in ReturnKinds /\ "asyncronous" \in ReturnKinds
    BY DEF ReturnKinds
  <1>0. 0 \in Contents \cup {0} /\ FALSE \in BOOLEAN
    OBVIOUS
  <1>3. NoReturn \in ReturnType
    BY <1>0, <1>1, <1>2 DEF NoReturn
  <1>4. Asyncronous \in ReturnType
    BY <1>2, <1>3 DEF Asyncronous, ReturnType
  <1>5. \A c \in Contents : OfVariant(c) \in ReturnType
    BY <1>3 DEF OfVariant, ReturnType
  <1>6. \A c \in Contents : OfError(c) \in ReturnType
    BY <1>2, <1>3 DEF OfError, ReturnType
  <1>7. \A c \in Contents, held \in BOOLEAN : OfService(c, held) \in ReturnType
    BY <1>2, <1>3 DEF OfService, ReturnType
  <1>8. \A ret \in ReturnType, c \in Contents : SetServiceId(ret, c) \in ReturnType
    BY <1>2 DEF SetServiceId, ReturnType
  <1>9. ASSUME NEW ret \in ReturnType, NEW other \in ReturnType
        PROVE  Read(ret, other) \in ReturnType
    <2>2. [ret EXCEPT !.type = other.type, !.serviceId = other.serviceId] \in ReturnType
      BY DEF ReturnType
    <2>3. [ret EXCEPT !.type = other.type, !.number = other.number] \in ReturnType
      BY DEF ReturnType
    <2>4. [ret EXCEPT !.type = other.type, !.variant = other.variant] \in ReturnType
      BY DEF ReturnType
    <2> QED
      BY <2>2, <2>3, <2>4 DEF Read
  <1> QED
    BY <1>3, <1>4, <1>5, <1>6, <1>7, <1>8, <1>9

LEMMA ReturnTyped ==
  ASSUME ReadInv, NEW h \in Handles, ReturnStep(h)
  PROVE  \A k \in Handles : Value(k)' \in ReturnType
  <1>1. ValuesInv /\ \A k \in Handles : Value(k) \in ReturnType
    BY DEF ReturnStep, ReadInv
  <1>2. \E v \in ReturnType : Place(h, v)
    <2>1. PICK ret \in ReturnType : ret = Value(h)
      BY <1>1
    <2> QED
      BY <1>1, <2>1, ReturnMade DEF ReturnStep, Construct, Change
  <1> QED
    BY <1>1, <1>2, PlaceTyped

\* parseReturn() leaves the fields there are, past the sharing too.
LEMMA SharedTyped ==
  ASSUME ReadInv, NEW h \in Handles, ParseShared(h)
  PROVE  \A k \in Handles : Value(k)' \in ReturnType
  <1>1. ValuesInv /\ \A k \in Handles : Value(k) \in ReturnType
    BY DEF ParseShared, ReadInv
  <1>2. UNCHANGED datum
    BY DEF ParseShared
  <1>3. PICK c \in Contents :
          data' = [data EXCEPT ![datum[h]] = [@ EXCEPT !.held = TRUE, !.serviceId = c]]
    BY DEF ParseShared
  <1>4. PICK ret \in ReturnType : ret = data[datum[h]]
    BY <1>1 DEF Value
  <1>5. PICK new \in ReturnType : new = [ret EXCEPT !.held = TRUE, !.serviceId = c]
    BY DEF ReturnType
  <1>6. data' = [data EXCEPT ![datum[h]] = new]
    BY <1>3, <1>4, <1>5
  <1>7. ASSUME NEW k \in Handles PROVE Value(k)' \in ReturnType
    <2>1. data[datum[k]] \in ReturnType
      BY <1>1 DEF Value
    <2>2. data'[datum[k]] \in ReturnType
      BY <1>6, <2>1
    <2> QED
      BY <1>2, <2>2 DEF Value
  <1> QED
    BY <1>7

LEMMA ReadStep ==
  ASSUME ReadInv, ValuesNext
  PROVE  ReadInv'
  <1>1. ValuesInv /\ ValuesInv'
    BY ValuesStepKeeps DEF ReadInv
  <1>2. UNCHANGED class
    <2>1. \A h \in Handles : \A d, v : Point(h, d, v) => UNCHANGED class
      BY DEF Point
    <2>2. \A h \in Handles : \A v : Place(h, v) => UNCHANGED class
      BY <2>1 DEF Place
    <2> QED
      BY <2>1, <2>2 DEF ValuesNext, SignatureStep, ReturnStep, ParseShared, MessageStep,
           Construct, Change, Copy
  <1>3. ASSUME NEW h \in Handles, SignatureStep(h) PROVE ReadInv'
    <2>1. class = "signature" /\ \A k \in Handles : Value(k)' \in SignatureType
      BY <1>3, SignatureTyped DEF SignatureStep
    <2>2. class' = "signature" /\ class' # "returnValue"
      BY <1>2, <2>1
    <2> QED
      BY <1>1, <2>1, <2>2 DEF ReadInv
  <1>4. ASSUME NEW h \in Handles, ReturnStep(h) \/ ParseShared(h) PROVE ReadInv'
    <2>1. class = "returnValue" /\ \A k \in Handles : Value(k)' \in ReturnType
      BY <1>4, ReturnTyped, SharedTyped DEF ReturnStep, ParseShared
    <2>2. class' = "returnValue" /\ class' # "signature"
      BY <1>2, <2>1
    <2> QED
      BY <1>1, <2>1, <2>2 DEF ReadInv
  <1>5. ASSUME NEW h \in Handles, MessageStep(h) PROVE ReadInv'
    <2>1. class' # "signature" /\ class' # "returnValue"
      BY <1>2, <1>5 DEF MessageStep
    <2> QED
      BY <1>1, <2>1 DEF ReadInv
  <1>6. ASSUME NEW h \in Handles, NEW g \in Handles, Copy(h, g) PROVE ReadInv'
    <2>1. class' = "signature" => \A k \in Handles : Value(k)' \in SignatureType
      BY <1>1, <1>2, <1>6, CopyTyped DEF ReadInv
    <2>2. class' = "returnValue" => \A k \in Handles : Value(k)' \in ReturnType
      BY <1>1, <1>2, <1>6, CopyTyped DEF ReadInv
    <2> QED
      BY <1>1, <2>1, <2>2 DEF ReadInv
  <1> QED
    BY <1>3, <1>4, <1>5, <1>6 DEF ValuesNext

LEMMA ReadStart ==
  ASSUME ValuesInit
  PROVE  ReadInv
  <1>1. ValuesInv
    BY ValuesStart
  <1>2. \A h \in Handles : Value(h) = Default
    BY <1>1 DEF ValuesInit, ValuesInv, Value
  <1>3. class = "signature" => Default \in SignatureType
    <2>1. PICK name \in Name : name = ""
      BY DEF Name
    <2>2. PICK args \in Seq(Word) : args = <<>>
      BY EmptySeq
    <2>3. class = "signature" => Default = [name |-> name, args |-> args]
      BY <2>1, <2>2 DEF Default
    <2> QED
      BY <2>3 DEF SignatureType
  <1>4. class = "returnValue" => Default \in ReturnType
    <2>1. class = "returnValue" => Default = NoReturn
      BY DEF Default
    <2> QED
      BY <2>1, ReturnMade
  <1> QED
    BY <1>1, <1>2, <1>3, <1>4 DEF ReadInv

LEMMA ReadKept ==
  ASSUME ReadInv, [CallsNext]_callsVars
  PROVE  ReadInv'
  <1>1. CASE ValuesStep
    BY <1>1, ReadStep DEF ValuesStep
  <1>2. CASE UNCHANGED valueVars
    BY <1>2 DEF valueVars, ReadInv, ValuesInv, Places, Value
  <1> QED
    BY <1>1, <1>2 DEF CallsNext, callsVars, DispatchStep, FramingStep, TableStep, AuthStep

\* What a return value shows is what is read of it, whatever the one had that reads it.
LEMMA ShownBack ==
  ASSUME NEW ret \in ReturnType, NEW other \in ReturnType
  PROVE  Shows(Read(ret, other)) = Shows(other)
  <1>1. CASE other.type = "service"
    <2>1. Read(ret, other).type = other.type /\ Read(ret, other).serviceId = other.serviceId
      BY <1>1 DEF Read, ReturnType
    <2> QED
      BY <1>1, <2>1 DEF Shows
  <1>2. CASE other.type = "error"
    <2>1. Read(ret, other).type = other.type /\ Read(ret, other).number = other.number
      BY <1>2 DEF Read, ReturnType
    <2> QED
      BY <1>2, <2>1 DEF Shows
  <1>3. CASE other.type # "service" /\ other.type # "error"
    <2>1. Read(ret, other).type = other.type /\ Read(ret, other).variant = other.variant
      BY <1>3 DEF Read, ReturnType
    <2> QED
      BY <1>3, <2>1 DEF Shows
  <1> QED
    BY <1>1, <1>2, <1>3

LEMMA ReadBack ==
  ASSUME ReadInv
  PROVE  ReadsBack
  <1>1. ASSUME class = "signature", NEW h \in Handles, Value(h).name # "", Value(h).args # <<"">>
        PROVE  Parse(ToText(Value(h))) = Value(h)
    <2>1. PICK name \in Name, args \in Seq(Word) : Value(h) = [name |-> name, args |-> args]
      BY <1>1 DEF ReadInv, SignatureType
    <2>2. Value(h).name = name /\ Value(h).args = args
      BY <2>1
    <2>3. name # ""
      BY <1>1, <2>2
    <2>4. Value(h).args # Alone("")
      BY <1>1 DEF Alone
    <2> QED
      BY <2>1, <2>2, <2>3, <2>4, ParseBack
  <1>2. ASSUME class = "returnValue", NEW g \in Handles, NEW h \in Handles
        PROVE  Shows(Read(Value(g), Value(h))) = Shows(Value(h))
    BY <1>2, ShownBack DEF ReadInv
  <1> QED
    BY <1>1, <1>2 DEF ReadsBack

\* What is written is what is read: a message is handled as it was written whatever the
\* cuts and the change of version, and a value reads back as the application made it:
\* ReadAsWritten.
THEOREM WrittenIsRead == CallsSpec => []ReadAsWritten
  <1>1. CallsInit => FrameInv /\ ReadInv
    BY FrameStart, ReadStart DEF CallsInit
  <1>2. FrameInv /\ ReadInv /\ [CallsNext]_callsVars => FrameInv' /\ ReadInv'
    BY FramesStep, FrameKeeps, ReadKept
  <1>3. FrameInv /\ ReadInv => ReadAsWritten
    BY NothingLeft, ReadBack DEF ReadAsWritten
  <1> QED
    BY <1>1, <1>2, <1>3, PTL DEF CallsSpec

-----------------------------------------------------------------------------
(* What is called for a method.                                             *)

Param == [type : STRING, at : Nat]

MethodType == [kind : {"signal", "slot"}, type : STRING, text : Seq(STRING), cloned : BOOLEAN]

\* What ClassesAssumption says of a class
Described(cls) ==
  /\ cls \in Seq(MethodType)
  /\ \A i \in DOMAIN cls :
       /\ Valid(cls[i].text) /\ ~IsAsync(OwnSig(cls[i]).args)
       /\ \A j \in DOMAIN cls : Parse(cls[i].text) = Parse(cls[j].text) => i = j

LEMMA AllDescribed ==
  ASSUME NEW cls \in ClientClasses \cup ServerClasses
  PROVE  Described(cls)
  BY ClassesAssumption DEF Described, MethodType

\* The arguments of a method, and what it is emitted with
ArgsOf(cls, i) == Parse(cls[i].text).args

LEMMA CutTyped ==
  ASSUME NEW words \in Seq(STRING)
  PROVE  CutAtCommas(words) \in Seq(STRING)
  <1>1. PICK K \in SUBSET (DOMAIN words) : K = {i \in DOMAIN words : words[i] # ","}
    OBVIOUS
  <1>2. At(words, K) \in Seq(STRING)
    BY AtElements
  <1>3. CutAtCommas(words) = <<>> \/ CutAtCommas(words) = At(words, K)
    BY <1>1 DEF CutAtCommas, Only
  <1> QED
    BY <1>2, <1>3, EmptySeq

LEMMA ParsedArgs ==
  ASSUME NEW text \in Seq(STRING), Valid(text)
  PROVE  /\ Parse(text) = [name |-> text[1], args |-> Parse(text).args]
         /\ Parse(text).args \in Seq(STRING) /\ Parse(text).name = text[1] /\ text[1] # ""
  <1>0. Len(text) \in Nat
    BY LenProperties
  <1>1. PICK m \in Int : m = Len(text) - 1
    BY <1>0
  <1>2. \A j \in 3 .. m : text[j] \in STRING
    <2>1. \A j \in 3 .. m : j \in 1 .. Len(text)
      BY <1>0, <1>1
    <2> QED
      BY <2>1, ElementOfSeq
  <1>3. PICK words \in Seq(STRING) : words = SubSeq(text, 3, Len(text) - 1)
    BY <1>1, <1>2, FromThird
  <1>4. PICK args \in Seq(STRING) : args = CutAtCommas(words)
    BY CutTyped
  <1>5. PICK name : name = text[1]
    OBVIOUS
  <1>6. Parse(text) = [name |-> name, args |-> args]
    BY <1>3, <1>4, <1>5 DEF Parse
  <1>7. Parse(text).args = args /\ Parse(text).name = name
    BY <1>6
  <1>8. text[1] # ""
    BY DEF Valid
  <1> QED
    BY <1>5, <1>6, <1>7, <1>8

LEMMA MethodParts ==
  ASSUME NEW cls, Described(cls), NEW i \in DOMAIN cls
  PROVE  /\ Parse(cls[i].text) = [name |-> Parse(cls[i].text).name, args |-> ArgsOf(cls, i)]
         /\ ArgsOf(cls, i) \in Seq(STRING) /\ Parse(cls[i].text).name # ""
  <1>1. cls[i].text \in Seq(STRING) /\ Valid(cls[i].text)
    <2>1. cls \in Seq(MethodType) /\ Valid(cls[i].text)
      BY DEF Described
    <2>2. cls[i] \in MethodType
      BY <2>1, ElementIn
    <2> QED
      BY <2>1, <2>2 DEF MethodType
  <1>2. PICK text \in Seq(STRING) : text = cls[i].text
    BY <1>1
  <1> QED
    BY <1>1, <1>2, ParsedArgs DEF ArgsOf

LEMMA ParamsTyped ==
  ASSUME NEW cls, Described(cls), NEW i \in DOMAIN cls
  PROVE  /\ Params(cls, i) \in Seq(Param) /\ Len(Params(cls, i)) = Len(ArgsOf(cls, i))
         /\ Len(ArgsOf(cls, i)) \in Nat
         /\ \A k \in 1 .. Len(ArgsOf(cls, i)) : Params(cls, i)[k].type = ArgsOf(cls, i)[k]
  <1>1. PICK args \in Seq(STRING) : args = ArgsOf(cls, i)
    BY MethodParts
  <1>2. PICK l \in Nat : l = Len(args) /\ DOMAIN args = 1 .. l
    OBVIOUS
  <1>3. Params(cls, i) = [k \in 1 .. l |-> [type |-> args[k], at |-> k]]
    BY <1>1, <1>2 DEF Params, ArgsOf
  <1>4. \A k \in 1 .. l : args[k] \in STRING /\ k \in Nat
    BY <1>2, ElementIn
  <1>5. \A k \in 1 .. l : [type |-> args[k], at |-> k] \in Param
    BY <1>4 DEF Param
  <1>6. Params(cls, i) \in [1 .. l -> Param]
    BY <1>3, <1>5
  <1>7. Params(cls, i) \in Seq(Param) /\ Len(Params(cls, i)) = l
    BY <1>6, AsFunction
  <1>8. \A k \in 1 .. l : Params(cls, i)[k].type = args[k]
    BY <1>3
  <1> QED
    BY <1>1, <1>2, <1>7, <1>8

LEMMA WithoutTwoParts ==
  ASSUME NEW S, NEW q \in Seq(S), Len(q) >= 2
  PROVE  /\ WithoutTwo(q) \in Seq(S) /\ Len(WithoutTwo(q)) = Len(q) - 2
         /\ \A k \in 1 .. Len(q) - 2 : WithoutTwo(q)[k] = q[k + 2]
  <1>1. PICK m \in Int : m = Len(q) /\ m >= 2
    OBVIOUS
  <1>2. \A j \in 3 .. m : q[j] \in S
    <2>1. \A j \in 3 .. m : j \in 1 .. Len(q)
      BY <1>1
    <2> QED
      BY <2>1, ElementOfSeq
  <1>3. /\ SubSeq(q, 3, m) \in Seq(S)
        /\ Len(SubSeq(q, 3, m)) = (IF 3 <= m THEN m - 3 + 1 ELSE 0)
        /\ \A k \in 1 .. m - 3 + 1 : SubSeq(q, 3, m)[k] = q[3 + k - 1]
    BY <1>1, <1>2, FromThird
  <1>4. WithoutTwo(q) = SubSeq(q, 3, m)
    BY <1>1 DEF WithoutTwo
  <1>5. (IF 3 <= m THEN m - 3 + 1 ELSE 0) = m - 2 /\ m - 3 + 1 = m - 2
    BY <1>1
  <1>6. \A k \in 1 .. m - 2 : 3 + k - 1 = k + 2
    OBVIOUS
  <1> QED
    BY <1>1, <1>3, <1>4, <1>5, <1>6

\* What is put in front is taken away again.
LEMMA WithoutTwoInFront ==
  ASSUME NEW S, NEW a \in S, NEW b \in S, NEW q \in Seq(S)
  PROVE  /\ Fronted(a, b, q) \in Seq(S) /\ Len(Fronted(a, b, q)) = Len(q) + 2 /\ Len(q) \in Nat
         /\ Fronted(a, b, q)[1] = a /\ Fronted(a, b, q)[2] = b
         /\ \A k \in 1 .. Len(q) : Fronted(a, b, q)[k + 2] = q[k]
         /\ WithoutTwo(Fronted(a, b, q)) = q
  <1>1. PICK l \in Nat : l = Len(q)
    BY LenProperties
  <1>2. PICK front \in Seq(S) : /\ front = Fronted(a, b, q) /\ Len(front) = l + 2
                                /\ front[1] = a /\ front[2] = b
                                /\ \A k \in 1 .. l : front[k + 2] = q[k]
    <2>1. /\ Fronted(a, b, q) \in Seq(S) /\ Len(Fronted(a, b, q)) = l + 2
          /\ Fronted(a, b, q)[1] = a /\ Fronted(a, b, q)[2] = b
          /\ \A k \in 1 .. l : Fronted(a, b, q)[k + 2] = q[k]
      BY <1>1, FrontedParts
    <2> HIDE DEF Fronted
    <2> QED
      BY <2>1
  <1>3. Len(front) >= 2 /\ Len(front) - 2 = l
    BY <1>2
  <1>4. /\ WithoutTwo(front) \in Seq(S) /\ Len(WithoutTwo(front)) = l
        /\ \A k \in 1 .. l : WithoutTwo(front)[k] = front[k + 2]
    BY <1>3, WithoutTwoParts
  <1>5. WithoutTwo(front) = q
    BY <1>1, <1>2, <1>4, SeqEqual
  <1> QED
    BY <1>1, <1>2, <1>5

\* The signature a method has of its own, and the values for it
LEMMA OwnParts ==
  ASSUME NEW cls, Described(cls), NEW i \in DOMAIN cls
  PROVE  /\ OwnSig(cls[i]).args \in Seq(STRING)
         /\ OwnSig(cls[i]) = [name |-> Parse(cls[i].text).name, args |-> OwnSig(cls[i]).args]
         /\ IF IsAsync(ArgsOf(cls, i))
            THEN /\ OwnSig(cls[i]).args = WithoutTwo(ArgsOf(cls, i))
                 /\ Own(cls[i], Params(cls, i)) = WithoutTwo(Params(cls, i))
            ELSE /\ OwnSig(cls[i]).args = ArgsOf(cls, i)
                 /\ OwnSig(cls[i]) = Parse(cls[i].text)
                 /\ Own(cls[i], Params(cls, i)) = Params(cls, i)
         /\ Own(cls[i], Params(cls, i)) \in Seq(Param)
         /\ Len(Own(cls[i], Params(cls, i))) = Len(OwnSig(cls[i]).args)
         /\ \A k \in 1 .. Len(OwnSig(cls[i]).args) :
              Own(cls[i], Params(cls, i))[k].type = OwnSig(cls[i]).args[k]
  <1>n. PICK name : name = Parse(cls[i].text).name
    OBVIOUS
  <1>a. PICK args \in Seq(STRING) : args = ArgsOf(cls, i)
    BY MethodParts
  <1>1. /\ Parse(cls[i].text) = [name |-> name, args |-> args]
        /\ name = Parse(cls[i].text).name /\ args = ArgsOf(cls, i)
    BY <1>n, <1>a, MethodParts
  <1>2. PICK params \in Seq(Param) :
          /\ params = Params(cls, i) /\ Len(params) = Len(args) /\ Len(args) \in Nat
          /\ \A k \in 1 .. Len(args) : params[k].type = args[k]
    BY <1>1, ParamsTyped
  <1>3. Parse(cls[i].text).args = args
    BY <1>1
  <1>4. CASE IsAsync(args)
    <2>1. Len(args) >= 2
      BY <1>4 DEF IsAsync
    <2>2. PICK less \in Seq(STRING) : less = WithoutTwo(args) /\ Len(less) = Len(args) - 2
                          /\ \A k \in 1 .. Len(args) - 2 : less[k] = args[k + 2]
      BY <2>1, WithoutTwoParts
    <2>3. PICK own \in Seq(Param) : own = WithoutTwo(params) /\ Len(own) = Len(args) - 2
                          /\ \A k \in 1 .. Len(args) - 2 : own[k] = params[k + 2]
      BY <1>2, <2>1, WithoutTwoParts
    <2>4. OwnSig(cls[i]) = [Parse(cls[i].text) EXCEPT !.args = WithoutTwo(@)]
      BY <1>3, <1>4 DEF OwnSig
    <2>5. OwnSig(cls[i]) = [name |-> name, args |-> less]
      BY <1>1, <1>3, <2>2, <2>4
    <2>6. Own(cls[i], Params(cls, i)) = own
      BY <1>2, <1>3, <1>4, <2>3 DEF Own
    <2>7. \A k \in 1 .. Len(args) - 2 : k + 2 \in 1 .. Len(args)
      BY <1>2
    <2>8. \A k \in 1 .. Len(less) : own[k].type = less[k]
      BY <1>2, <2>2, <2>3, <2>7
    <2>9. OwnSig(cls[i]).args = less
      BY <2>5
    <2> QED
      BY <1>1, <1>2, <1>4, <2>2, <2>3, <2>5, <2>6, <2>8, <2>9
  <1>5. CASE ~IsAsync(args)
    <2>1. OwnSig(cls[i]) = Parse(cls[i].text)
      BY <1>3, <1>5 DEF OwnSig
    <2>2. Own(cls[i], Params(cls, i)) = params
      BY <1>2, <1>3, <1>5 DEF Own
    <2> QED
      BY <1>1, <1>2, <1>3, <1>5, <2>1, <2>2
  <1> QED
    BY <1>4, <1>5

\* A test with the types a class declares passes.
LEMMA TestPasses ==
  ASSUME NEW args \in Seq(STRING), NEW values \in Seq(Param), Len(values) = Len(args),
         \A k \in 1 .. Len(args) : values[k].type = args[k]
  PROVE  Test(args, values)
  <1>1. DOMAIN args = 1 .. Len(args)
    OBVIOUS
  <1> QED
    BY <1>1 DEF Test

\* The first two arguments of a slot that answers later
ToAnswer == "QObject*"
ToSlot == "const char*"
Marks == {ToAnswer, ToSlot} \cup STRING
ForObject == [type |-> "QObject*", at |-> 0]
ForSlot == [type |-> "QString", at |-> 0]
Values2 == Param \cup {ForObject, ForSlot}

LEMMA LaterArgs ==
  ASSUME NEW name, NEW args \in Seq(STRING)
  PROVE  /\ AsyncSig([name |-> name, args |-> args])
              = [name |-> name, args |-> Fronted(ToAnswer, ToSlot, args)]
         /\ Fronted(ToAnswer, ToSlot, args) \in Seq(Marks)
         /\ Len(Fronted(ToAnswer, ToSlot, args)) = Len(args) + 2
         /\ Fronted(ToAnswer, ToSlot, args)[1] = ToAnswer
         /\ Fronted(ToAnswer, ToSlot, args)[2] = ToSlot
         /\ \A k \in 1 .. Len(args) : Fronted(ToAnswer, ToSlot, args)[k + 2] = args[k]
  <1>1. ToAnswer \in Marks /\ ToSlot \in Marks /\ args \in Seq(Marks)
    BY Wider DEF Marks
  <1>2. AsyncArgs \o args = Fronted(ToAnswer, ToSlot, args)
    BY DEF AsyncArgs, Fronted, ToAnswer, ToSlot
  <1>3. AsyncSig([name |-> name, args |-> args]) = [name |-> name, args |-> AsyncArgs \o args]
    <2>1. PICK sig : sig = [name |-> name, args |-> args]
      OBVIOUS
    <2>2. PICK more : more = AsyncArgs \o sig.args
      OBVIOUS
    <2>3. AsyncSig(sig) = [sig EXCEPT !.args = more]
      BY <2>2 DEF AsyncSig
    <2>4. sig.args = args
      BY <2>1
    <2>5. [sig EXCEPT !.args = more] = [name |-> name, args |-> more]
      BY <2>1
    <2> QED
      BY <2>1, <2>2, <2>3, <2>4, <2>5
  <1>4. /\ Fronted(ToAnswer, ToSlot, args) \in Seq(Marks)
        /\ Len(Fronted(ToAnswer, ToSlot, args)) = Len(args) + 2
        /\ Fronted(ToAnswer, ToSlot, args)[1] = ToAnswer
        /\ Fronted(ToAnswer, ToSlot, args)[2] = ToSlot
        /\ \A k \in 1 .. Len(args) : Fronted(ToAnswer, ToSlot, args)[k + 2] = args[k]
    BY <1>1, WithoutTwoInFront
  <1> QED
    BY <1>2, <1>3, <1>4

LEMMA LaterValues ==
  ASSUME NEW values \in Seq(Param)
  PROVE  /\ AsyncValues(values) \in Seq(Values2) /\ Len(AsyncValues(values)) = Len(values) + 2
         /\ AsyncValues(values)[1] = ForObject /\ AsyncValues(values)[2] = ForSlot
         /\ \A k \in 1 .. Len(values) : AsyncValues(values)[k + 2] = values[k]
         /\ WithoutTwo(AsyncValues(values)) = values
  <1>1. ForObject \in Values2 /\ ForSlot \in Values2 /\ values \in Seq(Values2)
    BY Wider DEF Values2
  <1>2. AsyncValues(values) = Fronted(ForObject, ForSlot, values)
    BY DEF AsyncValues, Fronted, ForObject, ForSlot
  <1>3. /\ Fronted(ForObject, ForSlot, values) \in Seq(Values2)
        /\ Len(Fronted(ForObject, ForSlot, values)) = Len(values) + 2
        /\ Fronted(ForObject, ForSlot, values)[1] = ForObject
        /\ Fronted(ForObject, ForSlot, values)[2] = ForSlot
        /\ \A k \in 1 .. Len(values) : Fronted(ForObject, ForSlot, values)[k + 2] = values[k]
    BY <1>1, WithoutTwoInFront
  <1>4. WithoutTwo(Fronted(ForObject, ForSlot, values)) = values
    BY <1>1, WithoutTwoInFront
  <1> QED
    BY <1>2, <1>3, <1>4

LEMMA LaterPasses ==
  ASSUME NEW l \in Nat, NEW long, NEW given, Len(long) = l + 2, Len(given) = l + 2,
         DOMAIN long = 1 .. l + 2, long[1] = ToAnswer, long[2] = ToSlot,
         given[1] = ForObject, given[2] = ForSlot,
         \A k \in 1 .. l : given[k + 2].type = long[k + 2]
  PROVE  Test(long, given) /\ IsAsync(long)
  <1>1. given[1].type = long[1] /\ long[1] = "QObject*"
    BY DEF ForObject, ToAnswer
  <1>2. given[2].type = "QString"
    BY DEF ForSlot
  <1>3. long[2] = "const char*"
    BY DEF ToSlot
  <1>4. ASSUME NEW i \in 1 .. l + 2
        PROVE  \/ given[i].type = "QString" /\ long[i] \in {"char*", "const char*"}
               \/ given[i].type = long[i]
    <2>1. CASE i = 1
      BY <1>1, <2>1
    <2>2. CASE i = 2
      BY <1>2, <1>3, <2>2
    <2>3. CASE i # 1 /\ i # 2
      <3>1. PICK k \in Int : k = i - 2
        OBVIOUS
      <3>2. k \in 1 .. l /\ i = k + 2
        BY <2>3, <3>1
      <3> QED
        BY <3>2
    <2> QED
      BY <2>1, <2>2, <2>3
  <1>5. Test(long, given)
    BY <1>4 DEF Test
  <1>6. Len(long) >= 2
    OBVIOUS
  <1> QED
    BY <1>1, <1>3, <1>5, <1>6 DEF IsAsync

LEMMA LaterParts ==
  ASSUME NEW name, NEW args \in Seq(STRING), NEW sig, sig = [name |-> name, args |-> args],
         NEW values \in Seq(Param), Len(values) = Len(args),
         \A k \in 1 .. Len(args) : values[k].type = args[k]
  PROVE  /\ IsAsync(AsyncSig(sig).args)
         /\ WithoutTwo(AsyncValues(values)) = values
         /\ Test(AsyncSig(sig).args, AsyncValues(values))
  <1>1. PICK l \in Nat : l = Len(args)
    BY LenProperties
  <1>2. PICK long \in Seq(Marks) : long = Fronted(ToAnswer, ToSlot, args)
    BY LaterArgs
  <1>3. PICK given \in Seq(Values2) : given = AsyncValues(values)
    BY LaterValues
  <1>4. /\ Len(long) = l + 2 /\ DOMAIN long = 1 .. l + 2
        /\ long[1] = ToAnswer /\ long[2] = ToSlot /\ \A k \in 1 .. l : long[k + 2] = args[k]
    <2>1. /\ Len(Fronted(ToAnswer, ToSlot, args)) = Len(args) + 2
          /\ Fronted(ToAnswer, ToSlot, args)[1] = ToAnswer
          /\ Fronted(ToAnswer, ToSlot, args)[2] = ToSlot
          /\ \A k \in 1 .. Len(args) : Fronted(ToAnswer, ToSlot, args)[k + 2] = args[k]
      BY LaterArgs
    <2>2. DOMAIN long = 1 .. Len(long)
      OBVIOUS
    <2> QED
      BY <1>1, <1>2, <2>1, <2>2
  <1>5. /\ Len(given) = l + 2 /\ given[1] = ForObject /\ given[2] = ForSlot
        /\ \A k \in 1 .. l : given[k + 2] = values[k]
    BY <1>1, <1>3, LaterValues
  <1>6. Test(long, given) /\ IsAsync(long)
    BY <1>1, <1>4, <1>5, LaterPasses
  <1>7. AsyncSig(sig).args = long
    <2>1. AsyncSig(sig) = [name |-> name, args |-> long]
      BY <1>2, LaterArgs
    <2> QED
      BY <2>1
  <1> QED
    BY <1>3, <1>6, <1>7, LaterValues

\* A table of methods by their signatures
Listing(cls, K) == [j \in K |-> Parse(cls[j].text)]

\* A signature that is among those of the methods listed leads to its method.
LEMMA MetacallFinds ==
  ASSUME NEW cls, Described(cls), NEW K \in SUBSET (DOMAIN cls),
         NEW table, table = Listing(cls, K),
         NEW sig, NEW values, NEW i \in K, Parse(cls[i].text) = sig, Test(sig.args, values)
  PROVE  Metacall(cls, table, sig, values) = [error |-> 0, method |-> i, values |-> values]
  <1>1. \A j \in DOMAIN cls : Parse(cls[j].text) = sig => j = i
    BY DEF Described
  <1>2. PICK found : found = {j \in DOMAIN cls : Parse(cls[j].text) = sig}
    OBVIOUS
  <1>3. found = {i}
    BY <1>1, <1>2
  <1>4. (CHOOSE j \in found : TRUE) = i
    BY <1>3
  <1>5. sig.name # ""
    BY MethodParts
  <1>6. ~ \A j \in DOMAIN table : table[j] # sig
    BY DEF Listing
  <1>7. found # {}
    BY <1>3
  <1> QED
    BY <1>2, <1>4, <1>5, <1>6, <1>7 DEF Metacall

LEMMA MetacallMisses ==
  ASSUME NEW cls, NEW K, NEW table, table = Listing(cls, K),
         NEW sig, NEW values, \A i \in K : Parse(cls[i].text) # sig
  PROVE  Metacall(cls, table, sig, values) = [error |-> 1]
  BY DEF Metacall, Listing

\* The connections init() makes for a class
Links(cls, list) ==
  {[signal |-> Nth(Chosen(cls, "signal", list), n), id |-> 999 + n] :
     n \in 1 .. Cardinality(Chosen(cls, "signal", list))}

LEMMA LinksCount ==
  ASSUME NEW cls, Described(cls), NEW list,
         NEW made, made = Chosen(cls, "signal", list)
  PROVE  /\ Cardinality(made) \in Nat /\ made \in SUBSET (DOMAIN cls)
         /\ \A n \in 1 .. Cardinality(made) : Nth(made, n) \in made
  <1>1. PICK m \in Nat : DOMAIN cls = 1 .. m
    <2>1. cls \in Seq(MethodType)
      BY DEF Described
    <2>2. Len(cls) \in Nat /\ DOMAIN cls = 1 .. Len(cls)
      BY <2>1
    <2> QED
      BY <2>2
  <1>2. made \in SUBSET (1 .. m)
    BY <1>1 DEF Chosen
  <1> QED
    BY <1>1, <1>2, NthIndex

\* What is known of the tables of a class: a connection leads to the number under which
\* the signature is kept.
Known(t, cls, list) ==
  \A c \in Links(cls, list) :
    /\ c.signal \in Chosen(cls, "signal", list) /\ c.signal \in DOMAIN cls
    /\ c.id \in DOMAIN t.functions /\ t.functions[c.id] = OwnSig(cls[c.signal])
    /\ t.types[c.id] = cls[c.signal].type
    /\ c.id \in t.asyncfunctions <=> IsAsync(ArgsOf(cls, c.signal))

LEMMA TablesKnown ==
  ASSUME NEW cls, Described(cls), NEW list, NEW callbacklist, NEW eventlist, NEW old,
         NEW t, t = Tables(old, cls, list, callbacklist, eventlist)
  PROVE  /\ Known(t, cls, list)
         /\ t.callbacks = [i \in Chosen(cls, "slot", callbacklist) |-> Parse(cls[i].text)]
         /\ t.signals = [i \in Chosen(cls, "signal", eventlist \ list) |-> Parse(cls[i].text)]
  <1>1. PICK made : made = Chosen(cls, "signal", list)
    OBVIOUS
  <1>2. /\ Cardinality(made) \in Nat /\ made \in SUBSET (DOMAIN cls)
        /\ \A n \in 1 .. Cardinality(made) : Nth(made, n) \in made
    BY <1>1, LinksCount
  <1>3. PICK N \in Nat : N = Cardinality(made)
    BY <1>2
  <1>4. /\ t.functions = [id \in 1000 .. 999 + N |-> OwnSig(cls[Nth(made, id - 999)])]
        /\ t.types = [id \in 1000 .. 999 + N |-> cls[Nth(made, id - 999)].type]
        /\ t.asyncfunctions =
             {id \in 1000 .. 999 + N : IsAsync(Parse(cls[Nth(made, id - 999)].text).args)}
        /\ t.callbacks = [i \in Chosen(cls, "slot", callbacklist) |-> Parse(cls[i].text)]
        /\ t.signals = [i \in Chosen(cls, "signal", eventlist \ list) |-> Parse(cls[i].text)]
    BY <1>1, <1>3 DEF Tables
  <1>5. ASSUME NEW c \in Links(cls, list)
        PROVE  /\ c.signal \in made /\ c.signal \in DOMAIN cls
               /\ c.id \in DOMAIN t.functions /\ t.functions[c.id] = OwnSig(cls[c.signal])
               /\ t.types[c.id] = cls[c.signal].type
               /\ c.id \in t.asyncfunctions <=> IsAsync(ArgsOf(cls, c.signal))
    <2>1. PICK n \in 1 .. N : c = [signal |-> Nth(made, n), id |-> 999 + n]
      BY <1>1, <1>3 DEF Links
    <2>2. c.signal = Nth(made, n) /\ c.id = 999 + n
      BY <2>1
    <2>3. 999 + n \in 1000 .. 999 + N /\ 999 + n - 999 = n
      OBVIOUS
    <2>4. Nth(made, n) \in made
      BY <1>2, <1>3
    <2>5. /\ t.functions[999 + n] = OwnSig(cls[Nth(made, n)])
          /\ t.types[999 + n] = cls[Nth(made, n)].type
          /\ 999 + n \in t.asyncfunctions <=> IsAsync(Parse(cls[Nth(made, n)].text).args)
          /\ 999 + n \in DOMAIN t.functions
      BY <1>4, <2>3
    <2> QED
      BY <1>2, <2>2, <2>4, <2>5 DEF ArgsOf
  <1>6. Known(t, cls, list)
    <2>1. PICK chosen : chosen = Chosen(cls, "signal", list)
      OBVIOUS
    <2>2. made = chosen
      BY <1>1, <2>1
    <2> QED
      BY <1>5, <2>1, <2>2 DEF Known
  <1> QED
    BY <1>4, <1>6

LEMMA TablesLink ==
  ASSUME NEW cls, Described(cls), NEW list, NEW callbacklist, NEW eventlist,
         NEW old \in Seq(Links(cls, list)),
         NEW t, t = Tables(old, cls, list, callbacklist, eventlist)
  PROVE  t.connected \in Seq(Links(cls, list))
  <1>1. PICK made : made = Chosen(cls, "signal", list)
    OBVIOUS
  <1>2. Cardinality(made) \in Nat
    BY <1>1, LinksCount
  <1>3. PICK N \in Nat : N = Cardinality(made)
    BY <1>2
  <1>4. PICK S : S = Links(cls, list)
    OBVIOUS
  <1>5. PICK new : new = [n \in 1 .. N |-> [signal |-> Nth(made, n), id |-> 999 + n]]
    OBVIOUS
  <1>6. new \in [1 .. N -> S]
    BY <1>1, <1>3, <1>4, <1>5 DEF Links
  <1>7. new \in Seq(S)
    BY <1>6, AsFunction
  <1>8. t.connected = old \o new
    BY <1>1, <1>3, <1>5 DEF Tables
  <1>9. old \o new \in Seq(S)
    BY <1>4, <1>7, ConcatProperties
  <1> QED
    BY <1>4, <1>8, <1>9

LEMMA AllOfIt ==
  ASSUME NEW S, NEW q \in Seq(S), NEW l \in Nat, l = Len(q)
  PROVE  SubSeq(q, 1, 1 + l - 1) = q
  <1>1. PICK m \in Int : m = 1 + l - 1 /\ m = l
    OBVIOUS
  <1>2. \A j \in 1 .. m : q[j] \in S
    BY <1>1, ElementOfSeq
  <1>3. 1 \in Int /\ 1 .. m - 1 + 1 = 1 .. l /\ (IF 1 <= m THEN m - 1 + 1 ELSE 0) = l
    BY <1>1
  <1>4. /\ SubSeq(q, 1, m) \in Seq(S) /\ Len(SubSeq(q, 1, m)) = l
        /\ \A j \in 1 .. l : SubSeq(q, 1, m)[j] = q[1 + j - 1]
    BY <1>2, <1>3, SubSeqProperties
  <1>5. \A j \in 1 .. l : 1 + j - 1 = j
    OBVIOUS
  <1>6. SubSeq(q, 1, m) = q
    BY <1>1, <1>4, <1>5, SeqEqual
  <1> QED
    BY <1>1, <1>6

LEMMA PackedParts ==
  ASSUME NEW t, NEW id, NEW params
  PROVE  /\ Packed(t, id, params).sig = t.functions[id]
         /\ id \in t.asyncfunctions =>
              Packed(t, id, params).values
                = SubSeq(params, 3, 3 + Len(Packed(t, id, params).sig.args) - 1)
         /\ id \notin t.asyncfunctions =>
              Packed(t, id, params).values
                = SubSeq(params, 1, 1 + Len(Packed(t, id, params).sig.args) - 1)
  <1>1. PICK from : from = IF id \in t.asyncfunctions THEN 3 ELSE 1
    OBVIOUS
  <1>2. PICK values :
          values = SubSeq(params, IF id \in t.asyncfunctions THEN 3 ELSE 1,
                          (IF id \in t.asyncfunctions THEN 3 ELSE 1)
                             + Len(t.functions[id].args) - 1)
    OBVIOUS
  <1>3. PICK async : async = (id \in t.asyncfunctions)
    OBVIOUS
  <1>4. PICK sig : sig = t.functions[id]
    OBVIOUS
  <1>5. Packed(t, id, params) = [sig |-> sig, async |-> async, values |-> values]
    BY <1>2, <1>3, <1>4, Zenon DEF Packed
  <1>6. Packed(t, id, params).sig = sig /\ Packed(t, id, params).values = values
    BY <1>5
  <1>7. values = SubSeq(params, from, from + Len(sig.args) - 1)
    BY <1>1, <1>2, <1>4
  <1>8. /\ id \in t.asyncfunctions => from = 3
        /\ id \notin t.asyncfunctions => from = 1
    BY <1>1
  <1> QED
    BY <1>4, <1>6, <1>7, <1>8

\* What is packed of a method is its own signature and values.
LEMMA PackedOwn ==
  ASSUME NEW cls, Described(cls), NEW list, NEW t, Known(t, cls, list),
         NEW c \in Links(cls, list)
  PROVE  /\ Packed(t, c.id, Params(cls, c.signal)).sig = OwnSig(cls[c.signal])
         /\ Packed(t, c.id, Params(cls, c.signal)).values
              = Own(cls[c.signal], Params(cls, c.signal))
  <1>1. PICK id : id = c.id
    OBVIOUS
  <1>2. PICK i \in DOMAIN cls : i = c.signal
    BY DEF Known
  <1>3. /\ t.functions[id] = OwnSig(cls[i])
        /\ id \in t.asyncfunctions <=> IsAsync(ArgsOf(cls, i))
    BY <1>1, <1>2 DEF Known
  <1>4. PICK params \in Seq(Param) : params = Params(cls, i)
    BY ParamsTyped
  <1>5. PICK pack : pack = Packed(t, id, params)
    OBVIOUS
  <1>6. pack.sig = OwnSig(cls[i])
    BY <1>3, <1>5, PackedParts
  <1>7. PICK l \in Nat : l = Len(pack.sig.args)
    BY <1>6, OwnParts
  <1>8. PICK own \in Seq(Param) : own = Own(cls[i], params) /\ Len(own) = l
    BY <1>4, <1>6, <1>7, OwnParts
  <1>9. pack.values = own
    <2>1. CASE IsAsync(ArgsOf(cls, i))
      <3>1. pack.values = SubSeq(params, 3, 3 + l - 1)
        BY <1>3, <1>5, <1>7, <2>1, PackedParts
      <3>2. own = WithoutTwo(params)
        BY <1>4, <1>8, <2>1, OwnParts
      <3>3. Len(params) >= 2 /\ Len(params) \in Nat
        BY <1>4, <2>1, ParamsTyped DEF IsAsync
      <3>4. l = Len(params) - 2
        BY <1>8, <3>2, <3>3, WithoutTwoParts
      <3>5. 3 + l - 1 = Len(params)
        BY <3>3, <3>4
      <3> QED
        BY <3>1, <3>2, <3>5 DEF WithoutTwo
    <2>2. CASE ~IsAsync(ArgsOf(cls, i))
      <3>1. pack.values = SubSeq(params, 1, 1 + l - 1)
        BY <1>3, <1>5, <1>7, <2>2, PackedParts
      <3>2. own = params
        BY <1>4, <1>8, <2>2, OwnParts
      <3>3. SubSeq(params, 1, 1 + l - 1) = params
        BY <1>8, <3>2, AllOfIt
      <3> QED
        BY <3>1, <3>2, <3>3
    <2> QED
      BY <2>1, <2>2
  <1> QED
    BY <1>1, <1>2, <1>4, <1>5, <1>6, <1>8, <1>9

\* Whether a method may be called for another
Namesakes(of, m, method) ==
  \/ Parse(m.text) = OwnSig(method)
  \/ of = "call" /\ Parse(m.text) = AsyncSig(OwnSig(method))

\* What comes of calling one of the methods K of a class for method i of another
Outcome(of, from, i, to, K, result) ==
  \/ \E j \in K : \E values :
       /\ result = [error |-> 0, method |-> j, values |-> values]
       /\ Namesakes(of, to[j], from[i]) /\ Own(to[j], values) = Own(from[i], Params(from, i))
  \/ /\ result = [error |-> 1]
     /\ \A j \in K : ~Namesakes(of, to[j], from[i])

\* ReachesNamesake, of what is remembered of a call
Namesake(of, method, values, to, result) ==
  LET Suits(m) == Receives(of, m) /\ Namesakes(of, m, method)
  IN IF result.error = 0
     THEN /\ Suits(to[result.method])
          /\ Own(to[result.method], result.values) = Own(method, values)
     ELSE \A i \in DOMAIN to : ~Suits(to[i])

LEMMA NamesakeOf ==
  ReachesNamesake <=>
    (last.of # "none" => Namesake(last.of, last.method, last.values, last.to, last.result))
  BY DEF ReachesNamesake, Namesake, Namesakes

LEMMA OutcomeFits ==
  ASSUME NEW of, NEW from, NEW i, NEW to, NEW K, K = {j \in DOMAIN to : Receives(of, to[j])},
         NEW result, Outcome(of, from, i, to, K, result)
  PROVE  Namesake(of, from[i], Params(from, i), to, result)
  <1>1. ASSUME NEW j \in K, NEW values, result = [error |-> 0, method |-> j, values |-> values],
               Namesakes(of, to[j], from[i]), Own(to[j], values) = Own(from[i], Params(from, i))
        PROVE  Namesake(of, from[i], Params(from, i), to, result)
    <2>1. result.error = 0 /\ result.method = j /\ result.values = values
      BY <1>1
    <2>2. Receives(of, to[j])
      OBVIOUS
    <2> QED
      BY <1>1, <2>1, <2>2 DEF Namesake
  <1>2. ASSUME result = [error |-> 1], \A j \in K : ~Namesakes(of, to[j], from[i])
        PROVE  Namesake(of, from[i], Params(from, i), to, result)
    <2>1. result.error = 1
      BY <1>2
    <2>2. result.error # 0
      BY <2>1
    <2>3. \A j \in DOMAIN to : ~(Receives(of, to[j]) /\ Namesakes(of, to[j], from[i]))
      BY <1>2
    <2> QED
      BY <2>2, <2>3 DEF Namesake
  <1> QED
    BY <1>1, <1>2 DEF Outcome

\* The method whose signature it is, or none
LEMMA MetacallLeads ==
  ASSUME NEW cls, Described(cls), NEW K \in SUBSET (DOMAIN cls),
         NEW table, table = Listing(cls, K),
         NEW sig, NEW values, Test(sig.args, values)
  PROVE  \/ \E j \in K : /\ Parse(cls[j].text) = sig
                         /\ Metacall(cls, table, sig, values)
                              = [error |-> 0, method |-> j, values |-> values]
         \/ /\ \A j \in K : Parse(cls[j].text) # sig
            /\ Metacall(cls, table, sig, values) = [error |-> 1]
  <1>1. CASE \E j \in K : Parse(cls[j].text) = sig
    <2>1. PICK j \in K : Parse(cls[j].text) = sig
      BY <1>1
    <2>2. Metacall(cls, table, sig, values) = [error |-> 0, method |-> j, values |-> values]
      BY <2>1, MetacallFinds
    <2> QED
      BY <2>1, <2>2
  <1>2. CASE \A j \in K : Parse(cls[j].text) # sig
    <2>1. Metacall(cls, table, sig, values) = [error |-> 1]
      BY <1>2, MetacallMisses
    <2> QED
      BY <1>2, <2>1
  <1> QED
    BY <1>1, <1>2

\* The values a method is sent with pass the test for its signature.
LEMMA OwnTested ==
  ASSUME NEW cls, Described(cls), NEW i \in DOMAIN cls, NEW sig, sig = OwnSig(cls[i]),
         NEW values, values = Own(cls[i], Params(cls, i))
  PROVE  /\ Test(sig.args, values) /\ ~IsAsync(sig.args)
         /\ WithoutTwo(AsyncValues(values)) = values
         /\ IsAsync(AsyncSig(sig).args) /\ Test(AsyncSig(sig).args, AsyncValues(values))
  <1>1. PICK args \in Seq(STRING) : args = OwnSig(cls[i]).args
    BY OwnParts
  <1>2. PICK name : sig = [name |-> name, args |-> args]
    BY <1>1, OwnParts
  <1>3. PICK given \in Seq(Param) : given = values
    BY OwnParts
  <1>4. Len(given) = Len(args) /\ \A k \in 1 .. Len(args) : given[k].type = args[k]
    BY <1>1, <1>3, OwnParts
  <1>5. Test(args, given)
    BY <1>4, TestPasses
  <1>6. ~IsAsync(OwnSig(cls[i]).args)
    BY DEF Described
  <1>7. /\ IsAsync(AsyncSig(sig).args) /\ WithoutTwo(AsyncValues(given)) = given
        /\ Test(AsyncSig(sig).args, AsyncValues(given))
    BY <1>2, <1>4, LaterParts
  <1> QED
    BY <1>1, <1>3, <1>5, <1>6, <1>7

\* An event or a callback
LEMMA EmittedReaches ==
  ASSUME NEW of, of # "call", NEW from, Described(from), NEW i \in DOMAIN from,
         NEW to, Described(to), NEW K \in SUBSET (DOMAIN to),
         NEW table, table = Listing(to, K)
  PROVE  Outcome(of, from, i, to, K,
                 Metacall(to, table, OwnSig(from[i]), Own(from[i], Params(from, i))))
  <1>1. PICK sig : sig = OwnSig(from[i])
    OBVIOUS
  <1>2. PICK values : values = Own(from[i], Params(from, i))
    OBVIOUS
  <1>3. Test(sig.args, values) /\ ~IsAsync(sig.args)
    BY <1>1, <1>2, OwnTested
  <1>4. \/ \E j \in K : /\ Parse(to[j].text) = sig
                        /\ Metacall(to, table, sig, values)
                             = [error |-> 0, method |-> j, values |-> values]
        \/ /\ \A j \in K : Parse(to[j].text) # sig
           /\ Metacall(to, table, sig, values) = [error |-> 1]
    BY <1>3, MetacallLeads
  <1>5. ASSUME NEW j \in K, Parse(to[j].text) = sig
        PROVE  Own(to[j], values) = values
    BY <1>3, <1>5 DEF Own
  <1>6. \A j \in K : Namesakes(of, to[j], from[i]) <=> Parse(to[j].text) = sig
    BY <1>1 DEF Namesakes
  <1> QED
    BY <1>1, <1>2, <1>4, <1>5, <1>6 DEF Outcome

\* A call: the slot that answers later is tried first.
LEMMA CallReaches ==
  ASSUME NEW from, Described(from), NEW i \in DOMAIN from,
         NEW to, Described(to), NEW K \in SUBSET (DOMAIN to),
         NEW table, table = Listing(to, K),
         NEW sig, sig = OwnSig(from[i]), NEW values, values = Own(from[i], Params(from, i)),
         NEW result,
         result = IF \E j \in DOMAIN table : table[j] = AsyncSig(sig)
                  THEN Metacall(to, table, AsyncSig(sig), AsyncValues(values))
                  ELSE Metacall(to, table, sig, values)
  PROVE  Outcome("call", from, i, to, K, result)
  <1>1. PICK more : more = AsyncSig(sig)
    OBVIOUS
  <1>2. PICK given : given = AsyncValues(values)
    OBVIOUS
  <1>3. /\ Test(sig.args, values) /\ ~IsAsync(sig.args) /\ WithoutTwo(given) = values
        /\ IsAsync(more.args) /\ Test(more.args, given)
    BY <1>1, <1>2, OwnTested
  <1>4. \A j \in K : Namesakes("call", to[j], from[i])
                       <=> (Parse(to[j].text) = sig \/ Parse(to[j].text) = more)
    BY <1>1 DEF Namesakes
  <1>7. DOMAIN table = K /\ \A j \in K : table[j] = Parse(to[j].text)
    BY DEF Listing
  <1>5. CASE \E j \in K : Parse(to[j].text) = more
    <2>1. result = Metacall(to, table, more, given)
      BY <1>1, <1>2, <1>5, <1>7
    <2>2. PICK j \in K : /\ Parse(to[j].text) = more
                         /\ Metacall(to, table, more, given)
                              = [error |-> 0, method |-> j, values |-> given]
      BY <1>3, <1>5, MetacallLeads
    <2>3. Own(to[j], given) = values
      BY <1>3, <2>2 DEF Own
    <2> QED
      BY <1>4, <2>1, <2>2, <2>3 DEF Outcome
  <1>6. CASE \A j \in K : Parse(to[j].text) # more
    <2>1. result = Metacall(to, table, sig, values)
      BY <1>1, <1>2, <1>6, <1>7
    <2>2. \/ \E j \in K : /\ Parse(to[j].text) = sig
                          /\ Metacall(to, table, sig, values)
                               = [error |-> 0, method |-> j, values |-> values]
          \/ /\ \A j \in K : Parse(to[j].text) # sig
             /\ Metacall(to, table, sig, values) = [error |-> 1]
      BY <1>3, MetacallLeads
    <2>3. ASSUME NEW j \in K, Parse(to[j].text) = sig
          PROVE  Own(to[j], values) = values
      BY <1>3, <2>3 DEF Own
    <2> QED
      BY <1>4, <1>6, <2>1, <2>2, <2>3 DEF Outcome
  <1> QED
    BY <1>5, <1>6

\* What functions, slots, events and callbacks are told by
ClientSends == {"ReturnValue"}
ServerSends == {"Event", "CallbackValue"}
SlotsOf(cls) == Chosen(cls, "slot", {"ReturnValue"})
EventsOf(cls) == Chosen(cls, "signal", {"Event"} \ {"ReturnValue"})

\* The tables of the proxy
LEMMA ClientKnown ==
  ASSUME NEW cls, Described(cls), NEW t, t = ClientTables(cls)
  PROVE  /\ Known(t, cls, ClientSends) /\ t.connected \in Seq(Links(cls, ClientSends))
         /\ t.callbacks = Listing(cls, SlotsOf(cls))
         /\ t.signals = Listing(cls, EventsOf(cls))
  <1>1. PICK none : none = <<>> /\ none \in Seq(Links(cls, ClientSends))
    BY EmptySeq
  <1>2. PICK returned : returned = {"ReturnValue"}
    OBVIOUS
  <1>3. PICK events : events = {"Event"}
    OBVIOUS
  <1>4. t = Tables(none, cls, returned, returned, events) /\ returned = ClientSends
    BY <1>1, <1>2, <1>3 DEF ClientTables, ClientSends
  <1>5. /\ Known(t, cls, returned)
        /\ t.callbacks = [i \in Chosen(cls, "slot", returned) |-> Parse(cls[i].text)]
        /\ t.signals = [i \in Chosen(cls, "signal", events \ returned) |-> Parse(cls[i].text)]
    BY <1>4, TablesKnown
  <1>6. t.connected \in Seq(Links(cls, returned))
    BY <1>1, <1>4, TablesLink
  <1>7. SlotsOf(cls) = Chosen(cls, "slot", returned)
        /\ EventsOf(cls) = Chosen(cls, "signal", events \ returned)
    BY <1>2, <1>3 DEF SlotsOf, EventsOf
  <1> QED
    BY <1>4, <1>5, <1>6, <1>7 DEF Listing

\* ... and of the service, however often it was initialised
LEMMA ServerKnown ==
  ASSUME NEW cls, Described(cls), NEW old \in Seq(Links(cls, ServerSends)),
         NEW t, t = ServerTables(old, cls)
  PROVE  /\ Known(t, cls, ServerSends) /\ t.connected \in Seq(Links(cls, ServerSends))
         /\ t.callbacks = Listing(cls, SlotsOf(cls)) /\ DOMAIN t.signals = {}
  <1>1. PICK sends : sends = {"Event", "CallbackValue"}
    OBVIOUS
  <1>2. PICK returned : returned = {"ReturnValue"}
    OBVIOUS
  <1>3. PICK events : events = {}
    OBVIOUS
  <1>4. t = Tables(old, cls, sends, returned, events) /\ sends = ServerSends
    BY <1>1, <1>2, <1>3 DEF ServerTables, ServerSends
  <1>5. /\ Known(t, cls, sends)
        /\ t.callbacks = [i \in Chosen(cls, "slot", returned) |-> Parse(cls[i].text)]
        /\ t.signals = [i \in Chosen(cls, "signal", events \ sends) |-> Parse(cls[i].text)]
    BY <1>4, TablesKnown
  <1>6. t.connected \in Seq(Links(cls, sends))
    BY <1>4, TablesLink
  <1>7. SlotsOf(cls) = Chosen(cls, "slot", returned)
    BY <1>2 DEF SlotsOf
  <1>8. Chosen(cls, "signal", events \ sends) = {}
    BY <1>3 DEF Chosen
  <1> QED
    BY <1>4, <1>5, <1>6, <1>7, <1>8 DEF Listing

\* What is listed can be called, and what can be called is listed.
LEMMA SlotsReceive ==
  ASSUME NEW cls
  PROVE  /\ SlotsOf(cls) = {j \in DOMAIN cls : Receives("call", cls[j])}
         /\ SlotsOf(cls) = {j \in DOMAIN cls : Receives("callback", cls[j])}
         /\ SlotsOf(cls) \in SUBSET (DOMAIN cls)
  BY DEF SlotsOf, Chosen, Receives

LEMMA EventsReceive ==
  ASSUME NEW cls
  PROVE  /\ EventsOf(cls) = {j \in DOMAIN cls : Receives("event", cls[j])}
         /\ EventsOf(cls) \in SUBSET (DOMAIN cls)
  BY DEF EventsOf, Chosen, Receives

\* The calls that were made are of signals of the client, with their own values.
SentOwn(call) ==
  \E i \in DOMAIN client :
    call = [by |-> i, sig |-> OwnSig(client[i]), values |-> Own(client[i], Params(client, i))]

ReachesInv ==
  /\ client \in ClientClasses /\ server \in ServerClasses
  /\ proxy = ClientTables(client)
  /\ \E old \in Seq(Links(server, ServerSends)) : service = ServerTables(old, server)
  /\ \A k \in 1 .. Len(calls) : SentOwn(calls[k])
  /\ ReachesNamesake /\ SentAsListed

\* SentAsListed, of what is remembered of a call
ListedAs(of, method, to, result, cls) ==
  /\ of = "call" /\ result.error = 0
       => Parse(to[result.method].text) \in Range(ServerTables(<<>>, cls).callbacks)
  /\ of \in {"event", "callback"}
       => OwnSig(method) \in Range(ServerTables(<<>>, cls).functions)
                             \ Range(ServerTables(<<>>, cls).signals)

LEMMA RightAgain ==
  ASSUME NEW of, NEW method, NEW values, NEW to, NEW result, NEW times,
         last' = [of |-> of, method |-> method, values |-> values, to |-> to,
                  result |-> result, times |-> times],
         Namesake(of, method, values, to, result)
  PROVE  ReachesNamesake'
  <1>1. /\ last'.of = of /\ last'.method = method /\ last'.values = values /\ last'.to = to
        /\ last'.result = result
    OBVIOUS
  <1>2. ReachesNamesake' <=>
          (last'.of # "none"
             => Namesake(last'.of, last'.method, last'.values, last'.to, last'.result))
    BY DEF ReachesNamesake, Namesake, Namesakes
  <1> QED
    BY <1>1, <1>2

LEMMA ListedAgain ==
  ASSUME NEW of, NEW method, NEW values, NEW to, NEW result, NEW times,
         last' = [of |-> of, method |-> method, values |-> values, to |-> to,
                  result |-> result, times |-> times],
         ListedAs(of, method, to, result, server')
  PROVE  SentAsListed'
  <1>1. last'.of = of /\ last'.method = method /\ last'.to = to /\ last'.result = result
    OBVIOUS
  <1>2. SentAsListed' <=> ListedAs(last'.of, last'.method, last'.to, last'.result, server')
    BY DEF SentAsListed, ListedAs, Lists, ListedBy, FactoryTables
  <1> QED
    BY <1>1, <1>2

LEMMA ReachesStart ==
  ASSUME Init
  PROVE  ReachesInv
  <1>1. client \in ClientClasses /\ server \in ServerClasses /\ proxy = ClientTables(client)
    BY DEF Init
  <1>2. PICK none : none = <<>> /\ none \in Seq(Links(server, ServerSends))
    BY EmptySeq
  <1>3. service = ServerTables(none, server)
    BY <1>2 DEF Init, RequestService
  <1>4. \A k \in 1 .. Len(calls) : SentOwn(calls[k])
    BY EmptySeq DEF Init
  <1>5. last.of = "none"
    BY DEF Init
  <1>6. ReachesNamesake /\ SentAsListed
    BY <1>5 DEF ReachesNamesake, SentAsListed
  <1> QED
    BY <1>1, <1>2, <1>3, <1>4, <1>6 DEF ReachesInv

\* Where neither end nor what is remembered changes
LEMMA Standstill ==
  ASSUME ReachesInv, UNCHANGED <<client, server, proxy, service, last>>,
         \A k \in 1 .. Len(calls') : SentOwn(calls[k])'
  PROVE  ReachesInv'
  <1>1. ReachesNamesake' /\ SentAsListed'
    BY DEF ReachesInv, ReachesNamesake, SentAsListed, Lists, ListedBy, FactoryTables
  <1> QED
    BY <1>1 DEF ReachesInv

\* A call is sent with the signature and the values of its signal.
LEMMA CallSendsOwn ==
  ASSUME AnswersInv, ReachesInv, Call
  PROVE  ReachesInv'
  <1>1. PICK cls : cls = client /\ Described(cls)
    BY AllDescribed DEF ReachesInv
  <1>2. PICK t : t = proxy /\ Known(t, cls, ClientSends) /\ t.connected \in Seq(Links(cls, ClientSends))
    BY <1>1, ClientKnown DEF ReachesInv
  <1>3. PICK c \in Range(t.connected) :
          calls' = Append(calls, [by |-> c.signal,
                                  sig |-> Packed(t, c.id, Params(cls, c.signal)).sig,
                                  values |-> Packed(t, c.id, Params(cls, c.signal)).values])
    BY <1>1, <1>2 DEF Call
  <1>4. c \in Links(cls, ClientSends)
    <2>1. \A k \in DOMAIN t.connected : t.connected[k] \in Links(cls, ClientSends)
      BY <1>2, ElementIn
    <2> QED
      BY <1>3, <2>1 DEF Range
  <1>5. PICK i \in DOMAIN cls : i = c.signal
    BY <1>2, <1>4 DEF Known
  <1>6. /\ Packed(t, c.id, Params(cls, i)).sig = OwnSig(cls[i])
        /\ Packed(t, c.id, Params(cls, i)).values = Own(cls[i], Params(cls, i))
    BY <1>1, <1>2, <1>4, <1>5, PackedOwn
  <1>7. PICK call : call = [by |-> i, sig |-> OwnSig(cls[i]),
                            values |-> Own(cls[i], Params(cls, i))]
    OBVIOUS
  <1>8. calls' = Append(calls, call)
    BY <1>3, <1>5, <1>6, <1>7
  <1>9. UNCHANGED <<client, server, proxy, service, last>>
    BY DEF Call, classes
  <1>10. SentOwn(call)'
    BY <1>1, <1>7, <1>9 DEF SentOwn
  <1>11. PICK made \in Seq(Range(calls)) : made = calls
    BY DEF AnswersInv, AnswersType
  <1>12. /\ Len(made) \in Nat /\ Len(calls') = Len(made) + 1 /\ calls'[Len(made) + 1] = call
         /\ \A k \in 1 .. Len(made) : calls'[k] = made[k]
    <2>1. PICK S : S = Range(calls) \cup {call}
      OBVIOUS
    <2>2. made \in Seq(S) /\ call \in S
      BY <2>1, SeqMonotonic
    <2> QED
      BY <1>8, <1>11, <2>2, AppendProperties
  <1>13. ASSUME NEW k \in 1 .. Len(calls')
         PROVE  SentOwn(calls[k])'
    <2>1. CASE k \in 1 .. Len(made)
      <3>1. SentOwn(made[k])
        BY <1>11, <2>1 DEF ReachesInv
      <3> QED
        BY <1>9, <1>12, <2>1, <3>1 DEF SentOwn
    <2>2. CASE k = Len(made) + 1
      BY <1>10, <1>12, <2>2 DEF SentOwn
    <2> QED
      BY <1>12, <2>1, <2>2
  <1> QED
    BY <1>9, <1>13, Standstill DEF ReachesInv

\* The instance reads a call, and looks for its slot.
LEMMA CallFunctionReaches ==
  ASSUME AnswersInv, ReachesInv, CallFunction
  PROVE  ReachesInv'
  <1>1. PICK from : from = client /\ Described(from)
    BY AllDescribed DEF ReachesInv
  <1>2. PICK to : to = server /\ Described(to)
    BY AllDescribed DEF ReachesInv
  <1>3. PICK table : table = service.callbacks /\ table = Listing(to, SlotsOf(to))
    BY <1>2, ServerKnown DEF ReachesInv
  <1>4. PICK id \in 1 .. Len(calls) : id = Head(inbox)
    <2>1. inbox \in Seq(Nat) /\ inbox # <<>>
      BY DEF AnswersInv, AnswersType, CallFunction
    <2>2. 1 \in DOMAIN inbox /\ Head(inbox) = inbox[1]
      BY <2>1
    <2> QED
      BY <2>2 DEF AnswersInv, Unread
  <1>5. PICK call : call = calls[id]
    OBVIOUS
  <1>6. PICK i \in DOMAIN from :
          call = [by |-> i, sig |-> OwnSig(from[i]), values |-> Own(from[i], Params(from, i))]
    BY <1>1, <1>4, <1>5 DEF ReachesInv, SentOwn
  <1>7. PICK sig : sig = OwnSig(from[i])
    OBVIOUS
  <1>8. PICK values : values = Own(from[i], Params(from, i))
    OBVIOUS
  <1>9. call.by = i /\ call.sig = sig /\ call.values = values
    BY <1>6, <1>7, <1>8
  <1>10. PICK result :
           result = IF \E j \in DOMAIN table : table[j] = AsyncSig(sig)
                    THEN Metacall(to, table, AsyncSig(sig), AsyncValues(values))
                    ELSE Metacall(to, table, sig, values)
    OBVIOUS
  <1>11. result = Called(call.sig, call.values)
    BY <1>2, <1>3, <1>9, <1>10 DEF Called, AnswersLater
  <1>12. last' = [of |-> "call", method |-> from[i], values |-> Params(from, i), to |-> to,
                  result |-> result, times |-> 1]
    <2>1. Remember("call", client, call.by, server, Called(call.sig, call.values), 1)
      BY <1>4, <1>5 DEF CallFunction
    <2> QED
      BY <1>1, <1>2, <1>9, <1>11, <2>1 DEF Remember
  <1>13. UNCHANGED <<client, server, proxy, service, calls>>
    BY DEF CallFunction, classes
  <1>14. SlotsOf(to) \in SUBSET (DOMAIN to)
         /\ SlotsOf(to) = {j \in DOMAIN to : Receives("call", to[j])}
    BY SlotsReceive
  <1>15. Outcome("call", from, i, to, SlotsOf(to), result)
    BY <1>1, <1>2, <1>3, <1>7, <1>8, <1>10, <1>14, CallReaches
  <1>16. Namesake("call", from[i], Params(from, i), to, result)
    BY <1>14, <1>15, OutcomeFits
  <1>17. ReachesNamesake'
    BY <1>12, <1>16, RightAgain
  <1>18. SentAsListed'
    <2>1. PICK t : t = ServerTables(<<>>, to) /\ t.callbacks = Listing(to, SlotsOf(to))
      BY <1>2, EmptySeq, ServerKnown
    <2>2. ASSUME result.error = 0
          PROVE  Parse(to[result.method].text) \in Range(t.callbacks)
      <3>1. result # [error |-> 1]
        BY <2>2
      <3>2. PICK j \in SlotsOf(to) :
              \E given : result = [error |-> 0, method |-> j, values |-> given]
        BY <1>15, <3>1 DEF Outcome
      <3>3. result.method = j
        BY <3>2
      <3> QED
        BY <2>1, <3>3 DEF Listing, Range
    <2>3. ListedAs("call", from[i], to, result, server')
      BY <1>2, <1>13, <2>1, <2>2 DEF ListedAs
    <2> QED
      BY <1>12, <2>3, ListedAgain
  <1>19. \A k \in 1 .. Len(calls') : SentOwn(calls[k])'
    BY <1>13 DEF ReachesInv, SentOwn
  <1> QED
    BY <1>13, <1>17, <1>18, <1>19 DEF ReachesInv

\* An event or a callback of the service arrives at the client.
LEMMA EmitReaches ==
  ASSUME ReachesInv, Emit
  PROVE  ReachesInv'
  <1>1. PICK from : from = server /\ Described(from)
    BY AllDescribed DEF ReachesInv
  <1>2. PICK to : to = client /\ Described(to)
    BY AllDescribed DEF ReachesInv
  <1>3. PICK t : /\ t = service /\ Known(t, from, ServerSends)
                 /\ t.connected \in Seq(Links(from, ServerSends))
    BY <1>1, ServerKnown DEF ReachesInv
  <1>4. PICK p : /\ p = proxy /\ p.callbacks = Listing(to, SlotsOf(to))
                 /\ p.signals = Listing(to, EventsOf(to))
    BY <1>2, ClientKnown DEF ReachesInv
  <1>5. PICK c \in Range(t.connected) :
          LET message == Packed(t, c.id, Params(from, c.signal))
              event == t.types[c.id] = "Event"
              table == IF event THEN p.signals ELSE p.callbacks
          IN Remember(IF event THEN "event" ELSE "callback", from, c.signal, to,
                      Metacall(to, table, message.sig, message.values),
                      Len(SelectSeq(t.connected, LAMBDA d : d.signal = c.signal)))
    BY <1>1, <1>2, <1>3, <1>4 DEF Emit, Received
  <1>6. c \in Links(from, ServerSends)
    <2>1. \A k \in DOMAIN t.connected : t.connected[k] \in Links(from, ServerSends)
      BY <1>3, ElementIn
    <2> QED
      BY <1>5, <2>1 DEF Range
  <1>7. PICK i \in DOMAIN from : i = c.signal
    BY <1>3, <1>6 DEF Known
  <1>8. PICK sig : sig = OwnSig(from[i])
    OBVIOUS
  <1>9. PICK values : values = Own(from[i], Params(from, i))
    OBVIOUS
  <1>10. /\ Packed(t, c.id, Params(from, c.signal)).sig = sig
         /\ Packed(t, c.id, Params(from, c.signal)).values = values
    <2>1. /\ Packed(t, c.id, Params(from, i)).sig = sig
          /\ Packed(t, c.id, Params(from, i)).values = values
      BY <1>1, <1>3, <1>6, <1>7, <1>8, <1>9, PackedOwn
    <2> QED
      BY <1>7, <2>1
  <1>11. PICK times : times = Len(SelectSeq(t.connected, LAMBDA d : d.signal = c.signal))
    OBVIOUS
  <1>12. UNCHANGED <<client, server, proxy, service, calls>>
    BY DEF Emit, classes, messages
  <1>13. OwnSig(from[i]) \in Range(ServerTables(<<>>, from).functions)
                              \ Range(ServerTables(<<>>, from).signals)
    <2>1. PICK new : /\ new = ServerTables(<<>>, from) /\ Known(new, from, ServerSends)
                     /\ DOMAIN new.signals = {}
      BY <1>1, EmptySeq, ServerKnown
    <2>2. c.id \in DOMAIN new.functions /\ new.functions[c.id] = OwnSig(from[i])
      BY <1>6, <1>7, <2>1 DEF Known
    <2>3. OwnSig(from[i]) \in Range(new.functions)
      BY <2>2 DEF Range
    <2>4. Range(new.signals) = {}
      BY <2>1 DEF Range
    <2> QED
      BY <2>1, <2>3, <2>4
  <1>14. CASE t.types[c.id] = "Event"
    <2>1. PICK result : result = Metacall(to, p.signals, sig, values)
      OBVIOUS
    <2>2. last' = [of |-> "event", method |-> from[i], values |-> Params(from, i), to |-> to,
                   result |-> result, times |-> times]
      BY <1>5, <1>7, <1>10, <1>11, <1>14, <2>1 DEF Remember
    <2>3. /\ EventsOf(to) \in SUBSET (DOMAIN to)
          /\ EventsOf(to) = {j \in DOMAIN to : Receives("event", to[j])}
      BY EventsReceive
    <2>4. "event" # "call"
      OBVIOUS
    <2>5. Outcome("event", from, i, to, EventsOf(to), result)
      BY <1>1, <1>2, <1>4, <1>8, <1>9, <2>1, <2>3, <2>4, EmittedReaches
    <2>6. Namesake("event", from[i], Params(from, i), to, result)
      BY <2>3, <2>5, OutcomeFits
    <2>7. ReachesNamesake'
      BY <2>2, <2>6, RightAgain
    <2>8. ListedAs("event", from[i], to, result, server')
      BY <1>1, <1>12, <1>13 DEF ListedAs
    <2>9. SentAsListed'
      BY <2>2, <2>8, ListedAgain
    <2> QED
      BY <1>12, <2>7, <2>9 DEF ReachesInv, SentOwn
  <1>15. CASE t.types[c.id] # "Event"
    <2>1. PICK result : result = Metacall(to, p.callbacks, sig, values)
      OBVIOUS
    <2>2. last' = [of |-> "callback", method |-> from[i], values |-> Params(from, i), to |-> to,
                   result |-> result, times |-> times]
      BY <1>5, <1>7, <1>10, <1>11, <1>15, <2>1 DEF Remember
    <2>3. /\ SlotsOf(to) \in SUBSET (DOMAIN to)
          /\ SlotsOf(to) = {j \in DOMAIN to : Receives("callback", to[j])}
      BY SlotsReceive
    <2>4. "callback" # "call"
      OBVIOUS
    <2>5. Outcome("callback", from, i, to, SlotsOf(to), result)
      BY <1>1, <1>2, <1>4, <1>8, <1>9, <2>1, <2>3, <2>4, EmittedReaches
    <2>6. Namesake("callback", from[i], Params(from, i), to, result)
      BY <2>3, <2>5, OutcomeFits
    <2>7. ReachesNamesake'
      BY <2>2, <2>6, RightAgain
    <2>8. ListedAs("callback", from[i], to, result, server')
      BY <1>1, <1>12, <1>13 DEF ListedAs
    <2>9. SentAsListed'
      BY <2>2, <2>8, ListedAgain
    <2> QED
      BY <1>12, <2>7, <2>9 DEF ReachesInv, SentOwn
  <1> QED
    BY <1>14, <1>15

\* The service is returned again: its connections stay, its tables are made anew.
LEMMA ReturnedAgainReaches ==
  ASSUME ReachesInv, ReturnedAgain
  PROVE  ReachesInv'
  <1>1. PICK cls : cls = server /\ Described(cls)
    BY AllDescribed DEF ReachesInv
  <1>2. UNCHANGED <<client, server, proxy, calls, last>> /\ service' = ServerTables(service.connected, cls)
    BY <1>1 DEF ReturnedAgain, messages
  <1>3. PICK old : old = service.connected /\ old \in Seq(Links(cls, ServerSends))
    BY <1>1, ServerKnown DEF ReachesInv
  <1>4. ReachesNamesake' /\ SentAsListed'
    BY <1>2 DEF ReachesInv, ReachesNamesake, SentAsListed, Lists, ListedBy, FactoryTables
  <1>5. \A k \in 1 .. Len(calls') : SentOwn(calls[k])'
    BY <1>2 DEF ReachesInv, SentOwn
  <1>6. \E o \in Seq(Links(server', ServerSends)) : service' = ServerTables(o, server')
    BY <1>1, <1>2, <1>3
  <1> QED
    BY <1>2, <1>4, <1>5, <1>6 DEF ReachesInv

LEMMA ReachesKept ==
  ASSUME AnswersInv, ReachesInv, [CallsNext]_callsVars
  PROVE  ReachesInv'
  <1>1. CASE UNCHANGED <<client, server, proxy, service, last, calls>>
    <2>1. \A k \in 1 .. Len(calls') : SentOwn(calls[k])'
      BY <1>1 DEF ReachesInv, SentOwn
    <2> QED
      BY <1>1, <2>1, Standstill
  <1>2. CASE Next
    <2>1. CASE Call
      BY <2>1, CallSendsOwn
    <2>2. CASE CallFunction
      BY <2>2, CallFunctionReaches
    <2>3. CASE Emit
      BY <2>3, EmitReaches
    <2>4. CASE ReturnedAgain
      BY <2>4, ReturnedAgainReaches
    <2>5. CASE CurrentFunctionId \/ SendReturnAtOnce \/ SlotReturns \/ SendReturn \/ Destroy
      BY <1>1, <2>5 DEF CurrentFunctionId, SendReturnAtOnce, SlotReturns, SendReturn, Destroy,
         classes, messages
    <2> QED
      BY <1>2, <2>1, <2>2, <2>3, <2>4, <2>5 DEF Next
  <1> QED
    BY <1>1, <1>2 DEF CallsNext, callsVars, DispatchStep, FramingStep, TableStep, ValuesStep,
       AuthStep, vars, classes, messages

\* Through the numbers, tables and lists of both ends, what is called for a method is its
\* namesake of the same types with the same values, and only what was listed:
\* ReachesAsListed, for all the classes there may be.
THEOREM MethodsReachTheirs == CallsSpec => []ReachesAsListed
  <1>1. CallsInit => AnswersInv /\ ReachesInv
    BY AnswersStart, ReachesStart DEF CallsInit
  <1>2. AnswersInv /\ ReachesInv /\ [CallsNext]_callsVars => AnswersInv' /\ ReachesInv'
    BY AnswersKept, ReachesKept
  <1>3. ReachesInv => ReachesAsListed
    BY DEF ReachesInv, ReachesAsListed
  <1> QED
    BY <1>1, <1>2, <1>3, PTL DEF CallsSpec
=============================================================================
