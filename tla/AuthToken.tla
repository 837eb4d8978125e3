------------------------------ MODULE AuthToken ------------------------------
(***************************************************************************)
(* AuthToken: a handle on data that handles share, with a lock in the data.*)
(* copy() takes the lock of its own data for writing and then that of the  *)
(* other for reading; detach() makes data of its own; operator[] and the   *)
(* accessors of the maps hand out references that outlive the lock.        *)
(***************************************************************************)
EXTENDS Naturals, FiniteSets

CONSTANTS
  Users,         \* threads, each with a handle
  TokenValues,   \* values of clientData and serverData
  MaxUses        \* bound: calls of copy(), detach() and operator=

ASSUME TokenAssumption == TokenValues # {}

Datas == 1 .. Cardinality(Users)

VARIABLES
  handle,    \* qxt_d().data of each user's token
  token,     \* the AuthTokenData
  uses,      \* how many of these calls there were, for the bound
  copying,   \* where each user's copy() is, and from which data it copies
  moments,   \* history: what that data held since copy() began to read it
  raced      \* history: data was written through a reference while it was locked

tokenVars == <<handle, token, uses, copying, moments, raced>>

NotCopying == [at |-> "out", from |-> 0]
Fields == {"clientData", "serverData"}

TokenInit ==
  /\ handle \in [Users -> Datas]
  /\ token \in [Datas -> [clientData : {CHOOSE v \in TokenValues : TRUE},
                          serverData : {CHOOSE v \in TokenValues : TRUE},
                          defaultToken : {FALSE}]]
  /\ uses = 0 /\ copying = [u \in Users |-> NotCopying]
  /\ moments = [u \in Users |-> {}]
  /\ raced = FALSE

Maps(d) == [f \in Fields |-> token[d][f]]

\* QReadWriteLock: who holds the lock of data d, in copy()
HasWriteLock(u, d) == copying[u].at \in {"own", "both", "half", "copied"} /\ handle[u] = d
\* Mutant: copy() does not lock the other token.
HasReadLock_Never(u, d) == FALSE

HasReadLock(u, d) == copying[u].at \in {"both", "half", "copied"} /\ copying[u].from = d

Unlocked(d) == \A u \in Users : ~HasWriteLock(u, d) /\ ~HasReadLock(u, d)
Readable(d) == \A u \in Users : ~HasWriteLock(u, d)

NotInCopy(u) == copying[u] = NotCopying

\* Whoever is copying from data d sees what is written into it.
Witnessed(d, maps) ==
  moments' = [u \in Users |->
                IF copying[u].at \in {"both", "half"} /\ copying[u].from = d
                THEN moments[u] \cup {maps} ELSE moments[u]]

-----------------------------------------------------------------------------
\* clientInsert(), clientRemove(), serverInsert(), serverRemove()
Insert(u, f, v) ==
  LET d == handle[u] IN
  /\ NotInCopy(u) /\ Unlocked(d)
  /\ token' = [token EXCEPT ![d][f] = v]
  /\ Witnessed(d, [Maps(d) EXCEPT ![f] = v])
  /\ UNCHANGED <<handle, uses, copying, raced>>

\* A value assigned through what operator[], clientData() or serverData() returned.
WriteThrough(u, f, v) ==
  LET d == handle[u] IN
  /\ NotInCopy(u)
  /\ token' = [token EXCEPT ![d][f] = v]
  /\ raced' = (raced \/ ~Unlocked(d))
  /\ Witnessed(d, [Maps(d) EXCEPT ![f] = v])
  /\ UNCHANGED <<handle, uses, copying>>

\* operator= and the copy constructor share; nothing is locked
Share(u, v) ==
  /\ NotInCopy(u) /\ u # v /\ uses < MaxUses
  /\ uses' = uses + 1
  /\ handle' = [handle EXCEPT ![u] = handle[v]]
  /\ UNCHANGED <<token, copying, moments, raced>>

\* detach(): AuthTokenData's copy constructor leaves defaultToken as it finds it.
\* (The data of a sole owner is freed here with the lock that is held.)
Detach(u) ==
  /\ NotInCopy(u) /\ Unlocked(handle[u]) /\ uses < MaxUses
  /\ uses' = uses + 1
  /\ \E d \in Datas, b \in BOOLEAN :
       /\ \A v \in Users : (v = u \/ handle[v] # d) /\ copying[v].from # d
       /\ handle' = [handle EXCEPT ![u] = d]
       /\ token' = [token EXCEPT ![d] = [token[handle[u]] EXCEPT !.defaultToken = b]]
  /\ UNCHANGED <<copying, moments, raced>>

-----------------------------------------------------------------------------
(* copy().                                                                  *)

CopyGoes(u, from, to) == copying[u].at = from /\ copying' = [copying EXCEPT ![u].at = to]

LockOwn(u, v) ==
  /\ NotInCopy(u) /\ Unlocked(handle[u]) /\ uses < MaxUses
  /\ uses' = uses + 1
  /\ copying' = [copying EXCEPT ![u] = [at |-> "own", from |-> handle[v]]]
  /\ UNCHANGED <<handle, token, moments, raced>>

LockOther(u) ==
  /\ CopyGoes(u, "own", "both")
  /\ Readable(copying[u].from)
  /\ moments' = [moments EXCEPT ![u] = {Maps(copying[u].from)}]
  /\ UNCHANGED <<handle, token, uses, raced>>

CopyServerData(u) ==
  LET maps == [Maps(handle[u]) EXCEPT !.serverData = token[copying[u].from].serverData] IN
  /\ CopyGoes(u, "both", "half")
  /\ token' = [token EXCEPT ![handle[u]].serverData = maps.serverData]
  /\ Witnessed(handle[u], maps)
  /\ UNCHANGED <<handle, uses, raced>>

CopyClientData(u) ==
  LET maps == [Maps(handle[u]) EXCEPT !.clientData = token[copying[u].from].clientData] IN
  /\ CopyGoes(u, "half", "copied")
  /\ token' = [token EXCEPT ![handle[u]].clientData = maps.clientData]
  /\ Witnessed(handle[u], maps)
  /\ UNCHANGED <<handle, uses, raced>>

CopyReturns(u) ==
  /\ copying[u].at = "copied"
  /\ copying' = [copying EXCEPT ![u] = NotCopying]
  /\ moments' = [moments EXCEPT ![u] = {}]
  /\ UNCHANGED <<handle, token, uses, raced>>

CopyGoesOn(u) == LockOther(u) \/ CopyServerData(u) \/ CopyClientData(u) \/ CopyReturns(u)

TokenNext == \E u \in Users :
  \/ \E f \in Fields, v \in TokenValues : Insert(u, f, v) \/ WriteThrough(u, f, v)
  \/ \E v \in Users : Share(u, v) \/ LockOwn(u, v)
  \/ Detach(u)
  \/ CopyGoesOn(u)

TokenFairness == \A u \in Users : WF_tokenVars(CopyGoesOn(u))

-----------------------------------------------------------------------------
\* copy() leaves both maps as the other token held them at one moment, unless
\* somebody wrote through a reference past the lock.
CopiedWhole ==
  \A u \in Users : copying[u].at = "copied" /\ ~raced
    => Maps(handle[u]) \in moments[u]

\* Two tokens copied onto each other at a time, or one onto data it shares:
\* each waits for a lock that is held by the other, or by itself.
Crosswise ==
  \/ \E u \in Users : copying[u].at = "own" /\ copying[u].from = handle[u]
  \/ \E u, v \in Users : /\ copying[u].at = "own" /\ copying[u].from = handle[v]
                         /\ copying[v].at = "own" /\ copying[v].from = handle[u]

\* copy() returns but for that.
CopyReturned == \A u \in Users : ~NotInCopy(u) ~> NotInCopy(u) \/ Crosswise
=============================================================================
