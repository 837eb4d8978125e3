-------------------------- MODULE MessageBus_proofs --------------------------
(***************************************************************************)
(* Proofs about MessageBus, for every set of callers and receivers, every  *)
(* bound on the calls and, but for the last theorem, both values of Racing:*)
(* its type invariant, the safety invariants NoLostWakeup, WaitersApart,   *)
(* CompletedOnce, OwnAnswer and AnswerToCome, and that it implements       *)
(* CallContract; and NobodyForgotten, if nobody races with its deletion.   *)
(***************************************************************************)
EXTENDS MessageBus, TLAPS

(* The inductive invariant.  A call is in one place at a time: in the wait  *)
(* list, in returnValues, in the queue of one receiver, or completed; the   *)
(* conjuncts say what each place implies about the others.                  *)

\* What a new id finds: nothing is known of it yet.
IssuedInv ==
  \A id \in Ids : id > curid =>
    wm[id] = "none" /\ returnValues[id] = NoRet /\ seen[id] = <<>>

\* A thread inside callFunction has an entry or an answer, and no result yet.
CallerInv ==
  \A c \in Callers : pc[c] \in Inside =>
    /\ mine[c] \in 1 .. curid
    /\ seen[mine[c]] = <<>>
    /\ wm[mine[c]] = "sync" \/ returnValues[mine[c]] # NoRet

\* A kept answer is one to its own call, which is no longer in the wait list.
KeptInv ==
  \A id \in Ids : returnValues[id] # NoRet =>
    /\ wm[id] = "none"
    /\ returnValues[id].of = id
    /\ returnValues[id].kind = "reply" => id \in replied

\* So is a posted answer, and it is the only trace of its call.
PostedInv ==
  \A o \in Objects : \A i \in DOMAIN posted[o] :
    /\ wm[posted[o][i].id] = "none"
    /\ returnValues[posted[o][i].id] = NoRet
    /\ seen[posted[o][i].id] = <<>>
    /\ posted[o][i].ret.of = posted[o][i].id
    /\ posted[o][i].ret.kind = "reply" => posted[o][i].id \in replied
    /\ posted[o][i].id <= curid

PostedApart ==
  \A o, p \in Objects : \A i \in DOMAIN posted[o], j \in DOMAIN posted[p] :
    posted[o][i].id = posted[p][j].id => o = p /\ i = j

\* An asynchronous call in the wait list is not completed.
WaitInv == \A id \in Ids : wm[id] \in Objects \cup {NoObject} => seen[id] = <<>>

DataInv ==
  /\ IssuedInv /\ CallerInv /\ KeptInv /\ PostedInv /\ PostedApart /\ WaitInv
  /\ NoLostWakeup /\ WaitersApart /\ CompletedOnce /\ OwnAnswer

\* The protocol thread only knows ids that were given out.
ProtInv ==
  /\ \A i \in DOMAIN out : out[i].kind # "delete" => out[i].id \in 1 .. curid
  /\ connectId <= curid
  /\ sock # "unconnected" => connectId \in 1 .. curid
  /\ written \subseteq 1 .. curid
  /\ pass \subseteq 1 .. curid

IndInv == TypeOK /\ DataInv /\ ProtInv

-----------------------------------------------------------------------------
\* The initial states satisfy the inductive invariant.
LEMMA InitInv == Init => IndInv
<1> USE CallsAssumption
<1> SUFFICES ASSUME Init PROVE IndInv
  OBVIOUS
<1>1. TypeOK
  BY DEF Init, TypeOK, Ids, Ret, NoRet, Event, Inside, NextStage
<1>2. DataInv
  BY ObjectsAssumption DEF Init, DataInv, IssuedInv, CallerInv, KeptInv, PostedInv, PostedApart, WaitInv,
     NoLostWakeup, WaitersApart, CompletedOnce, OwnAnswer, Ids, NoRet, Inside
<1>3. ProtInv
  BY DEF Init, ProtInv
<1>4. QED BY <1>1, <1>2, <1>3 DEF IndInv

-----------------------------------------------------------------------------
(* Types.                                                                   *)

LEMMA HeadOut == ASSUME TypeOK, out # <<>>
                 PROVE  Head(out) \in Event /\ Tail(out) \in Seq(Event)
BY DEF TypeOK

\* An answer about an issued call is a Ret.
LEMMA AnswerType == ASSUME NEW id \in Ids, NEW kind \in {"reply", "error", "timeout"}
                    PROVE  Answer(id, kind) \in Ret /\ Answer(id, kind) # NoRet
BY CallsAssumption DEF Answer, Ret, NoRet, Ids

LEMMA WakeType == ASSUME TypeOK
                  PROVE  Wake(pc) \in [Callers -> {"out", "entering"} \cup Inside]
BY DEF Wake, TypeOK, Inside

\* returnReceived keeps the types of what it writes.
LEMMA ReturnReceivedType ==
  ASSUME TypeOK, NEW id \in Ids, NEW ret \in Ret, ReturnReceived(id, ret)
  PROVE  /\ wm' \in [Ids -> {"none", "sync", NoObject} \cup Objects]
         /\ returnValues' \in [Ids -> Ret \cup {NoRet}]
         /\ pc' \in [Callers -> {"out", "entering"} \cup Inside]
         /\ posted' \in [Objects -> Seq(Post)]
         /\ UNCHANGED <<curid, mine, clock, forever, dead>>
<1>0. UNCHANGED <<curid, mine, clock, forever, dead>>
  BY DEF ReturnReceived
<1>1. CASE Unexpected(id)
  BY <1>0, <1>1 DEF Unexpected, TypeOK
<1>2. CASE KeepForCaller(id, ret)
  BY <1>0, <1>2, WakeType DEF KeepForCaller, TypeOK
<1>3. CASE DropForDeadObject(id)
  BY <1>0, <1>3 DEF DropForDeadObject, TypeOK
<1>4. CASE PostToObject(id, ret)
  <2>1. posted[wm[id]] \in Seq(Post)
    BY <1>4 DEF PostToObject, TypeOK
  <2>2. Append(posted[wm[id]], [id |-> id, ret |-> ret]) \in Seq(Post)
    BY <2>1 DEF Post
  <2>3. QED BY <1>0, <1>4, <2>2 DEF PostToObject, TypeOK
<1>5. QED BY <1>1, <1>2, <1>3, <1>4 DEF ReturnReceived

\* A sweep only copies ids.
LEMMA SweepType == ASSUME TypeOK, NEW s, BeginSweep(s)
                   PROVE  pass' \in SUBSET Ids /\ stage' = s
BY DEF BeginSweep, Waiting

LEMMA RegisterType ==
  ASSUME TypeOK, NEW entry \in {"sync", NoObject} \cup Objects, NEW kind \in CallKinds,
         Register(entry, kind)
  PROVE  /\ curid' \in 0 .. MaxCalls
         /\ wm' \in [Ids -> {"none", "sync", NoObject} \cup Objects]
         /\ out' \in Seq(Event)
         /\ curid + 1 \in Ids
<1>1. curid + 1 \in Ids
  BY CallsAssumption DEF TypeOK, Register, Ids
<1>2. [id |-> curid + 1, kind |-> kind] \in Event
  BY <1>1 DEF Event
<1>3. out' \in Seq(Event)
  BY <1>2 DEF Register, TypeOK
<1>4. QED BY <1>1, <1>3, CallsAssumption DEF TypeOK, Register, Ids

\* Every step keeps the types.
LEMMA TypeStep == ASSUME IndInv, [Next]_vars PROVE TypeOK'
<1>0. TypeOK
  BY DEF IndInv
<1> USE CallsAssumption, ObjectsAssumption, <1>0
<1>1. ASSUME NEW c \in Callers, EnterSync(c) PROVE TypeOK'
  BY <1>1 DEF EnterSync, TypeOK, busVars, protVars, dyingVars, asyncVars
<1>2. ASSUME NEW c \in Callers, CallSync(c) PROVE TypeOK'
  <2>1. PICK kind \in CallKinds : Register("sync", kind)
    BY <1>2 DEF CallSync
  <2>2. /\ pc' \in [Callers -> {"out", "entering"} \cup Inside]
        /\ mine' \in [Callers -> 0 .. MaxCalls]
        /\ clock' \in [Callers -> {"early", "due", "late"}]
        /\ forever' \in [Callers -> BOOLEAN]
    <3>1. curid + 1 \in 0 .. MaxCalls
      BY <2>1, RegisterType DEF Ids
    <3>2. QED BY <1>2, <3>1 DEF CallSync, TypeOK, Inside
  <2>3. /\ curid' \in 0 .. MaxCalls
        /\ wm' \in [Ids -> {"none", "sync", NoObject} \cup Objects]
        /\ out' \in Seq(Event)
    BY <2>1, RegisterType
  <2>4. UNCHANGED <<returnValues, protVars, dyingVars, asyncVars, ptr, seen>>
    BY <1>2 DEF CallSync
  <2>5. QED BY <2>2, <2>3, <2>4 DEF TypeOK, protVars, dyingVars, asyncVars
<1>3. ASSUME NEW c \in Callers, Sleep(c) PROVE TypeOK'
  BY <1>3 DEF Sleep, TypeOK, Inside, busVars, protVars, dyingVars, asyncVars
<1>4. ASSUME NEW c \in Callers, NEW ret \in Ret, Leave(c, ret),
             mine[c] \in Ids, returnValues' \in [Ids -> Ret \cup {NoRet}]
      PROVE  TypeOK'
  <2>1. Append(seen[mine[c]], ret) \in Seq(Ret)
    BY <1>4 DEF TypeOK
  <2>2. seen' \in [Ids -> Seq(Ret)]
    BY <1>4, <2>1 DEF Leave, TypeOK
  <2>3. /\ pc' \in [Callers -> {"out", "entering"} \cup Inside]
        /\ mine' \in [Callers -> 0 .. MaxCalls]
        /\ clock' \in [Callers -> {"early", "due", "late"}]
        /\ forever' \in [Callers -> BOOLEAN]
    BY <1>4 DEF Leave, TypeOK
  <2>4. UNCHANGED <<curid, wm, protVars, dyingVars, asyncVars, ptr, out>>
    BY <1>4 DEF Leave
  <2>5. QED BY <1>4, <2>2, <2>3, <2>4 DEF TypeOK, protVars, dyingVars, asyncVars
<1>5. ASSUME NEW c \in Callers, pc[c] \in Inside PROVE mine[c] \in Ids
  BY <1>5 DEF IndInv, DataInv, CallerInv, TypeOK, Ids
<1>6. ASSUME NEW c \in Callers, TakeReturn(c) PROVE TypeOK'
  <2>1. mine[c] \in Ids
    BY <1>5, <1>6 DEF TakeReturn, Inside
  <2>2. returnValues[mine[c]] \in Ret /\ returnValues' \in [Ids -> Ret \cup {NoRet}]
    BY <1>6, <2>1 DEF TakeReturn, TypeOK
  <2>3. QED BY <1>4, <1>6, <2>1, <2>2 DEF TakeReturn
<1>7. ASSUME NEW c \in Callers, WaitAgain(c) PROVE TypeOK'
  BY <1>7 DEF WaitAgain, TypeOK, Inside, busVars, protVars, dyingVars, asyncVars
<1>8. ASSUME NEW c \in Callers, TimeOut(c) PROVE TypeOK'
  <2>1. mine[c] \in Ids
    BY <1>5, <1>8 DEF TimeOut, Inside
  <2>2. Answer(mine[c], "timeout") \in Ret
    BY <2>1, AnswerType
  <2>3. returnValues' \in [Ids -> Ret \cup {NoRet}]
    BY <1>8 DEF TimeOut, TypeOK
  <2>4. QED BY <1>4, <1>8, <2>1, <2>2, <2>3 DEF TimeOut
<1>9. ASSUME NEW c \in Callers, Tick(c) PROVE TypeOK'
  BY <1>9 DEF Tick, TypeOK, busVars, protVars, dyingVars, asyncVars
<1>10. ASSUME NEW entry \in Objects \cup {NoObject}, CallAsync(entry) PROVE TypeOK'
  <2>1. PICK kind \in CallKinds : Register(entry, kind)
    BY <1>10 DEF CallAsync
  <2>2. QED
    BY <1>10, <2>1, RegisterType
    DEF CallAsync, TypeOK, callerVars, protVars, dyingVars, asyncVars
<1>11. CASE DeleteLater
  <2>1. Append(out, DeleteEvent) \in Seq(Event)
    BY DEF TypeOK, Event
  <2>2. QED
    BY <1>11, <2>1
    DEF DeleteLater, TypeOK, busVars, callerVars, protVars, dyingVars, asyncVars
<1>12. ASSUME NEW o \in Objects, Deliver(o) PROVE TypeOK'
  <2>1. /\ Head(posted[o]) \in Post
        /\ Tail(posted[o]) \in Seq(Post)
    <3>1. posted[o] \in Seq(Post) /\ posted[o] # <<>>
      BY <1>12 DEF Deliver, TypeOK
    <3>2. QED BY <3>1
  <2>2. Append(seen[Head(posted[o]).id], Head(posted[o]).ret) \in Seq(Ret)
    BY <2>1 DEF TypeOK, Post
  <2>3. QED
    BY <1>12, <2>1, <2>2 DEF Deliver, TypeOK, busVars, callerVars, protVars, dyingVars
<1>13. ASSUME NEW o \in Objects, ObjectDies(o) PROVE TypeOK'
  <2>1. posted' \in [Objects -> Seq(Post)]
    BY <1>13 DEF ObjectDies, TypeOK
  <2>2. dead' \in SUBSET Objects
    BY <1>13 DEF ObjectDies, TypeOK
  <2>3. QED
    BY <1>13, <2>1, <2>2 DEF ObjectDies, TypeOK, busVars, callerVars, protVars, dyingVars
<1>14. ASSUME NEW kind \in CallKinds, Handling(kind)
       PROVE  Head(out).id \in Ids /\ out' \in Seq(Event)
  BY <1>14, HeadOut DEF Handling, Event, DeleteEvent, CallKinds
<1>15. CASE HandleLocal
  BY <1>14, <1>15, AnswerType, ReturnReceivedType
  DEF HandleLocal, CallKinds, TypeOK, dyingVars
<1>16. CASE HandleConnect
  <2>1. Head(out).id \in Ids /\ out' \in Seq(Event)
    BY <1>14, <1>16 DEF HandleConnect, CallKinds
  <2>a. /\ connectId' \in 0 .. MaxCalls
        /\ UNCHANGED <<replied, dyingVars, ptr, seen>>
    BY <1>16, <2>1 DEF HandleConnect, Ids
  <2>b. sock' \in {"unconnected", "connected", "closing"}
    BY <1>16 DEF HandleConnect, TypeOK
  <2>c. written' \in SUBSET Ids
    BY <1>16, <2>1 DEF HandleConnect, TypeOK
  <2>2. CASE QuietBus
    BY <2>1, <2>a, <2>b, <2>c, <2>2 DEF QuietBus, TypeOK, dyingVars
  <2>3. CASE ReturnReceived(Head(out).id, Answer(Head(out).id, "error"))
    BY <2>1, <2>a, <2>b, <2>c, <2>3, AnswerType, ReturnReceivedType DEF TypeOK, dyingVars
  <2>4. QED BY <1>16, <2>2, <2>3 DEF HandleConnect
<1>17. CASE HandleFunction
  <2>1. Head(out).id \in Ids /\ out' \in Seq(Event)
    BY <1>14, <1>17 DEF HandleFunction, CallKinds
  <2>2. CASE QuietBus
    BY <1>17, <2>1, <2>2 DEF HandleFunction, QuietBus, TypeOK, dyingVars
  <2>3. CASE ReturnReceived(Head(out).id, Answer(Head(out).id, "error"))
    BY <1>17, <2>1, <2>3, AnswerType, ReturnReceivedType
    DEF HandleFunction, TypeOK, dyingVars
  <2>4. QED BY <1>17, <2>2, <2>3 DEF HandleFunction
<1>18. CASE HandleDisconnect
  <2>1. out' \in Seq(Event)
    BY <1>14, <1>18 DEF HandleDisconnect, CallKinds
  <2>2. QED
    BY <1>18, <2>1, SweepType
    DEF HandleDisconnect, QuietBus, TypeOK, NextStage, dyingVars
<1>19. CASE HandleDelete
  <2>1. out' \in Seq(Event)
    BY <1>19, HeadOut DEF HandleDelete, Handling
  <2>2. QED
    BY <1>19, <2>1, SweepType DEF HandleDelete, QuietBus, TypeOK, NextStage, protVars
<1>20. ASSUME NEW id \in Ids, Reply(id) PROVE TypeOK'
  BY <1>20, AnswerType, ReturnReceivedType DEF Reply, TypeOK, dyingVars
<1>21. CASE FatalError
  <2>1. connectId \in Ids
    BY <1>21 DEF IndInv, FatalError, ProtInv, TypeOK, Ids
  <2>2. QED
    BY <1>21, <2>1, AnswerType, ReturnReceivedType DEF FatalError, TypeOK, NextStage
<1>22. CASE SocketClosed
  BY <1>22, SweepType DEF SocketClosed, QuietBus, TypeOK, NextStage
<1>23. ASSUME NEW id \in Ids, SweepOne(id) PROVE TypeOK'
  BY <1>23, AnswerType, ReturnReceivedType DEF SweepOne, TypeOK, protVars
<1>24. CASE SweepEnd
  <2>1. stage' \in {"loop", "nap", "gone"}
    BY <1>24 DEF SweepEnd, NextStage
  <2>2. pc' \in [Callers -> {"out", "entering"} \cup Inside]
    BY <1>24, WakeType DEF SweepEnd
  <2>3. QED BY <1>24, <2>1, <2>2 DEF SweepEnd, TypeOK, busVars, protVars, asyncVars
<1>25. CASE Nap
  BY <1>25, SweepType DEF Nap, QuietBus, TypeOK, NextStage, protVars
<1>26. CASE UNCHANGED vars
  BY <1>26
  DEF vars, TypeOK, busVars, callerVars, protVars, dyingVars, asyncVars
<1>27. QED
  BY <1>1, <1>2, <1>3, <1>6, <1>7, <1>8, <1>9, <1>10, <1>11, <1>12, <1>13, <1>15, <1>16,
     <1>17, <1>18, <1>19, <1>20, <1>21, <1>22, <1>23, <1>24, <1>25, <1>26
  DEF Next, Caller, Application, Receiver, Dispatch, Sweep, Network

-----------------------------------------------------------------------------
(* What the protocol thread knows.                                          *)

\* Sweeps copy ids that were given out.
LEMMA WaitingIssued == IndInv => Waiting \subseteq 1 .. curid
BY CallsAssumption DEF IndInv, TypeOK, DataInv, IssuedInv, Waiting, Ids

LEMMA HandledIssued ==
  ASSUME IndInv, NEW kind, kind # "delete", Handling(kind)
  PROVE  Head(out).id \in 1 .. curid
<1>1. out \in Seq(Event) /\ out # <<>>
  BY DEF IndInv, TypeOK, Handling
<1>2. 1 \in DOMAIN out /\ Head(out) = out[1]
  BY <1>1
<1>3. QED BY <1>2 DEF IndInv, ProtInv, Handling

\* Taking an event off the queue and raising curid leave ProtInv's first part.
LEMMA OutStep ==
  ASSUME IndInv, curid' \in Nat, curid <= curid',
         \/ out' = out
         \/ out # <<>> /\ out' = Tail(out)
         \/ \E e : out' = Append(out, e) /\ (e.kind # "delete" => e.id \in 1 .. curid')
  PROVE  \A i \in DOMAIN out' : out'[i].kind # "delete" => out'[i].id \in 1 .. curid'
<1>1. out \in Seq(Event) /\ curid \in Nat
  BY CallsAssumption DEF IndInv, TypeOK
<1>2. \A i \in DOMAIN out : out[i].kind # "delete" => out[i].id \in 1 .. curid'
  BY <1>1 DEF IndInv, ProtInv
<1>3. CASE out' = out
  BY <1>2, <1>3
<1>4. CASE out # <<>> /\ out' = Tail(out)
  <2>1. \A i \in DOMAIN out' : i + 1 \in DOMAIN out /\ out'[i] = out[i + 1]
    BY <1>1, <1>4
  <2>2. QED BY <1>2, <2>1
<1>5. CASE \E e : out' = Append(out, e) /\ (e.kind # "delete" => e.id \in 1 .. curid')
  <2>1. PICK e : out' = Append(out, e) /\ (e.kind # "delete" => e.id \in 1 .. curid')
    BY <1>5
  <2>2. \A i \in DOMAIN out' : out'[i] = e \/ (i \in DOMAIN out /\ out'[i] = out[i])
    BY <1>1, <2>1
  <2>3. QED BY <1>2, <2>1, <2>2
<1>6. QED BY <1>3, <1>4, <1>5

\* Every step keeps ProtInv.
LEMMA ProtStep == ASSUME IndInv, [Next]_vars PROVE ProtInv'
<1> USE CallsAssumption
<1>0. /\ curid \in Nat /\ connectId \in Nat /\ connectId <= curid
      /\ sock # "unconnected" => connectId \in 1 .. curid
      /\ written \subseteq 1 .. curid
      /\ pass \subseteq 1 .. curid
  BY DEF IndInv, TypeOK, ProtInv
<1>1. ASSUME curid' = curid, out' = out \/ (out # <<>> /\ out' = Tail(out)) \/ out' = Append(out, DeleteEvent),
             connectId' \in 0 .. curid,
             sock' # "unconnected" => connectId' \in 1 .. curid,
             written' \subseteq 1 .. curid, pass' \subseteq 1 .. curid
      PROVE  ProtInv'
  <2>1. \A i \in DOMAIN out' : out'[i].kind # "delete" => out'[i].id \in 1 .. curid'
    BY <1>0, <1>1, OutStep DEF DeleteEvent
  <2>2. QED BY <1>0, <1>1, <2>1 DEF ProtInv
<1>2. ASSUME UNCHANGED <<curid, out, protVars, dyingVars>> PROVE ProtInv'
  BY <1>0, <1>1, <1>2 DEF protVars, dyingVars
<1>3. ASSUME NEW entry, NEW kind \in CallKinds, Register(entry, kind),
             UNCHANGED <<protVars, dyingVars>>
      PROVE  ProtInv'
  <2>1. \A i \in DOMAIN out' : out'[i].kind # "delete" => out'[i].id \in 1 .. curid'
    BY <1>0, <1>3, OutStep DEF Register
  <2>2. QED BY <1>0, <1>3, <2>1 DEF Register, ProtInv, protVars, dyingVars
<1>4. ASSUME NEW c \in Callers, Caller(c) PROVE ProtInv'
  <2>1. CASE CallSync(c)
    BY <1>3, <2>1 DEF CallSync
  <2>2. CASE ~CallSync(c)
    BY <1>2, <1>4, <2>2
    DEF Caller, EnterSync, Sleep, TakeReturn, WaitAgain, TimeOut, Tick, Leave, busVars
  <2>3. QED BY <2>1, <2>2
<1>5. ASSUME NEW entry, CallAsync(entry) PROVE ProtInv'
  BY <1>3, <1>5 DEF CallAsync
<1>6. CASE DeleteLater
  BY <1>0, <1>1, <1>6 DEF DeleteLater, busVars, protVars, dyingVars
<1>7. ASSUME NEW o \in Objects, Receiver(o) PROVE ProtInv'
  BY <1>2, <1>7 DEF Receiver, Deliver, ObjectDies, busVars
<1>8. ASSUME NEW s, BeginSweep(s) PROVE pass' \subseteq 1 .. curid
  BY <1>8, WaitingIssued DEF BeginSweep
<1>9. ASSUME NEW kind, kind # "delete", Handling(kind)
      PROVE  Head(out).id \in 1 .. curid /\ out # <<>> /\ out' = Tail(out)
  BY <1>9, HandledIssued DEF Handling
<1>10. CASE HandleLocal
  BY <1>0, <1>1, <1>9, <1>10 DEF HandleLocal, ReturnReceived, dyingVars
<1>11. CASE HandleConnect
  <2>1. Head(out).id \in 1 .. curid /\ out # <<>> /\ out' = Tail(out)
    BY <1>9, <1>11 DEF HandleConnect
  <2>2. curid' = curid /\ connectId' = Head(out).id /\ UNCHANGED dyingVars
    BY <1>11 DEF HandleConnect, QuietBus, ReturnReceived
  <2>3. written' \subseteq 1 .. curid
    BY <1>0, <1>11, <2>1 DEF HandleConnect
  <2>4. QED BY <1>0, <1>1, <2>1, <2>2, <2>3 DEF dyingVars
<1>12. CASE HandleFunction
  <2>1. Head(out).id \in 1 .. curid /\ out # <<>> /\ out' = Tail(out)
    BY <1>9, <1>12 DEF HandleFunction
  <2>2. curid' = curid /\ UNCHANGED <<sock, connectId, dyingVars>>
    BY <1>12 DEF HandleFunction, QuietBus, ReturnReceived
  <2>3. written' \subseteq 1 .. curid
    BY <1>0, <1>12, <2>1 DEF HandleFunction
  <2>4. QED BY <1>0, <1>1, <2>1, <2>2, <2>3 DEF dyingVars
<1>13. CASE HandleDisconnect
  <2>1. pass' \subseteq 1 .. curid
    BY <1>0, <1>8, <1>13 DEF HandleDisconnect, dyingVars
  <2>2. sock' # "unconnected" => connectId' \in 1 .. curid
    BY <1>0, <1>13 DEF HandleDisconnect
  <2>3. QED
    BY <1>0, <1>1, <1>9, <1>13, <2>1, <2>2 DEF HandleDisconnect, QuietBus
<1>14. CASE HandleDelete
  BY <1>0, <1>1, <1>8, <1>14 DEF HandleDelete, Handling, QuietBus, protVars
<1>15. ASSUME NEW id \in Ids, Reply(id) PROVE ProtInv'
  BY <1>0, <1>1, <1>15 DEF Reply, ReturnReceived, dyingVars
<1>16. CASE FatalError
  <2>1. pass' = {id \in Ids : wm'[id] # "none"} /\ curid' = curid
    BY <1>16 DEF FatalError, ReturnReceived
  <2>2. \A id \in Ids : wm'[id] # "none" => wm[id] # "none"
    <3>1. connectId \in Ids /\ wm \in [Ids -> {"none", "sync", NoObject} \cup Objects]
      BY <1>0, <1>16 DEF FatalError, IndInv, TypeOK, Ids
    <3>2. ReturnReceived(connectId, Answer(connectId, "error"))
      BY <1>16 DEF FatalError
    <3>3. QED
      BY <3>1, <3>2
      DEF ReturnReceived, Unexpected, KeepForCaller, DropForDeadObject, PostToObject
  <2>3. pass' \subseteq 1 .. curid
    BY <2>1, <2>2, WaitingIssued DEF Waiting
  <2>4. QED BY <1>0, <1>1, <1>16, <2>1, <2>3 DEF FatalError
<1>17. CASE SocketClosed
  BY <1>0, <1>1, <1>8, <1>17 DEF SocketClosed, QuietBus
<1>18. ASSUME NEW id \in Ids, SweepOne(id) PROVE ProtInv'
  BY <1>0, <1>1, <1>18 DEF SweepOne, ReturnReceived, protVars
<1>19. CASE SweepEnd
  BY <1>0, <1>1, <1>19 DEF SweepEnd, busVars, protVars
<1>20. CASE Nap
  BY <1>0, <1>1, <1>8, <1>20 DEF Nap, QuietBus, protVars
<1>21. CASE UNCHANGED vars
  BY <1>2, <1>21 DEF vars, busVars
<1>22. QED
  BY <1>4, <1>5, <1>6, <1>7, <1>10, <1>11, <1>12, <1>13, <1>14, <1>15, <1>16, <1>17,
     <1>18, <1>19, <1>20, <1>21
  DEF Next, Application, Dispatch, Sweep, Network

-----------------------------------------------------------------------------
(* One call, one place.                                                     *)

\* The queues hold answers to calls.
LEMMA PostedTypes ==
  ASSUME TypeOK, NEW o \in Objects, NEW i \in DOMAIN posted[o]
  PROVE  posted[o][i].id \in Ids /\ posted[o][i].ret \in Ret
<1>1. posted[o] \in Seq(Post)
  BY DEF TypeOK
<1>2. posted[o][i] \in Post
  BY <1>1
<1>3. QED BY <1>2 DEF Post

\* Steps that touch none of the places a call can be in.
LEMMA DataFrame ==
  ASSUME DataInv, UNCHANGED <<curid, wm, returnValues, pc, mine, posted, seen>>,
         replied \subseteq replied'
  PROVE  DataInv'
BY DEF DataInv, IssuedInv, CallerInv, KeptInv, PostedInv, PostedApart, WaitInv,
       NoLostWakeup, WaitersApart, CompletedOnce, OwnAnswer

\* A caller that moves from one place inside callFunction to another, or from
\* outside to the door, without touching the shared state.
LEMMA DataMove ==
  ASSUME IndInv, NEW c \in Callers, NEW where \in {"out", "entering"} \cup Inside,
         pc' = [pc EXCEPT ![c] = where],
         where \in Inside => pc[c] \in Inside,
         where \in {"compute", "asleep"} => wm[mine[c]] = "sync",
         UNCHANGED <<curid, wm, returnValues, mine, posted, seen, replied>>
  PROVE  DataInv'
<1>1. /\ IssuedInv' /\ KeptInv' /\ PostedInv' /\ PostedApart' /\ WaitInv'
      /\ CompletedOnce' /\ OwnAnswer'
  BY DEF IndInv, DataInv, IssuedInv, KeptInv, PostedInv, PostedApart, WaitInv,
         CompletedOnce, OwnAnswer
<1>2. CallerInv' /\ NoLostWakeup' /\ WaitersApart'
  BY DEF IndInv, TypeOK, DataInv, CallerInv, NoLostWakeup, WaitersApart
<1>3. QED BY <1>1, <1>2 DEF DataInv

\* A new call: its id is in no place yet, and goes to the wait list.
LEMMA RegisterData ==
  ASSUME IndInv, NEW entry \in {"sync", NoObject} \cup Objects, NEW kind,
         Register(entry, kind),
         UNCHANGED <<returnValues, posted, seen, replied>>,
         \/ UNCHANGED <<pc, mine>>
         \/ /\ entry = "sync"
            /\ \E c \in Callers : /\ pc' = [pc EXCEPT ![c] = "compute"]
                                  /\ mine' = [mine EXCEPT ![c] = curid + 1]
  PROVE  DataInv'
<1> USE CallsAssumption, ObjectsAssumption
<1> DEFINE new == curid + 1
<1>1. /\ TypeOK /\ IssuedInv /\ CallerInv /\ KeptInv /\ PostedInv /\ PostedApart /\ WaitInv
      /\ NoLostWakeup /\ WaitersApart /\ CompletedOnce /\ OwnAnswer
  BY DEF IndInv, DataInv
<1>2. /\ new \in Ids /\ curid \in Nat /\ curid' = new /\ new > curid
      /\ wm' = [wm EXCEPT ![new] = entry]
  BY <1>1 DEF TypeOK, Register, Ids
<1>3. wm[new] = "none" /\ returnValues[new] = NoRet /\ seen[new] = <<>>
  BY <1>1, <1>2 DEF IssuedInv
<1>4. wm \in [Ids -> {"none", "sync", NoObject} \cup Objects]
  BY <1>1 DEF TypeOK
<1>5. IssuedInv'
  BY <1>1, <1>2, <1>3, <1>4 DEF IssuedInv, Ids
<1>6. KeptInv'
  BY <1>1, <1>2, <1>3, <1>4 DEF KeptInv
<1>7. \A o \in Objects : \A i \in DOMAIN posted[o] :
        posted[o][i].id \in Ids /\ posted[o][i].id <= curid
  BY <1>1, PostedTypes DEF PostedInv
<1>8. PostedInv' /\ PostedApart'
  <2>1. \A x \in Ids : x <= curid => wm'[x] = wm[x]
    BY <1>2, <1>4
  <2>2. \A x \in Ids : x <= curid => x <= curid'
    BY <1>2 DEF Ids
  <2>3. PostedInv'
    BY <1>1, <1>7, <2>1, <2>2 DEF PostedInv
  <2>4. PostedApart'
    BY <1>1 DEF PostedApart
  <2>5. QED BY <2>3, <2>4
<1>9. WaitInv'
  BY <1>1, <1>2, <1>3, <1>4 DEF WaitInv
<1>10. CompletedOnce' /\ OwnAnswer'
  BY <1>1 DEF CompletedOnce, OwnAnswer
<1>11. CallerInv' /\ NoLostWakeup' /\ WaitersApart'
  <2>1. \A c \in Callers : pc[c] \in Inside => mine[c] \in 1 .. curid /\ mine[c] # new /\ mine[c] \in Ids
    BY <1>1, <1>2 DEF CallerInv, Ids, TypeOK
  <2>2. CASE UNCHANGED <<pc, mine>>
    <3>1. CallerInv'
      BY <1>1, <1>2, <1>4, <2>1, <2>2 DEF CallerInv
    <3>2. NoLostWakeup' /\ WaitersApart'
      BY <1>1, <1>2, <1>4, <2>1, <2>2 DEF NoLostWakeup, WaitersApart, Inside
    <3>3. QED BY <3>1, <3>2
  <2>3. ASSUME entry = "sync", NEW c \in Callers,
               pc' = [pc EXCEPT ![c] = "compute"], mine' = [mine EXCEPT ![c] = new]
        PROVE  CallerInv' /\ NoLostWakeup' /\ WaitersApart'
    <3>0. /\ pc \in [Callers -> {"out", "entering"} \cup Inside]
          /\ mine \in [Callers -> 0 .. MaxCalls]
      BY <1>1 DEF TypeOK
    <3>1. wm'[new] = "sync" /\ seen'[new] = <<>> /\ mine'[c] = new /\ pc'[c] = "compute"
      BY <1>2, <1>3, <1>4, <2>3, <3>0
    <3>2. \A d \in Callers \ {c} : pc'[d] = pc[d] /\ mine'[d] = mine[d]
      BY <2>3, <3>0
    <3>3. \A d \in Callers \ {c} : pc[d] \in Inside => wm'[mine[d]] = wm[mine[d]]
      BY <1>2, <1>4, <2>1
    <3>4. CallerInv'
      BY <1>1, <1>2, <2>1, <3>1, <3>2, <3>3 DEF CallerInv
    <3>5. NoLostWakeup'
      BY <1>1, <3>1, <3>2, <3>3 DEF NoLostWakeup, Inside
    <3>6. WaitersApart'
      BY <1>1, <2>1, <3>1, <3>2 DEF WaitersApart
    <3>7. QED BY <3>4, <3>5, <3>6
  <2>4. QED BY <2>2, <2>3
<1>12. QED BY <1>5, <1>6, <1>8, <1>9, <1>10, <1>11 DEF DataInv

\* A caller leaves with a result of its own call.
LEMMA LeaveData ==
  ASSUME IndInv, NEW c \in Callers, pc[c] \in Inside, NEW ret \in Ret, Leave(c, ret),
         ret.of = mine[c], ret.kind = "reply" => mine[c] \in replied,
         \/ returnValues' = returnValues
         \/ returnValues' = [returnValues EXCEPT ![mine[c]] = NoRet]
  PROVE  DataInv'
<1> USE CallsAssumption, ObjectsAssumption
<1>1. /\ TypeOK /\ IssuedInv /\ CallerInv /\ KeptInv /\ PostedInv /\ PostedApart /\ WaitInv
      /\ NoLostWakeup /\ WaitersApart /\ CompletedOnce /\ OwnAnswer
  BY DEF IndInv, DataInv
<1> DEFINE id == mine[c]
<1>2. id \in Ids /\ id <= curid /\ seen[id] = <<>> /\ (wm[id] = "sync" \/ returnValues[id] # NoRet)
  BY <1>1 DEF CallerInv, TypeOK, Ids
<1>3. wm[id] \in {"none", "sync"}
  BY <1>1, <1>2 DEF KeptInv
<1>4. /\ pc' = [pc EXCEPT ![c] = "out"] /\ mine' = [mine EXCEPT ![c] = 0]
      /\ seen' = [seen EXCEPT ![id] = Append(@, ret)]
      /\ UNCHANGED <<curid, wm, posted, replied>>
  BY DEF Leave, protVars, asyncVars
<1>5. /\ seen \in [Ids -> Seq(Ret)] /\ returnValues \in [Ids -> Ret \cup {NoRet}]
      /\ pc \in [Callers -> {"out", "entering"} \cup Inside]
      /\ mine \in [Callers -> 0 .. MaxCalls] /\ curid \in Nat
  BY <1>1 DEF TypeOK
<1>6. seen'[id] = <<ret>> /\ \A x \in Ids \ {id} : seen'[x] = seen[x]
  BY <1>2, <1>4, <1>5
<1>7. \A x \in Ids : returnValues'[x] = returnValues[x] \/ (returnValues'[x] = NoRet /\ x = id)
  BY <1>5
<1>8. IssuedInv'
  BY <1>1, <1>2, <1>4, <1>5, <1>6, <1>7 DEF IssuedInv
<1>9. KeptInv'
  BY <1>1, <1>4, <1>7 DEF KeptInv
<1>10. \A o \in Objects : \A i \in DOMAIN posted[o] : posted[o][i].id \in Ids \ {id}
  <2>1. \A o \in Objects : \A i \in DOMAIN posted[o] : posted[o][i].id \in Ids
    BY <1>1, PostedTypes
  <2>2. QED BY <1>1, <1>2, <2>1 DEF PostedInv
<1>11. PostedInv' /\ PostedApart'
  BY <1>1, <1>4, <1>6, <1>7, <1>10 DEF PostedInv, PostedApart
<1>12. WaitInv'
  BY <1>1, <1>3, <1>4, <1>6 DEF WaitInv
<1>13. CompletedOnce' /\ OwnAnswer'
  <2>1. Len(seen'[id]) = 1 /\ DOMAIN seen'[id] = {1} /\ seen'[id][1] = ret
    <3>1. Len(<<ret>>) = 1 /\ DOMAIN <<ret>> = {1} /\ <<ret>>[1] = ret
      OBVIOUS
    <3>2. seen'[id] = <<ret>>
      BY <1>6
    <3>3. QED BY <3>1, <3>2, Zenon
  <2>2. CompletedOnce'
    <3>1. \A x \in Ids \ {id} : Len(seen'[x]) <= 1
      BY <1>1, <1>6 DEF CompletedOnce
    <3>2. Len(seen'[id]) <= 1
      BY <2>1
    <3>3. QED BY <3>1, <3>2 DEF CompletedOnce
  <2>3. OwnAnswer'
    <3>1. \A x \in Ids \ {id} : \A i \in DOMAIN seen'[x] :
            seen'[x][i].of = x /\ (seen'[x][i].kind = "reply" => x \in replied')
      BY <1>1, <1>4, <1>6 DEF OwnAnswer
    <3>2. \A i \in DOMAIN seen'[id] :
            seen'[id][i].of = id /\ (seen'[id][i].kind = "reply" => id \in replied')
      BY <1>4, <2>1
    <3>3. QED BY <3>1, <3>2 DEF OwnAnswer
  <2>4. QED BY <2>2, <2>3
<1>14. \A d \in Callers \ {c} : pc'[d] = pc[d] /\ mine'[d] = mine[d]
  BY <1>4, <1>5
<1>15. pc'[c] = "out"
  BY <1>4, <1>5
<1>16. \A d \in Callers \ {c} : pc[d] \in Inside =>
         /\ mine[d] \in Ids \ {id}
         /\ returnValues'[mine[d]] = returnValues[mine[d]]
         /\ seen'[mine[d]] = seen[mine[d]]
  <2>1. \A d \in Callers \ {c} : pc[d] \in Inside => mine[d] \in Ids \ {id}
    BY <1>1, <1>5 DEF CallerInv, WaitersApart, TypeOK, Ids
  <2>2. QED BY <1>6, <1>7, <2>1
<1>17. CallerInv'
  BY <1>1, <1>4, <1>14, <1>15, <1>16 DEF CallerInv, Inside
<1>18. NoLostWakeup' /\ WaitersApart'
  BY <1>1, <1>4, <1>14, <1>15, <1>16 DEF NoLostWakeup, WaitersApart, Inside
<1>19. QED BY <1>8, <1>9, <1>11, <1>12, <1>13, <1>17, <1>18 DEF DataInv

\* An answer moves its call out of the wait list, if it is still there.
LEMMA ReturnReceivedData ==
  ASSUME IndInv, NEW id \in Ids, id <= curid, NEW ret \in Ret, ReturnReceived(id, ret),
         ret.of = id, ret.kind = "reply" => id \in replied',
         replied \subseteq replied', UNCHANGED seen
  PROVE  DataInv'
<1> USE CallsAssumption, ObjectsAssumption
<1>1. /\ TypeOK /\ IssuedInv /\ CallerInv /\ KeptInv /\ PostedInv /\ PostedApart /\ WaitInv
      /\ NoLostWakeup /\ WaitersApart /\ CompletedOnce /\ OwnAnswer
  BY DEF IndInv, DataInv
<1>2. /\ UNCHANGED <<curid, mine>> /\ curid \in Nat
      /\ wm \in [Ids -> {"none", "sync", NoObject} \cup Objects]
      /\ returnValues \in [Ids -> Ret \cup {NoRet}]
      /\ pc \in [Callers -> {"out", "entering"} \cup Inside]
      /\ posted \in [Objects -> Seq(Post)] /\ dead \subseteq Objects
  BY <1>1 DEF TypeOK, ReturnReceived
<1>3. ret # NoRet
  BY DEF Ret, NoRet, Ids
<1>4. CompletedOnce' /\ OwnAnswer'
  BY <1>1 DEF CompletedOnce, OwnAnswer
<1>5. CASE Unexpected(id)
  BY <1>1, <1>2, <1>5, DataFrame DEF Unexpected, DataInv
<1>6. ASSUME wm' = [wm EXCEPT ![id] = "none"], UNCHANGED <<returnValues, pc>>, wm[id] # "sync"
      PROVE  /\ IssuedInv' /\ KeptInv' /\ WaitInv' /\ CallerInv'
             /\ NoLostWakeup' /\ WaitersApart'
  <2>1. \A x \in Ids : wm'[x] = IF x = id THEN "none" ELSE wm[x]
    BY <1>2, <1>6
  <2>2. IssuedInv' /\ KeptInv' /\ WaitInv'
    BY <1>1, <1>2, <1>6, <2>1 DEF IssuedInv, KeptInv, WaitInv
  <2>3. \A c \in Callers : pc[c] \in Inside => mine[c] \in Ids
    BY <1>1, <1>2 DEF CallerInv, TypeOK, Ids
  <2>4. CallerInv' /\ NoLostWakeup'
    BY <1>1, <1>2, <1>6, <2>1, <2>3 DEF CallerInv, NoLostWakeup, Inside
  <2>5. WaitersApart'
    BY <1>1, <1>2, <1>6 DEF WaitersApart
  <2>6. QED BY <2>2, <2>4, <2>5
<1>7. CASE KeepForCaller(id, ret)
  <2>0. /\ wm[id] = "sync" /\ UNCHANGED posted
        /\ \A x \in Ids : wm'[x] = IF x = id THEN "none" ELSE wm[x]
        /\ \A x \in Ids : returnValues'[x] = IF x = id THEN ret ELSE returnValues[x]
        /\ \A c \in Callers : pc'[c] = IF pc[c] = "asleep" THEN "woken" ELSE pc[c]
    BY <1>2, <1>7 DEF KeepForCaller, Wake
  <2>1. \A o \in Objects : \A i \in DOMAIN posted[o] :
          posted[o][i].id \in Ids /\ posted[o][i].id # id
    BY <1>1, <2>0, PostedTypes DEF PostedInv
  <2>2. PostedInv' /\ PostedApart'
    BY <1>1, <1>2, <2>0, <2>1 DEF PostedInv, PostedApart
  <2>3. IssuedInv' /\ KeptInv' /\ WaitInv'
    BY <1>1, <1>2, <2>0 DEF IssuedInv, KeptInv, WaitInv
  <2>4. \A c \in Callers : pc[c] \in Inside => mine[c] \in Ids
    BY <1>1, <1>2 DEF CallerInv, TypeOK, Ids
  <2>5. \A c \in Callers : pc'[c] \in Inside <=> pc[c] \in Inside
    BY <2>0 DEF Inside
  <2>6. CallerInv'
    BY <1>1, <1>2, <1>3, <2>0, <2>4, <2>5 DEF CallerInv
  <2>7. NoLostWakeup'
    BY <1>1, <2>0 DEF ReturnReceived, Free, NoLostWakeup
  <2>8. WaitersApart'
    BY <1>1, <1>2, <2>5 DEF WaitersApart
  <2>9. QED BY <1>4, <2>2, <2>3, <2>6, <2>7, <2>8 DEF DataInv
<1>8. CASE DropForDeadObject(id)
  <2>1. /\ wm' = [wm EXCEPT ![id] = "none"]
        /\ UNCHANGED <<returnValues, posted, pc>>
        /\ wm[id] # "sync"
    BY <1>2, <1>8 DEF DropForDeadObject
  <2>2. \A x \in Ids : wm[x] = "none" => wm'[x] = "none"
    BY <1>2, <2>1
  <2>3. PostedInv' /\ PostedApart'
    BY <1>1, <1>2, <2>1, <2>2, PostedTypes DEF PostedInv, PostedApart
  <2>4. QED BY <1>4, <1>6, <2>1, <2>3 DEF DataInv
<1>9. CASE PostToObject(id, ret)
  <2> DEFINE r == wm[id]
             e == [id |-> id, ret |-> ret]
  <2>1. /\ wm' = [wm EXCEPT ![id] = "none"]
        /\ UNCHANGED <<returnValues, pc>>
        /\ posted' = [posted EXCEPT ![r] = Append(@, e)]
        /\ r \in Objects /\ r # "sync" /\ r # "none"
    BY <1>9 DEF PostToObject
  <2>2. \A x \in Ids : wm'[x] = IF x = id THEN "none" ELSE wm[x]
    BY <1>2, <2>1
  <2>3. \A o \in Objects : \A i \in DOMAIN posted'[o] :
          \/ i \in DOMAIN posted[o] /\ posted'[o][i] = posted[o][i]
          \/ o = r /\ i = Len(posted[r]) + 1 /\ posted'[o][i] = e
    <3>1. \A o \in Objects \ {r} : posted'[o] = posted[o]
      BY <1>2, <2>1
    <3>2. posted[r] \in Seq(Post) /\ posted'[r] = Append(posted[r], e)
      BY <1>2, <2>1
    <3>3. \A i \in DOMAIN posted'[r] :
            \/ i \in DOMAIN posted[r] /\ posted'[r][i] = posted[r][i]
            \/ i = Len(posted[r]) + 1 /\ posted'[r][i] = e
      BY <3>2
    <3>4. QED BY <3>1, <3>3
  <2>4. \A o \in Objects : \A i \in DOMAIN posted[o] :
          posted[o][i].id \in Ids /\ posted[o][i].id # id
    BY <1>1, <2>1, PostedTypes DEF PostedInv
  <2>5. wm'[id] = "none" /\ returnValues[id] = NoRet /\ seen[id] = <<>>
    BY <1>1, <2>1, <2>2 DEF KeptInv, WaitInv
  <2>6. PostedInv'
    <3>1. ASSUME NEW o \in Objects, NEW i \in DOMAIN posted'[o]
          PROVE  /\ wm'[posted'[o][i].id] = "none"
                 /\ returnValues'[posted'[o][i].id] = NoRet
                 /\ seen'[posted'[o][i].id] = <<>>
                 /\ posted'[o][i].ret.of = posted'[o][i].id
                 /\ posted'[o][i].ret.kind = "reply" => posted'[o][i].id \in replied'
                 /\ posted'[o][i].id <= curid'
      <4>1. CASE i \in DOMAIN posted[o] /\ posted'[o][i] = posted[o][i]
        BY SMTT(30), <1>1, <1>2, <2>1, <2>2, <2>4, <4>1 DEF PostedInv
      <4>2. CASE posted'[o][i] = e
        BY <1>2, <2>1, <2>5, <4>2
      <4>3. QED BY <2>3, <4>1, <4>2
    <3>2. QED BY <3>1 DEF PostedInv
  <2>7. PostedApart'
    <3>1. e.id = id
      OBVIOUS
    <3>2. QED BY <1>1, <2>3, <2>4, <3>1 DEF PostedApart
  <2>8. QED BY <1>4, <1>6, <2>1, <2>6, <2>7 DEF DataInv
<1>10. QED BY <1>5, <1>7, <1>8, <1>9 DEF ReturnReceived

\* A receiver is told the oldest answer of its queue.
LEMMA DeliverData == ASSUME IndInv, NEW o \in Objects, Deliver(o) PROVE DataInv'
<1> USE CallsAssumption, ObjectsAssumption
<1>1. /\ TypeOK /\ IssuedInv /\ CallerInv /\ KeptInv /\ PostedInv /\ PostedApart /\ WaitInv
      /\ NoLostWakeup /\ WaitersApart /\ CompletedOnce /\ OwnAnswer
  BY DEF IndInv, DataInv
<1> DEFINE id == posted[o][1].id
           ret == posted[o][1].ret
<1>2. /\ posted \in [Objects -> Seq(Post)] /\ posted[o] # <<>>
      /\ UNCHANGED <<curid, wm, returnValues, pc, mine, replied>>
      /\ seen \in [Ids -> Seq(Ret)] /\ curid \in Nat
      /\ returnValues \in [Ids -> Ret \cup {NoRet}]
  BY <1>1 DEF TypeOK, Deliver, busVars, callerVars, protVars
<1>3. 1 \in DOMAIN posted[o] /\ Head(posted[o]) = posted[o][1]
  BY <1>2
<1>4. id \in Ids /\ ret \in Ret
  BY <1>1, <1>3, PostedTypes
<1>5. /\ wm[id] = "none" /\ returnValues[id] = NoRet /\ seen[id] = <<>> /\ id <= curid
      /\ ret.of = id /\ (ret.kind = "reply" => id \in replied)
  BY <1>1, <1>3 DEF PostedInv
<1>6. /\ posted' = [posted EXCEPT ![o] = Tail(@)]
      /\ seen' = [seen EXCEPT ![id] = Append(@, ret)]
  BY <1>3 DEF Deliver
<1>7. seen'[id] = <<ret>> /\ \A x \in Ids \ {id} : seen'[x] = seen[x]
  BY <1>2, <1>4, <1>5, <1>6
<1>8. \A p \in Objects : \A i \in DOMAIN posted'[p] :
        IF p = o THEN i + 1 \in DOMAIN posted[o] /\ i + 1 # 1 /\ posted'[p][i] = posted[o][i + 1]
                      /\ i \in Nat
                 ELSE i \in DOMAIN posted[p] /\ posted'[p][i] = posted[p][i]
  <2>1. posted[o] \in Seq(Post) /\ posted'[o] = Tail(posted[o])
    BY <1>2, <1>6
  <2>2. \A i \in DOMAIN posted'[o] :
          i + 1 \in DOMAIN posted[o] /\ i + 1 # 1 /\ posted'[o][i] = posted[o][i + 1] /\ i \in Nat
    BY <1>2, <2>1
  <2>3. \A p \in Objects \ {o} : posted'[p] = posted[p]
    BY <1>2, <1>6
  <2>4. QED BY <2>2, <2>3
<1>9. \A p \in Objects : \A i \in DOMAIN posted[p] :
        (p # o \/ i # 1) => posted[p][i].id \in Ids \ {id}
  BY <1>1, <1>3, PostedTypes DEF PostedApart
<1>10. IssuedInv' /\ KeptInv'
  <2>1. \A x \in Ids : x > curid => x # id
    BY <1>2, <1>4, <1>5 DEF Ids
  <2>2. IssuedInv'
    BY <1>1, <1>2, <1>7, <2>1 DEF IssuedInv
  <2>3. KeptInv'
    BY <1>1, <1>2 DEF KeptInv
  <2>4. QED BY <2>2, <2>3
<1>11. WaitInv'
  BY <1>1, <1>2, <1>5, <1>7 DEF WaitInv
<1>12. PostedInv'
  <2>1. ASSUME NEW p \in Objects, NEW i \in DOMAIN posted'[p]
        PROVE  \E j \in DOMAIN posted[p] : posted'[p][i] = posted[p][j] /\ (p # o \/ j # 1)
    BY <1>8
  <2>2. QED BY <1>1, <1>2, <1>7, <1>9, <2>1 DEF PostedInv
<1>13. PostedApart'
  <2>1. ASSUME NEW p \in Objects, NEW q \in Objects, NEW i \in DOMAIN posted'[p],
               NEW j \in DOMAIN posted'[q], posted'[p][i].id = posted'[q][j].id
        PROVE  p = q /\ i = j
    <3>1. CASE p = o /\ q = o
      <4>1. i + 1 = j + 1 /\ i \in Nat /\ j \in Nat
        BY <1>1, <1>8, <2>1, <3>1 DEF PostedApart
      <4>2. QED BY <3>1, <4>1
    <3>2. CASE p # o /\ q # o
      BY <1>1, <1>8, <2>1, <3>2 DEF PostedApart
    <3>3. CASE p = o /\ q # o
      BY <1>1, <1>8, <2>1, <3>3 DEF PostedApart
    <3>4. CASE p # o /\ q = o
      BY <1>1, <1>8, <2>1, <3>4 DEF PostedApart
    <3>5. QED BY <3>1, <3>2, <3>3, <3>4
  <2>2. QED BY <2>1 DEF PostedApart
<1>14. CompletedOnce' /\ OwnAnswer'
  <2>1. Len(seen'[id]) = 1 /\ DOMAIN seen'[id] = {1} /\ seen'[id][1] = ret
    <3>1. Len(<<ret>>) = 1 /\ DOMAIN <<ret>> = {1} /\ <<ret>>[1] = ret
      OBVIOUS
    <3>2. QED BY <1>7, <3>1, Zenon
  <2>2. CompletedOnce'
    <3>1. \A x \in Ids \ {id} : Len(seen'[x]) <= 1
      BY <1>1, <1>7 DEF CompletedOnce
    <3>2. Len(seen'[id]) <= 1
      BY <2>1
    <3>3. QED BY <3>1, <3>2 DEF CompletedOnce
  <2>3. \A x \in Ids \ {id} : \A i \in DOMAIN seen'[x] :
          seen'[x][i].of = x /\ (seen'[x][i].kind = "reply" => x \in replied')
    BY <1>1, <1>2, <1>7 DEF OwnAnswer
  <2>4. \A i \in DOMAIN seen'[id] :
          seen'[id][i].of = id /\ (seen'[id][i].kind = "reply" => id \in replied')
    BY <1>2, <1>5, <2>1
  <2>5. QED BY <2>2, <2>3, <2>4 DEF OwnAnswer
<1>15. \A c \in Callers : pc[c] \in Inside => mine[c] \in Ids /\ mine[c] # id
  <2>1. curid <= MaxCalls
    BY <1>1 DEF TypeOK
  <2>2. ASSUME NEW c \in Callers, pc[c] \in Inside
        PROVE  mine[c] \in 1 .. curid /\ (wm[mine[c]] = "sync" \/ returnValues[mine[c]] # NoRet)
    BY <1>1, <2>2 DEF CallerInv
  <2>3. 1 .. curid \subseteq Ids
    BY <1>2, <2>1 DEF Ids
  <2>4. QED BY <1>5, <2>2, <2>3
<1>16. CallerInv' /\ NoLostWakeup' /\ WaitersApart'
  BY <1>1, <1>2, <1>7, <1>15 DEF CallerInv, NoLostWakeup, WaitersApart
<1>17. QED BY <1>10, <1>11, <1>12, <1>13, <1>14, <1>16 DEF DataInv

\* The queue of a deleted receiver is gone.
LEMMA ObjectDiesData == ASSUME IndInv, NEW o \in Objects, ObjectDies(o) PROVE DataInv'
<1>1. UNCHANGED <<curid, wm, returnValues, pc, mine, seen, replied>>
  BY DEF ObjectDies, busVars, callerVars, protVars
<1>2. \A p \in Objects : posted'[p] = <<>> \/ posted'[p] = posted[p]
  BY DEF IndInv, TypeOK, ObjectDies
<1>3. \A p \in Objects : \A i \in DOMAIN posted'[p] : i \in DOMAIN posted[p] /\ posted'[p] = posted[p]
  BY <1>2
<1>4. PostedInv' /\ PostedApart'
  BY <1>1, <1>3 DEF IndInv, DataInv, PostedInv, PostedApart
<1>5. QED
  BY <1>1, <1>4
  DEF IndInv, DataInv, IssuedInv, CallerInv, KeptInv, WaitInv, NoLostWakeup, WaitersApart,
      CompletedOnce, OwnAnswer

\* A wake-up at the end of a sweep changes no place.
LEMMA SweepEndData == ASSUME IndInv, SweepEnd PROVE DataInv'
<1>1. UNCHANGED <<curid, wm, returnValues, mine, posted, seen, replied>>
  BY DEF SweepEnd, busVars, protVars, asyncVars
<1>2. \A c \in Callers : /\ pc'[c] \in Inside <=> pc[c] \in Inside
                         /\ pc'[c] \in {"compute", "asleep"} => pc[c] \in {"compute", "asleep"}
  BY DEF SweepEnd, Wake, Inside
<1>3. CallerInv' /\ NoLostWakeup' /\ WaitersApart'
  BY <1>1, <1>2 DEF IndInv, DataInv, CallerInv, NoLostWakeup, WaitersApart
<1>4. QED
  BY <1>1, <1>3
  DEF IndInv, DataInv, IssuedInv, KeptInv, PostedInv, PostedApart, WaitInv,
      CompletedOnce, OwnAnswer

\* Every step keeps DataInv.
LEMMA DataStep == ASSUME IndInv, [Next]_vars PROVE DataInv'
<1> USE CallsAssumption, ObjectsAssumption
<1>0. /\ TypeOK /\ ProtInv /\ DataInv
      /\ CallerInv /\ KeptInv /\ NoLostWakeup
  BY DEF IndInv, DataInv
<1>1. ASSUME UNCHANGED <<curid, wm, returnValues, pc, mine, posted, seen>>,
             replied \subseteq replied'
      PROVE  DataInv'
  BY <1>0, <1>1, DataFrame
<1>2. ASSUME NEW c \in Callers, pc[c] \in Inside
      PROVE  mine[c] \in Ids /\ (wm[mine[c]] = "sync" \/ returnValues[mine[c]] # NoRet)
  <2>1. mine[c] \in 1 .. curid /\ curid \in 0 .. MaxCalls
    BY <1>0, <1>2 DEF CallerInv, TypeOK
  <2>2. QED BY <1>0, <1>2, <2>1 DEF CallerInv, Ids
<1>3. ASSUME NEW c \in Callers, EnterSync(c) PROVE DataInv'
  BY <1>3, DataMove DEF EnterSync, busVars, protVars, asyncVars, Inside
<1>4. ASSUME NEW c \in Callers, CallSync(c) PROVE DataInv'
  <2>1. PICK kind : Register("sync", kind)
    BY <1>4 DEF CallSync
  <2>2. QED BY <1>4, <2>1, RegisterData DEF CallSync, protVars, asyncVars
<1>5. ASSUME NEW c \in Callers, Sleep(c) PROVE DataInv'
  BY <1>0, <1>5, DataMove DEF Sleep, NoLostWakeup, Inside, busVars, protVars, asyncVars
<1>6. ASSUME NEW c \in Callers, TakeReturn(c) PROVE DataInv'
  <2>1. pc[c] \in Inside /\ mine[c] \in Ids
    BY <1>2, <1>6 DEF TakeReturn, Inside
  <2>2. returnValues[mine[c]] \in Ret
    BY <1>0, <1>6, <2>1 DEF TakeReturn, TypeOK
  <2>3. /\ returnValues[mine[c]].of = mine[c]
        /\ returnValues[mine[c]].kind = "reply" => mine[c] \in replied
    BY <1>0, <1>6, <2>1 DEF TakeReturn, KeptInv
  <2>4. QED BY <1>6, <2>1, <2>2, <2>3, LeaveData DEF TakeReturn
<1>7. ASSUME NEW c \in Callers, WaitAgain(c) PROVE DataInv'
  <2>1. wm[mine[c]] = "sync"
    BY <1>2, <1>7 DEF WaitAgain, Inside
  <2>2. QED BY <1>7, <2>1, DataMove DEF WaitAgain, Inside, busVars, protVars, asyncVars
<1>8. ASSUME NEW c \in Callers, TimeOut(c) PROVE DataInv'
  <2>1. pc[c] \in Inside /\ mine[c] \in Ids
    BY <1>2, <1>8 DEF TimeOut, Inside
  <2>2. /\ Answer(mine[c], "timeout") \in Ret
        /\ Answer(mine[c], "timeout").of = mine[c]
        /\ Answer(mine[c], "timeout").kind # "reply"
    BY <2>1, AnswerType DEF Answer
  <2>3. QED BY <1>8, <2>1, <2>2, LeaveData DEF TimeOut
<1>9. ASSUME NEW c \in Callers, Tick(c) PROVE DataInv'
  BY <1>1, <1>9 DEF Tick, busVars, protVars, asyncVars
<1>10. ASSUME NEW entry \in Objects \cup {NoObject}, CallAsync(entry) PROVE DataInv'
  <2>1. PICK kind : Register(entry, kind)
    BY <1>10 DEF CallAsync
  <2>2. QED BY <1>10, <2>1, RegisterData DEF CallAsync, callerVars, protVars, asyncVars
<1>11. CASE DeleteLater
  BY <1>1, <1>11 DEF DeleteLater, busVars, callerVars, protVars, asyncVars
<1>12. ASSUME NEW o \in Objects, Receiver(o) PROVE DataInv'
  BY <1>12, DeliverData, ObjectDiesData DEF Receiver
<1>13. ASSUME NEW id \in 1 .. curid, NEW kind \in {"reply", "error"},
              ReturnReceived(id, Answer(id, kind)), kind = "reply" => id \in replied',
              replied \subseteq replied', UNCHANGED seen
       PROVE  DataInv'
  <2>1. id \in Ids /\ id <= curid
    BY <1>0 DEF TypeOK, Ids
  <2>2. /\ Answer(id, kind) \in Ret /\ Answer(id, kind).of = id
        /\ Answer(id, kind).kind = kind
    BY <2>1, AnswerType DEF Answer
  <2>3. QED BY <1>13, <2>1, <2>2, ReturnReceivedData
<1>14. ASSUME QuietBus, UNCHANGED seen, replied \subseteq replied' PROVE DataInv'
  BY <1>1, <1>14 DEF QuietBus
<1>15. CASE HandleLocal
  <2>1. Head(out).id \in 1 .. curid
    BY <1>15, HandledIssued DEF HandleLocal
  <2>2. QED BY <1>13, <1>15, <2>1 DEF HandleLocal
<1>16. CASE HandleConnect
  <2>1. Head(out).id \in 1 .. curid
    BY <1>16, HandledIssued DEF HandleConnect
  <2>2. QED BY <1>13, <1>14, <1>16, <2>1 DEF HandleConnect
<1>17. CASE HandleFunction
  <2>1. Head(out).id \in 1 .. curid
    BY <1>17, HandledIssued DEF HandleFunction
  <2>2. QED BY <1>13, <1>14, <1>17, <2>1 DEF HandleFunction
<1>18. CASE HandleDisconnect
  BY <1>14, <1>18 DEF HandleDisconnect
<1>19. CASE HandleDelete
  BY <1>14, <1>19 DEF HandleDelete, protVars
<1>20. ASSUME NEW id \in Ids, Reply(id) PROVE DataInv'
  <2>1. id \in 1 .. curid
    BY <1>0, <1>20 DEF Reply, ProtInv
  <2>2. QED BY <1>13, <1>20, <2>1 DEF Reply
<1>21. CASE FatalError
  <2>1. connectId \in 1 .. curid
    BY <1>0, <1>21 DEF FatalError, ProtInv
  <2>2. QED BY <1>13, <1>21, <2>1 DEF FatalError
<1>22. CASE SocketClosed
  BY <1>14, <1>22 DEF SocketClosed
<1>23. ASSUME NEW id \in Ids, SweepOne(id) PROVE DataInv'
  <2>1. id \in 1 .. curid
    BY <1>0, <1>23 DEF SweepOne, ProtInv
  <2>2. QED BY <1>13, <1>23, <2>1 DEF SweepOne, protVars
<1>24. CASE SweepEnd
  BY <1>24, SweepEndData
<1>25. CASE Nap
  BY <1>14, <1>25 DEF Nap, protVars
<1>26. CASE UNCHANGED vars
  BY <1>1, <1>26 DEF vars, busVars, callerVars, protVars, asyncVars
<1>27. QED
  BY <1>3, <1>4, <1>5, <1>6, <1>7, <1>8, <1>9, <1>10, <1>11, <1>12, <1>15, <1>16,
     <1>17, <1>18, <1>19, <1>20, <1>21, <1>22, <1>23, <1>24, <1>25, <1>26
  DEF Next, Caller, Application, Dispatch, Sweep, Network

-----------------------------------------------------------------------------
(* The theorems.                                                            *)

\* The inductive invariant holds in every reachable state.
LEMMA Inductive == Spec => []IndInv
<1>1. ASSUME IndInv, [Next]_vars PROVE IndInv'
  BY <1>1, TypeStep, ProtStep, DataStep DEF IndInv
<1>2. QED BY <1>1, InitInv, PTL DEF Spec

\* Every variable of the bus keeps its type, with any number of callers,
\* receivers and calls.
THEOREM TypeCorrect == Spec => []TypeOK
<1>1. IndInv => TypeOK
  BY DEF IndInv
<1>2. QED BY <1>1, Inductive, PTL

\* callFunction's wait never misses its wake-up: no thread sleeps, or is about
\* to, while its answer is already in returnValues.
THEOREM WakeupsKept == Spec => []NoLostWakeup
<1>1. IndInv => NoLostWakeup
  BY DEF IndInv, DataInv
<1>2. QED BY <1>1, Inductive, PTL

\* Two threads inside callFunction wait for different ids.
THEOREM WaitersKeptApart == Spec => []WaitersApart
<1>1. IndInv => WaitersApart
  BY DEF IndInv, DataInv
<1>2. QED BY <1>1, Inductive, PTL

\* No call is completed twice: returnReceived, the sweeps of disconnected(),
\* the timeouts and the receivers' queues together answer it at most once.
THEOREM CompletesOnce == Spec => []CompletedOnce
<1>1. IndInv => CompletedOnce
  BY DEF IndInv, DataInv
<1>2. QED BY <1>1, Inductive, PTL

\* An issuer is told its own call's answer, and of a reply only if there was one.
THEOREM AnswersOwn == Spec => []OwnAnswer
<1>1. IndInv => OwnAnswer
  BY DEF IndInv, DataInv
<1>2. QED BY <1>1, Inductive, PTL

\* The issuer of a call is told once at most, and of its own call.
THEOREM ToldOnceAndOwn == Spec => []OnceAndOwn
<1>1. IndInv => OnceAndOwn
  BY DEF IndInv, DataInv, OnceAndOwn
<1>2. QED BY <1>1, Inductive, PTL

-----------------------------------------------------------------------------
(* The bus implements its contract.                                         *)

\* Each step of the bus issues a call, hears the peer, completes a call, or is
\* invisible to the contract.
LEMMA ContractStep == ASSUME IndInv, [Next]_vars PROVE [Contract!Next]_(Contract!vars)
<1> USE CallsAssumption, ObjectsAssumption
<1>0. /\ TypeOK /\ ProtInv /\ CallerInv /\ KeptInv /\ PostedInv
      /\ curid \in 0 .. MaxCalls /\ seen \in [Ids -> Seq(Ret)]
  BY DEF IndInv, DataInv, TypeOK
<1>1. Ids = Contract!Ids
  BY DEF Ids, Contract!Ids
<1>2. ASSUME UNCHANGED <<curid, replied, seen>> PROVE [Contract!Next]_(Contract!vars)
  BY <1>2 DEF Contract!vars
<1>3. ASSUME NEW entry, NEW kind, Register(entry, kind), UNCHANGED <<replied, seen>>
      PROVE  [Contract!Next]_(Contract!vars)
  BY <1>0, <1>3 DEF Register, Contract!Next, Contract!Issue
<1>4. ASSUME NEW id \in 1 .. curid, replied' = replied \cup {id}, UNCHANGED <<curid, seen>>
      PROVE  [Contract!Next]_(Contract!vars)
  <2>1. id \in Contract!Ids /\ Contract!Reply(id)
    BY <1>0, <1>1, <1>4 DEF Contract!Reply, Ids
  <2>2. QED BY <2>1 DEF Contract!Next
<1>5. ASSUME NEW id \in 1 .. curid, NEW ret \in Ret, ret.of = id, seen[id] = <<>>,
             ret.kind = "reply" => id \in replied,
             seen' = [seen EXCEPT ![id] = Append(@, ret)], UNCHANGED <<curid, replied>>
      PROVE  [Contract!Next]_(Contract!vars)
  <2>1. id \in Ids /\ ret.kind \in {"reply", "error", "timeout"}
    BY <1>0, <1>5 DEF Ids, Ret
  <2>2. ret = [of |-> id, kind |-> ret.kind]
    BY <1>5 DEF Ret
  <2>3. Append(seen[id], ret) = <<ret>>
    <3>1. Append(<<>>, ret) = <<ret>>
      OBVIOUS
    <3>2. QED BY <1>5, <3>1
  <2>4. seen' = [seen EXCEPT ![id] = <<[of |-> id, kind |-> ret.kind]>>]
    <3>1. seen' = [seen EXCEPT ![id] = <<ret>>]
      BY <1>5, <2>3
    <3>2. QED BY <2>2, <3>1, Zenon
  <2>5. Contract!Complete(id, ret.kind)
    <3>1. id <= curid
      BY <1>0, <1>5
    <3>2. QED BY <1>5, <2>4, <3>1, Zenon DEF Contract!Complete
  <2>6. QED BY <1>1, <2>1, <2>5 DEF Contract!Next, Contract!Kinds
<1>6. ASSUME NEW c \in Callers, pc[c] \in Inside
      PROVE  mine[c] \in 1 .. curid /\ mine[c] \in Ids /\ seen[mine[c]] = <<>>
  <2>1. mine[c] \in 1 .. curid /\ seen[mine[c]] = <<>>
    BY <1>0, <1>6 DEF CallerInv
  <2>2. QED BY <1>0, <2>1 DEF Ids
<1>7. ASSUME NEW c \in Callers, Caller(c) PROVE [Contract!Next]_(Contract!vars)
  <2>1. CASE CallSync(c)
    BY <1>3, <2>1 DEF CallSync, protVars
  <2>2. CASE TakeReturn(c)
    <3>1. mine[c] \in 1 .. curid /\ mine[c] \in Ids /\ seen[mine[c]] = <<>>
      BY <1>6, <2>2 DEF TakeReturn, Inside
    <3>2. /\ returnValues[mine[c]] \in Ret
          /\ returnValues[mine[c]].of = mine[c]
          /\ returnValues[mine[c]].kind = "reply" => mine[c] \in replied
      BY <1>0, <2>2, <3>1 DEF TakeReturn, TypeOK, KeptInv
    <3>3. QED BY <1>5, <2>2, <3>1, <3>2 DEF TakeReturn, Leave, protVars
  <2>3. CASE TimeOut(c)
    <3>1. mine[c] \in 1 .. curid /\ mine[c] \in Ids /\ seen[mine[c]] = <<>>
      BY <1>6, <2>3 DEF TimeOut, Inside
    <3>2. /\ Answer(mine[c], "timeout") \in Ret
          /\ Answer(mine[c], "timeout").of = mine[c]
          /\ Answer(mine[c], "timeout").kind # "reply"
      BY <3>1, AnswerType DEF Answer
    <3>3. QED BY <1>5, <2>3, <3>1, <3>2 DEF TimeOut, Leave, protVars
  <2>4. CASE EnterSync(c) \/ Sleep(c) \/ WaitAgain(c) \/ Tick(c)
    BY <1>2, <2>4 DEF EnterSync, Sleep, WaitAgain, Tick, busVars, protVars
  <2>5. QED BY <1>7, <2>1, <2>2, <2>3, <2>4 DEF Caller
<1>8. CASE Application
  BY <1>2, <1>3, <1>8 DEF Application, CallAsync, DeleteLater, busVars, protVars
<1>9. ASSUME NEW o \in Objects, Receiver(o) PROVE [Contract!Next]_(Contract!vars)
  <2>1. CASE Deliver(o)
    <3>1. 1 \in DOMAIN posted[o] /\ Head(posted[o]) = posted[o][1]
      <4>1. posted[o] \in Seq(Post) /\ posted[o] # <<>>
        BY <1>0, <2>1 DEF Deliver, TypeOK
      <4>2. QED BY <4>1
    <3>2. posted[o][1].id \in Ids /\ posted[o][1].ret \in Ret
      BY <1>0, <3>1, PostedTypes
    <3>3. /\ posted[o][1].id \in 1 .. curid
          /\ seen[posted[o][1].id] = <<>>
          /\ posted[o][1].ret.of = posted[o][1].id
          /\ posted[o][1].ret.kind = "reply" => posted[o][1].id \in replied
      BY <1>0, <3>1, <3>2 DEF PostedInv, Ids
    <3>4. QED BY <1>5, <2>1, <3>1, <3>2, <3>3 DEF Deliver, busVars, protVars
  <2>2. CASE ObjectDies(o)
    BY <1>2, <2>2 DEF ObjectDies, busVars, protVars
  <2>3. QED BY <1>9, <2>1, <2>2 DEF Receiver
<1>10. ASSUME QuietBus \/ \E id, ret : ReturnReceived(id, ret), UNCHANGED <<seen, replied>>
       PROVE  [Contract!Next]_(Contract!vars)
  BY <1>2, <1>10 DEF QuietBus, ReturnReceived
<1>11. CASE Dispatch
  <2>1. CASE HandleLocal
    BY <1>4, <2>1, HandledIssued DEF HandleLocal, ReturnReceived
  <2>2. CASE HandleConnect
    BY <1>10, <2>2 DEF HandleConnect
  <2>3. CASE HandleFunction
    BY <1>10, <2>3 DEF HandleFunction
  <2>4. CASE HandleDisconnect \/ HandleDelete
    BY <1>10, <2>4 DEF HandleDisconnect, HandleDelete, protVars
  <2>5. QED BY <1>11, <2>1, <2>2, <2>3, <2>4 DEF Dispatch
<1>12. CASE Sweep
  BY <1>2, <1>10, <1>12 DEF Sweep, SweepOne, SweepEnd, Nap, busVars, protVars
<1>13. CASE Network
  <2>1. ASSUME NEW id \in Ids, Reply(id) PROVE [Contract!Next]_(Contract!vars)
    <3>1. id \in 1 .. curid
      BY <1>0, <2>1 DEF Reply, ProtInv
    <3>2. QED BY <1>4, <2>1, <3>1 DEF Reply, ReturnReceived
  <2>2. CASE FatalError \/ SocketClosed
    BY <1>10, <2>2 DEF FatalError, SocketClosed
  <2>3. QED BY <1>13, <2>1, <2>2 DEF Network
<1>14. CASE UNCHANGED vars
  BY <1>2, <1>14 DEF vars, busVars, protVars
<1>15. QED BY <1>7, <1>8, <1>9, <1>11, <1>12, <1>13, <1>14 DEF Next

\* ClientMessageBus keeps the promise of CallContract, for any number of
\* threads, receivers and calls: with its mutex, wait condition, queues,
\* sweeps and timeouts it still completes each call at most once and a call
\* that returns a reply was answered.
THEOREM BusImplementsContract == Spec => ContractSpec
<1>1. Init => Contract!Init
  BY DEF Init, Contract!Init, Ids, Contract!Ids
<1>2. IndInv /\ [Next]_vars => [Contract!Next]_(Contract!vars)
  BY ContractStep
<1>3. QED
  BY <1>1, <1>2, Inductive, PTL DEF Spec, ContractSpec, Contract!Spec
-----------------------------------------------------------------------------
(* Nobody is forgotten.                                                     *)

\* What the protocol thread finds in its queue: each call once, before the
\* socket or the server have seen it, and disconnect() without a receiver.
QueueInv ==
  /\ \A i, j \in DOMAIN out : out[i].id = out[j].id => i = j
  /\ \A i \in DOMAIN out :
       /\ out[i].id \notin written \cup replied
       /\ out[i].kind = "disconnect" => wm[out[i].id] \in {"none", NoObject}
       /\ out[i].kind = "delete" => ~ptr
  /\ replied \subseteq 1 .. curid

\* The bus is deleted when nobody has its pointer any more, nor is about to
\* take its mutex, and each of its sweeps finds less than the one before: the
\* first all that wait, the second nobody.
DyingInv ==
  /\ stage \in {"dying", "nap", "dying2", "gone"} => ~ptr
  /\ ~ptr => \A c \in Callers : pc[c] # "entering"
  /\ stage = "dying" => Waiting \subseteq pass
  /\ stage = "nap" => Waiting = {}
  /\ stage \in {"dying2", "gone"} => \A c \in Callers : pc[c] = "out"

\* Every answer strikes its call off the wait list, whoever waits.
LEMMA Struck ==
  ASSUME TypeOK, NEW id \in Ids, NEW ret, ReturnReceived(id, ret)
  PROVE  /\ wm' = [wm EXCEPT ![id] = "none"]
         /\ pc' = pc \/ pc' = Wake(pc)
         /\ UNCHANGED <<curid, mine>>
<1>1. wm[id] = "none" => [wm EXCEPT ![id] = "none"] = wm
  BY DEF TypeOK
<1>2. QED
  BY <1>1 DEF ReturnReceived, Unexpected, KeepForCaller, DropForDeadObject, PostToObject

\* A call taken off the queue, and one put there.
LEMMA Dequeued ==
  ASSUME out \in Seq(Event), out # <<>>, QueueInv, out' = Tail(out)
  PROVE  /\ Queued' = Queued \ {Head(out).id}
         /\ \A i, j \in DOMAIN out' : out'[i].id = out'[j].id => i = j
         /\ \A i \in DOMAIN out' :
              /\ out'[i].id # Head(out).id
              /\ \E j \in DOMAIN out : out'[i] = out[j]
<1>1. /\ \A i \in DOMAIN out' : i + 1 \in DOMAIN out /\ out'[i] = out[i + 1]
      /\ \A i \in DOMAIN out : i # 1 => i - 1 \in DOMAIN out' /\ out'[i - 1] = out[i]
      /\ 1 \in DOMAIN out /\ Head(out) = out[1]
      /\ DOMAIN out \subseteq Nat /\ DOMAIN out' \subseteq Nat \ {0}
  OBVIOUS
<1>2. \A i \in DOMAIN out' : out'[i].id # Head(out).id
  BY <1>1 DEF QueueInv
<1>3. \A i, j \in DOMAIN out' : out'[i].id = out'[j].id => i = j
  BY <1>1 DEF QueueInv
<1>4. ASSUME NEW id \in Queued \ {Head(out).id} PROVE id \in Queued'
  <2>1. PICK i \in DOMAIN out : out[i].id = id
    BY DEF Queued
  <2>2. i # 1 /\ i - 1 \in DOMAIN out' /\ out'[i - 1] = out[i]
    BY <1>1, <2>1
  <2>3. QED BY <2>1, <2>2 DEF Queued
<1>5. ASSUME NEW id \in Queued' PROVE id \in Queued \ {Head(out).id}
  <2>1. PICK i \in DOMAIN out' : out'[i].id = id
    BY DEF Queued
  <2>2. QED BY <1>1, <1>2, <2>1 DEF Queued
<1>6. QED BY <1>1, <1>2, <1>3, <1>4, <1>5

LEMMA Enqueued ==
  ASSUME out \in Seq(Event), NEW e \in Event, out' = Append(out, e)
  PROVE  /\ Queued' = Queued \cup {e.id}
         /\ DOMAIN out' = DOMAIN out \cup {Len(out) + 1}
         /\ Len(out) + 1 \notin DOMAIN out
         /\ out'[Len(out) + 1] = e
         /\ \A i \in DOMAIN out : out'[i] = out[i]
<1>1. /\ DOMAIN out' = DOMAIN out \cup {Len(out) + 1}
      /\ Len(out) + 1 \notin DOMAIN out
      /\ out'[Len(out) + 1] = e
      /\ \A i \in DOMAIN out : out'[i] = out[i]
  OBVIOUS
<1>2. QED BY <1>1 DEF Queued

\* Events have the ids of calls, or 0.
LEMMA EventIds ==
  ASSUME TypeOK, NEW i \in DOMAIN out
  PROVE  /\ out[i] \in Event
         /\ out[i].id \in Nat
         /\ out[i].id = 0 <=> out[i].kind = "delete"
         /\ out[i].kind # "delete" => out[i].id \in Ids
<1>1. out[i] \in Event
  BY DEF TypeOK
<1>2. QED BY <1>1 DEF Event, DeleteEvent, CallKinds, Ids
\* A call is struck off, and no other loses what will answer it.
LEMMA ComeKept ==
  ASSUME AnswerToCome, stage # "gone" \/ stage' = "gone", NEW id \in Ids,
         \A i \in Ids : wm'[i] = IF i = id THEN "none" ELSE wm[i],
         Queued \ {id} \subseteq Queued',
         (written \ replied) \ {id} \subseteq written' \ replied',
         pass \ {id} \subseteq pass'
  PROVE  AnswerToCome'
BY DEF AnswerToCome

\* A sweep finds them all.
LEMMA ComeSwept == pass' = Waiting' => AnswerToCome'
BY DEF AnswerToCome, Waiting

\* What a step of the protocol thread does to the queue's part of QueueInv:
\* it takes the head off, and lets the socket and the server know of no call
\* but that one.
LEMMA QueueHandled ==
  ASSUME IndInv, QueueInv, out # <<>>, out' = Tail(out),
         written' \cup replied' \subseteq written \cup replied \cup {Head(out).id},
         replied' \subseteq 1 .. curid', UNCHANGED ptr,
         \A id \in Ids : wm'[id] = wm[id] \/ wm'[id] = "none"
  PROVE  QueueInv'
<1>1. TypeOK /\ out \in Seq(Event)
  BY DEF IndInv, TypeOK
<1>2. /\ \A i, j \in DOMAIN out' : out'[i].id = out'[j].id => i = j
      /\ \A i \in DOMAIN out' : /\ out'[i].id # Head(out).id
                                /\ \E j \in DOMAIN out : out'[i] = out[j]
  BY <1>1, Dequeued
<1>3. ASSUME NEW i \in DOMAIN out'
      PROVE  /\ out'[i].id \notin written' \cup replied'
             /\ out'[i].kind = "disconnect" => wm'[out'[i].id] \in {"none", NoObject}
             /\ out'[i].kind = "delete" => ~ptr'
  <2>1. PICK j \in DOMAIN out : out'[i] = out[j]
    BY <1>2
  <2>2. out[j].id # Head(out).id
    BY <1>2, <2>1
  <2>3. out[j].kind = "disconnect" => out[j].id \in Ids
    BY <1>1, EventIds
  <2>4. QED BY <2>1, <2>2, <2>3 DEF QueueInv
<1>4. QED BY <1>2, <1>3 DEF QueueInv

\* What a step that leaves the queue alone does to it.
LEMMA QueueFrame ==
  ASSUME IndInv, QueueInv, UNCHANGED <<out, ptr, curid>>,
         written' \subseteq written, replied' \subseteq replied \cup written,
         \A id \in Ids : wm'[id] = wm[id] \/ wm'[id] = "none"
  PROVE  QueueInv'
<1>1. TypeOK
  BY DEF IndInv
<1>2. replied' \subseteq 1 .. curid
  BY DEF IndInv, ProtInv, QueueInv
<1>3. \A i \in DOMAIN out : out[i].kind = "disconnect" => out[i].id \in Ids
  BY <1>1, EventIds
<1>4. \A i \in DOMAIN out : out[i].kind = "disconnect" => wm'[out[i].id] \in {"none", NoObject}
  BY <1>3 DEF QueueInv
<1>5. QED BY <1>2, <1>4 DEF QueueInv

\* A call is registered: its id is new everywhere.
LEMMA RegisterCome ==
  ASSUME IndInv, QueueInv, AnswerToCome, NEW entry, NEW kind \in CallKinds, Register(entry, kind),
         kind = "disconnect" => entry = NoObject,
         UNCHANGED <<written, replied, pass, stage, ptr>>
  PROVE  QueueInv' /\ AnswerToCome'
<1> DEFINE e == [id |-> curid + 1, kind |-> kind]
<1>1. /\ TypeOK /\ curid \in Nat /\ curid + 1 \in Ids /\ out \in Seq(Event)
      /\ curid' = curid + 1 /\ wm' = [wm EXCEPT ![curid + 1] = entry]
  BY CallsAssumption DEF IndInv, TypeOK, Register, Ids
<1>2. e \in Event /\ e.kind # "delete" /\ out' = Append(out, e)
  BY <1>1 DEF Event, CallKinds, Register
<1>3. \A i \in DOMAIN out : out[i].id <= curid /\ out[i].id \in Nat
  BY <1>1, EventIds DEF IndInv, ProtInv
<1>4. curid + 1 \notin written \cup replied
  BY <1>1 DEF IndInv, ProtInv, QueueInv
<1>5. /\ Queued' = Queued \cup {curid + 1}
      /\ DOMAIN out' = DOMAIN out \cup {Len(out) + 1}
      /\ Len(out) + 1 \notin DOMAIN out
      /\ out'[Len(out) + 1] = e
      /\ \A i \in DOMAIN out : out'[i] = out[i]
  BY <1>1, <1>2, Enqueued
<1>6. \A i \in DOMAIN out : out[i].id # curid + 1
  BY <1>1, <1>3
<1>7. \A i, j \in DOMAIN out' : out'[i].id = out'[j].id => i = j
  BY <1>5, <1>6 DEF QueueInv
<1>8. ASSUME NEW i \in DOMAIN out'
      PROVE  /\ out'[i].id \notin written' \cup replied'
             /\ out'[i].kind = "disconnect" => wm'[out'[i].id] \in {"none", NoObject}
             /\ out'[i].kind = "delete" => ~ptr'
  <2>1. CASE i \in DOMAIN out
    <3>1. out[i].kind = "disconnect" => out[i].id \in Ids
      BY <1>1, <2>1, EventIds
    <3>2. wm \in [Ids -> {"none", "sync", NoObject} \cup Objects]
      BY <1>1 DEF TypeOK
    <3>3. QED BY <1>1, <1>5, <1>6, <2>1, <3>1, <3>2 DEF QueueInv
  <2>2. CASE i = Len(out) + 1
    <3>1. wm \in [Ids -> {"none", "sync", NoObject} \cup Objects]
      BY <1>1 DEF TypeOK
    <3>2. QED BY <1>1, <1>2, <1>4, <1>5, <2>2, <3>1
  <2>3. QED BY <1>5, <2>1, <2>2
<1>9. replied' \subseteq 1 .. curid'
  BY <1>1 DEF QueueInv
<1>10. AnswerToCome'
  BY <1>1, <1>5 DEF AnswerToCome, TypeOK
<1>11. QED BY <1>7, <1>8, <1>9, <1>10 DEF QueueInv
\* Every step keeps what is in the queue, and leaves no call unanswered.
LEMMA ComeStep ==
  ASSUME IndInv, QueueInv, AnswerToCome, [Next]_vars
  PROVE  QueueInv' /\ AnswerToCome'
<1> USE CallsAssumption
<1>0. TypeOK /\ out \in Seq(Event)
  BY DEF IndInv, TypeOK
<1>1. ASSUME UNCHANGED <<out, ptr, curid, wm, written, replied, pass, stage>>
      PROVE  QueueInv' /\ AnswerToCome'
  BY <1>1 DEF QueueInv, AnswerToCome, Queued
<1>2. ASSUME UNCHANGED <<curid, wm, pass>>, stage # "gone" \/ stage' = "gone", out' = out,
             UNCHANGED <<ptr, written, replied>>
      PROVE  QueueInv' /\ AnswerToCome'
  BY <1>2 DEF QueueInv, AnswerToCome, Queued
<1>3. ASSUME NEW kind, Handling(kind), kind \in CallKinds
      PROVE  /\ out # <<>> /\ out' = Tail(out) /\ stage = "loop"
             /\ Head(out).id \in Ids /\ Head(out).id \in 1 .. curid /\ Head(out).kind = kind
             /\ Queued' = Queued \ {Head(out).id}
             /\ Head(out).id \notin written \cup replied
             /\ kind = "disconnect" => wm[Head(out).id] \in {"none", NoObject}
  <2>1. out # <<>> /\ out' = Tail(out) /\ Head(out).kind = kind /\ stage = "loop"
    BY <1>3 DEF Handling, InLoop
  <2>2. Head(out).id \in 1 .. curid
    BY <1>3, HandledIssued DEF CallKinds
  <2>3. Head(out).id \in Ids
    BY <1>0, <2>2 DEF TypeOK, Ids
  <2>4. 1 \in DOMAIN out /\ Head(out) = out[1]
    BY <1>0, <2>1
  <2>5. QED BY <1>0, <2>1, <2>2, <2>3, <2>4, Dequeued DEF QueueInv
<1>4. ASSUME NEW c \in Callers, Caller(c) PROVE QueueInv' /\ AnswerToCome'
  <2>1. CASE CallSync(c)
    <3>1. PICK kind \in CallKinds \ {"disconnect"} : Register("sync", kind)
      BY <2>1 DEF CallSync
    <3>2. QED BY <2>1, <3>1, RegisterCome DEF CallSync, protVars, dyingVars
  <2>2. CASE TakeReturn(c) \/ TimeOut(c)
    BY <1>1, <2>2 DEF TakeReturn, TimeOut, Leave, protVars, dyingVars
  <2>3. CASE EnterSync(c) \/ Sleep(c) \/ WaitAgain(c) \/ Tick(c)
    BY <1>1, <2>3 DEF EnterSync, Sleep, WaitAgain, Tick, busVars, protVars, dyingVars
  <2>4. QED BY <1>4, <2>1, <2>2, <2>3 DEF Caller
<1>5. ASSUME NEW entry \in Objects \cup {NoObject}, CallAsync(entry)
      PROVE  QueueInv' /\ AnswerToCome'
  <2>1. PICK kind \in CallKinds : (kind = "disconnect" => entry = NoObject) /\ Register(entry, kind)
    BY <1>5 DEF CallAsync
  <2>2. QED BY <1>5, <2>1, RegisterCome DEF CallAsync, protVars, dyingVars
<1>6. CASE DeleteLater
  <2>1. /\ ptr /\ ptr' = FALSE /\ out' = Append(out, DeleteEvent) /\ DeleteEvent \in Event
        /\ UNCHANGED <<curid, wm, written, replied, pass, stage>>
    BY <1>6 DEF DeleteLater, Event, busVars, protVars, dyingVars
  <2>2. /\ Queued' = Queued \cup {0}
        /\ DOMAIN out' = DOMAIN out \cup {Len(out) + 1}
        /\ Len(out) + 1 \notin DOMAIN out
        /\ out'[Len(out) + 1] = DeleteEvent
        /\ \A i \in DOMAIN out : out'[i] = out[i]
    BY <1>0, <2>1, Enqueued DEF DeleteEvent
  <2>3. \A i \in DOMAIN out : out[i].kind # "delete" /\ out[i].id # 0
    BY <1>0, <2>1, EventIds DEF QueueInv
  <2>4. 0 \notin written \cup replied
    BY DEF IndInv, ProtInv, QueueInv
  <2>5. QueueInv'
    BY <2>1, <2>2, <2>3, <2>4 DEF QueueInv, DeleteEvent
  <2>6. QED BY <2>1, <2>2, <2>5 DEF AnswerToCome
<1>7. ASSUME NEW o \in Objects, Receiver(o) PROVE QueueInv' /\ AnswerToCome'
  BY <1>1, <1>7 DEF Receiver, Deliver, ObjectDies, busVars, protVars, dyingVars
<1>8. CASE HandleLocal
  <2> DEFINE id == Head(out).id
  <2>1. Handling("local") /\ ReturnReceived(id, Answer(id, "reply")) /\ replied' = replied \cup {id}
        /\ UNCHANGED <<written, pass, stage, ptr>>
    BY <1>8 DEF HandleLocal, dyingVars
  <2>2. /\ out # <<>> /\ out' = Tail(out) /\ stage = "loop" /\ id \in Ids /\ id \in 1 .. curid
        /\ Queued' = Queued \ {id}
    BY <1>3, <2>1 DEF CallKinds
  <2>3. wm' = [wm EXCEPT ![id] = "none"] /\ curid' = curid
    BY <1>0, <2>1, <2>2, Struck
  <2>4. \A i \in Ids : wm'[i] = IF i = id THEN "none" ELSE wm[i]
    BY <1>0, <2>3 DEF TypeOK
  <2>5. QueueInv'
    BY <2>1, <2>2, <2>3, <2>4, QueueHandled DEF QueueInv
  <2>6. AnswerToCome'
    BY <1>0, <2>1, <2>2, <2>4, ComeKept
  <2>7. QED BY <2>5, <2>6
<1>9. ASSUME NEW kind \in {"connect", "function"}, Handling(kind),
             UNCHANGED <<replied, pass, stage, ptr>>,
             \/ written' = written \cup {Head(out).id} /\ QuietBus
             \/ ReturnReceived(Head(out).id, Answer(Head(out).id, "error")) /\ UNCHANGED written
      PROVE  QueueInv' /\ AnswerToCome'
  <2> DEFINE id == Head(out).id
  <2>1. /\ out # <<>> /\ out' = Tail(out) /\ stage = "loop" /\ id \in Ids
        /\ Queued' = Queued \ {id} /\ id \notin replied
    BY <1>3, <1>9 DEF CallKinds
  <2>2. CASE written' = written \cup {id} /\ QuietBus
    <3>1. wm' = wm /\ curid' = curid
      BY <2>2 DEF QuietBus
    <3>2. QueueInv'
      BY <1>9, <2>1, <2>2, <3>1, QueueHandled DEF QueueInv
    <3>3. AnswerToCome'
      BY <1>9, <2>1, <2>2, <3>1 DEF AnswerToCome
    <3>4. QED BY <3>2, <3>3
  <2>3. CASE ReturnReceived(id, Answer(id, "error")) /\ UNCHANGED written
    <3>1. wm' = [wm EXCEPT ![id] = "none"] /\ curid' = curid
      BY <1>0, <2>1, <2>3, Struck
    <3>2. \A i \in Ids : wm'[i] = IF i = id THEN "none" ELSE wm[i]
      BY <1>0, <3>1 DEF TypeOK
    <3>3. QueueInv'
      BY <1>9, <2>1, <2>3, <3>1, <3>2, QueueHandled DEF QueueInv
    <3>4. AnswerToCome'
      BY <1>0, <1>9, <2>1, <2>3, <3>2, ComeKept
    <3>5. QED BY <3>3, <3>4
  <2>4. QED BY <1>9, <2>2, <2>3
<1>10. CASE HandleConnect
  BY <1>9, <1>10 DEF HandleConnect, dyingVars
<1>11. CASE HandleFunction
  BY <1>9, <1>11 DEF HandleFunction, dyingVars
<1>12. CASE HandleDisconnect
  <2>1. /\ Handling("disconnect") /\ QuietBus /\ UNCHANGED <<written, replied, ptr>>
        /\ BeginSweep("sweep") \/ UNCHANGED <<stage, pass>>
    BY <1>12 DEF HandleDisconnect, dyingVars
  <2>2. /\ out # <<>> /\ out' = Tail(out) /\ stage = "loop"
        /\ Queued' = Queued \ {Head(out).id} /\ wm[Head(out).id] \in {"none", NoObject}
    BY <1>3, <2>1 DEF CallKinds
  <2>3. wm' = wm /\ curid' = curid
    BY <2>1 DEF QuietBus
  <2>4. QueueInv'
    BY <2>1, <2>2, <2>3, QueueHandled DEF QueueInv
  <2>5. CASE BeginSweep("sweep")
    BY <2>3, <2>4, <2>5, ComeSwept DEF BeginSweep, Waiting
  <2>6. CASE UNCHANGED <<stage, pass>>
    BY <2>1, <2>2, <2>3, <2>4, <2>6 DEF AnswerToCome
  <2>7. QED BY <2>1, <2>5, <2>6
<1>13. CASE HandleDelete
  <2>1. /\ Handling("delete") /\ QuietBus /\ UNCHANGED <<written, replied, ptr>>
        /\ BeginSweep("dying")
    BY <1>13 DEF HandleDelete, protVars
  <2>2. out # <<>> /\ out' = Tail(out) /\ wm' = wm /\ curid' = curid
    BY <2>1 DEF Handling, QuietBus
  <2>3. QueueInv'
    BY <2>1, <2>2, QueueHandled DEF QueueInv
  <2>4. QED BY <2>1, <2>2, <2>3, ComeSwept DEF BeginSweep, Waiting
<1>14. ASSUME NEW id \in Ids, NEW kind, ReturnReceived(id, Answer(id, kind)),
              UNCHANGED <<out, ptr, written, stage>>, pass \ {id} \subseteq pass',
              \/ replied' = replied
              \/ id \in written /\ replied' = replied \cup {id}
       PROVE  QueueInv' /\ AnswerToCome'
  <2>1. wm' = [wm EXCEPT ![id] = "none"] /\ curid' = curid
    BY <1>0, <1>14, Struck
  <2>2. \A i \in Ids : wm'[i] = IF i = id THEN "none" ELSE wm[i]
    BY <1>0, <2>1 DEF TypeOK
  <2>3. QueueInv'
    BY <1>14, <2>1, <2>2, QueueFrame
  <2>4. Queued' = Queued
    BY <1>14 DEF Queued
  <2>5. AnswerToCome'
    BY <1>0, <1>14, <2>2, <2>4, ComeKept
  <2>6. QED BY <2>3, <2>5
<1>15. ASSUME NEW id \in Ids, Reply(id) PROVE QueueInv' /\ AnswerToCome'
  BY <1>14, <1>15 DEF Reply, dyingVars
<1>16. CASE FatalError
  <2>1. connectId \in Ids
    BY <1>16 DEF IndInv, TypeOK, ProtInv, FatalError, Ids
  <2>2. /\ ReturnReceived(connectId, Answer(connectId, "error")) /\ pass' = Waiting'
        /\ UNCHANGED <<written, replied, ptr, out>>
    BY <1>16 DEF FatalError, Waiting
  <2>3. wm' = [wm EXCEPT ![connectId] = "none"] /\ curid' = curid
    BY <1>0, <2>1, <2>2, Struck
  <2>4. \A i \in Ids : wm'[i] = IF i = connectId THEN "none" ELSE wm[i]
    BY <1>0, <2>3 DEF TypeOK
  <2>5. QueueInv'
    BY <2>2, <2>3, <2>4, QueueFrame
  <2>6. QED BY <2>2, <2>5, ComeSwept
<1>17. CASE SocketClosed
  <2>1. /\ QuietBus /\ BeginSweep("sweep") /\ written' = {} /\ UNCHANGED <<replied, ptr, out>>
    BY <1>17 DEF SocketClosed
  <2>2. wm' = wm /\ curid' = curid
    BY <2>1 DEF QuietBus
  <2>3. QueueInv'
    BY <2>1, <2>2, QueueFrame
  <2>4. QED BY <2>1, <2>2, <2>3, ComeSwept DEF BeginSweep, Waiting
<1>18. ASSUME NEW id \in Ids, SweepOne(id) PROVE QueueInv' /\ AnswerToCome'
  BY <1>14, <1>18 DEF SweepOne, protVars
<1>19. CASE SweepEnd
  <2>1. stage # "gone"
    BY <1>19 DEF SweepEnd, NextStage
  <2>2. QED BY <1>2, <1>19, <2>1 DEF SweepEnd, busVars, protVars
<1>20. CASE Nap
  <2>1. /\ QuietBus /\ BeginSweep("dying2") /\ UNCHANGED <<written, replied, ptr, out>>
    BY <1>20 DEF Nap, protVars
  <2>2. wm' = wm /\ curid' = curid
    BY <2>1 DEF QuietBus
  <2>3. QueueInv'
    BY <2>1, <2>2, QueueFrame
  <2>4. QED BY <2>1, <2>2, <2>3, ComeSwept DEF BeginSweep, Waiting
<1>21. CASE UNCHANGED vars
  BY <1>1, <1>21 DEF vars, busVars, protVars, dyingVars
<1>22. QED
  BY <1>4, <1>5, <1>6, <1>7, <1>8, <1>10, <1>11, <1>12, <1>13, <1>15, <1>16, <1>17, <1>18,
     <1>19, <1>20, <1>21
  DEF Next, Application, Dispatch, Sweep, Network

\* Every step keeps what the destructor of the bus counts on.
LEMMA DyingStep ==
  ASSUME ~Racing, IndInv, QueueInv, DyingInv, [Next]_vars
  PROVE  DyingInv'
<1>0. TypeOK /\ CallerInv /\ NoLostWakeup
  BY DEF IndInv, DataInv
<1>1. ASSUME UNCHANGED <<pc, wm, pass, stage, ptr>> PROVE DyingInv'
  BY <1>1 DEF DyingInv, Waiting
<1>2. ASSUME Waiting = {}, NEW c \in Callers, pc[c] \in Inside
      PROVE  pc[c] = "woken" /\ returnValues[mine[c]] # NoRet
  <2>1. mine[c] \in Ids
    BY <1>0, <1>2, CallsAssumption DEF CallerInv, TypeOK, Ids
  <2>2. wm[mine[c]] # "sync"
    BY <1>2, <2>1 DEF Waiting
  <2>3. QED BY <1>0, <1>2, <2>2 DEF CallerInv, NoLostWakeup, Inside
<1>3. ASSUME NEW c \in Callers, EnterSync(c) PROVE DyingInv'
  BY <1>3 DEF EnterSync, DyingInv, busVars, dyingVars, Waiting
<1>4. ASSUME NEW c \in Callers, CallSync(c) PROVE DyingInv'
  <2>1. ptr /\ ptr' = ptr /\ stage' = stage
    BY <1>4 DEF CallSync, DyingInv, dyingVars
  <2>2. QED BY <2>1 DEF DyingInv
<1>5. ASSUME NEW c \in Callers, pc[c] \in Inside, NEW to \in {"compute", "asleep", "out"},
             pc' = [pc EXCEPT ![c] = to], UNCHANGED <<wm, pass, stage, ptr>>
      PROVE  DyingInv'
  <2>1. \A d \in Callers : pc'[d] = pc[d] \/ pc'[d] = to
    BY <1>0, <1>5 DEF TypeOK
  <2>2. pc[c] # "out"
    BY <1>5 DEF Inside
  <2>3. QED BY <1>5, <2>1, <2>2 DEF DyingInv, Waiting
<1>6. ASSUME NEW c \in Callers, Sleep(c) \/ TakeReturn(c) \/ WaitAgain(c) \/ TimeOut(c) PROVE DyingInv'
  BY <1>5, <1>6
  DEF Sleep, TakeReturn, WaitAgain, TimeOut, Leave, Inside, busVars, dyingVars
<1>7. ASSUME NEW c \in Callers, Tick(c) PROVE DyingInv'
  BY <1>1, <1>7 DEF Tick, busVars, dyingVars
<1>8. ASSUME NEW entry, CallAsync(entry) PROVE DyingInv'
  <2>1. ptr /\ ptr' = ptr /\ stage' = stage
    BY <1>8 DEF CallAsync, dyingVars
  <2>2. QED BY <2>1 DEF DyingInv
<1>9. CASE DeleteLater
  BY <1>9 DEF DeleteLater, DyingInv, busVars, callerVars, dyingVars, Waiting
<1>10. ASSUME NEW o \in Objects, Receiver(o) PROVE DyingInv'
  BY <1>1, <1>10 DEF Receiver, Deliver, ObjectDies, busVars, callerVars, dyingVars
<1>11. ASSUME stage = "loop", stage' \in {"loop", "sweep"}, UNCHANGED ptr,
              pc' = pc \/ pc' = Wake(pc)
       PROVE  DyingInv'
  <2>1. \A c \in Callers : pc'[c] = "entering" => pc[c] = "entering"
    BY <1>11 DEF Wake
  <2>2. QED BY <1>11, <2>1 DEF DyingInv
<1>12. ASSUME NEW kind \in CallKinds, Handling(kind)
       PROVE  stage = "loop" /\ Head(out).id \in Ids
  BY <1>0, <1>12, HandledIssued, CallsAssumption DEF Handling, InLoop, CallKinds, TypeOK, Ids
<1>13. ASSUME NEW id \in Ids, NEW kind, ReturnReceived(id, Answer(id, kind)) \/ QuietBus
       PROVE  pc' = pc \/ pc' = Wake(pc)
  BY <1>0, <1>13, Struck DEF QuietBus
<1>14. CASE HandleLocal
  BY <1>11, <1>12, <1>13, <1>14 DEF HandleLocal, CallKinds, dyingVars
<1>15. CASE HandleConnect
  BY <1>11, <1>12, <1>13, <1>15 DEF HandleConnect, CallKinds, dyingVars
<1>16. CASE HandleFunction
  BY <1>11, <1>12, <1>13, <1>16 DEF HandleFunction, CallKinds, dyingVars
<1>17. CASE HandleDisconnect
  BY <1>11, <1>12, <1>17 DEF HandleDisconnect, CallKinds, QuietBus, BeginSweep, dyingVars
<1>18. CASE HandleDelete
  <2>1. /\ stage' = "dying" /\ pass' = Waiting /\ UNCHANGED <<wm, pc, ptr>>
        /\ out # <<>> /\ Head(out).kind = "delete"
    BY <1>18 DEF HandleDelete, Handling, BeginSweep, QuietBus
  <2>2. 1 \in DOMAIN out /\ Head(out) = out[1]
    BY <1>0, <2>1 DEF TypeOK
  <2>3. ~ptr
    BY <2>1, <2>2 DEF QueueInv
  <2>4. QED BY <2>1, <2>3 DEF DyingInv, Waiting
<1>19. ASSUME NEW id \in Ids, Reply(id) PROVE DyingInv'
  BY <1>11, <1>13, <1>19 DEF Reply, InLoop, dyingVars
<1>20. CASE FatalError
  <2>1. connectId \in Ids
    BY <1>20 DEF IndInv, TypeOK, ProtInv, FatalError, Ids
  <2>2. QED BY <1>11, <1>13, <1>20, <2>1 DEF FatalError, InLoop
<1>21. CASE SocketClosed
  BY <1>11, <1>21 DEF SocketClosed, InLoop, QuietBus, BeginSweep
<1>22. ASSUME NEW id \in Ids, SweepOne(id) PROVE DyingInv'
  <2>1. /\ pass' = pass \ {id} /\ UNCHANGED <<stage, ptr>>
        /\ wm' = [wm EXCEPT ![id] = "none"]
        /\ pc' = pc \/ pc' = Wake(pc)
    BY <1>0, <1>22, Struck DEF SweepOne
  <2>2. Waiting' = Waiting \ {id}
    <3>1. \A i \in Ids : wm'[i] = IF i = id THEN "none" ELSE wm[i]
      BY <1>0, <2>1 DEF TypeOK
    <3>2. QED BY <3>1 DEF Waiting
  <2>3. \A c \in Callers : /\ pc'[c] = "entering" => pc[c] = "entering"
                           /\ pc[c] = "out" => pc'[c] = "out"
    BY <2>1 DEF Wake
  <2>4. QED BY <2>1, <2>2, <2>3 DEF DyingInv
<1>23. CASE SweepEnd
  <2>1. /\ pass = {} /\ pc' = Wake(pc) /\ UNCHANGED <<ptr, wm, pass>>
        /\ stage \in {"sweep", "dying", "dying2"} /\ stage' = NextStage[stage]
    BY <1>23 DEF SweepEnd, NextStage, busVars
  <2>2. \A c \in Callers : /\ pc'[c] = "entering" => pc[c] = "entering"
                           /\ pc[c] = "out" => pc'[c] = "out"
    BY <2>1 DEF Wake
  <2>3. CASE stage = "sweep"
    BY <2>1, <2>2, <2>3 DEF DyingInv, NextStage
  <2>4. CASE stage = "dying"
    BY <2>1, <2>2, <2>4 DEF DyingInv, NextStage, Waiting
  <2>5. CASE stage = "dying2"
    BY <2>1, <2>2, <2>5 DEF DyingInv, NextStage
  <2>6. QED BY <2>1, <2>3, <2>4, <2>5
<1>24. CASE Nap
  <2>1. /\ stage = "nap" /\ stage' = "dying2" /\ UNCHANGED <<pc, ptr>>
        /\ \A c \in Callers : pc[c] # "woken"
    BY <1>24 DEF Nap, BeginSweep, QuietBus
  <2>2. \A c \in Callers : pc[c] \notin Inside /\ pc[c] # "entering"
    BY <1>2, <2>1 DEF DyingInv
  <2>3. \A c \in Callers : pc[c] = "out"
    BY <1>0, <2>2 DEF TypeOK
  <2>4. QED BY <2>1, <2>3 DEF DyingInv
<1>25. CASE UNCHANGED vars
  BY <1>1, <1>25 DEF vars, busVars, callerVars, dyingVars
<1>26. QED
  BY <1>3, <1>4, <1>6, <1>7, <1>8, <1>9, <1>10, <1>14, <1>15, <1>16, <1>17, <1>18, <1>19, <1>20,
     <1>21, <1>22, <1>23, <1>24, <1>25
  DEF Next, Caller, Application, Dispatch, Sweep, Network

\* No call in the wait list is forgotten: as long as the bus lives, something
\* will answer it.
THEOREM AnswersToCome == Spec => []AnswerToCome
<1>1. Init => QueueInv /\ AnswerToCome
  BY DEF Init, QueueInv, AnswerToCome
<1>2. IndInv /\ QueueInv /\ AnswerToCome /\ [Next]_vars => (QueueInv /\ AnswerToCome)'
  BY ComeStep
<1>3. QED BY <1>1, <1>2, Inductive, PTL DEF Spec

\* Neither is a thread in the wait condition that ~ClientMessageBus frees, if
\* the bus is only deleted when nobody is about to call it.
THEOREM NoneForgotten == ~Racing => (Spec => []NobodyForgotten)
<1> SUFFICES ASSUME ~Racing PROVE Spec => []NobodyForgotten
  OBVIOUS
<1>1. Init => QueueInv /\ AnswerToCome /\ DyingInv
  BY DEF Init, QueueInv, AnswerToCome, DyingInv
<1>2. IndInv /\ QueueInv /\ AnswerToCome /\ DyingInv /\ [Next]_vars
        => (QueueInv /\ AnswerToCome /\ DyingInv)'
  BY ComeStep, DyingStep
<1>3. AnswerToCome /\ DyingInv => NobodyForgotten
  BY DEF DyingInv, NobodyForgotten, NobodyLeftInside
<1>4. QED BY <1>1, <1>2, <1>3, Inductive, PTL DEF Spec
=============================================================================
