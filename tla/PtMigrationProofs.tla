-------------------------- MODULE PtMigrationProofs --------------------------
(***************************************************************************)
(* PtMigration, for any number of stores and of event slots.               *)
(*  - For any number of faults: it is type correct, an event waits exactly *)
(*    while one command of it is outstanding, and a persisted event is     *)
(*    driven.                                                              *)
(*  - While the leader is not deposed (StableLeader): an Offline PT is not *)
(*    forgotten and an Online one does not change hands.                   *)
(*  - If, besides, stores that die stay down and no command outlives its   *)
(*    session (NoReturn): only the owner loads the PT, while it is Offline.*)
(*  - If, besides, one store dies (OneCrash): no two stores ever have the  *)
(*    PT loaded, and the meta data is right about it when no event is left.*)
(***************************************************************************)
EXTENDS PtMigration, FiniteSetTheorems, TLAPS

GoodEvent(e) == e \in EventType /\ WellFormed(e)

\* An event whose handler may run, or no event at all: nobody owes it an answer.
NotWaiting(e) == e = NoEvent \/ (GoodEvent(e) /\ e.mode # "wait")

-----------------------------------------------------------------------------
(* The operators of events and commands.                                   *)

\* getTarget names a store.
LEMMA TargetType == ASSUME NEW e, GoodEvent(e) PROVE Target(e) \in Nodes
BY DEF GoodEvent, WellFormed, EventType, Target, AssignStates

\* stateTransition keeps an event within the states of its kind.
LEMMA TransitionGood ==
    ASSUME NEW e, GoodEvent(e), NEW ok \in BOOLEAN
    PROVE  /\ GoodEvent(StateTransition(e, ok))
           /\ StateTransition(e, ok).mode = e.mode
<1> DEFINE s == IF e.type = "Assign" THEN AssignTransition(e.cur, ok)
                ELSE MoveTransition(e.cur, ok)
<1>1. e \in EventType /\ WellFormed(e)
  BY DEF GoodEvent
<1>2. CASE e.type = "Assign"
  <2>1. e.cur \in AssignStates /\ s \in AssignStates
    BY <1>1, <1>2 DEF WellFormed, AssignStates, AssignTransition
  <2>2. QED
    BY <1>1, <1>2, <2>1, ZenonT(40) DEF GoodEvent, WellFormed, StateTransition, EventType,
                                      AssignStates, States
<1>3. CASE e.type # "Assign"
  <2>1. e.cur \in States
    BY <1>1 DEF EventType
  <2>2. s \in States
    BY <1>3, <2>1 DEF MoveTransition, States
  <2>3. e.src \in Nodes
    BY <1>1, <1>3 DEF WellFormed
  <2>4. QED
    BY <1>1, <1>3, <2>1, <2>2, <2>3 DEF GoodEvent, WellFormed, StateTransition,
                                        EventType
<1>4. QED
  BY <1>2, <1>3

\* handleMigrateCommandResponse leaves no event waiting.
LEMMA AnsweredGood ==
    ASSUME NEW e, GoodEvent(e), NEW res PROVE NotWaiting(Answered(e, res))
<1>1. ASSUME NEW ok \in BOOLEAN PROVE NotWaiting(Transited(e, ok))
  <2>1. GoodEvent(StateTransition(e, ok))
    BY TransitionGood
  <2>2. GoodEvent([StateTransition(e, ok) EXCEPT !.mode = "run"])
    BY <2>1 DEF GoodEvent, WellFormed, EventType
  <2>3. [StateTransition(e, ok) EXCEPT !.mode = "run"].mode # "wait"
    BY <2>1 DEF GoodEvent, EventType
  <2>4. QED
    BY <2>2, <2>3 DEF Transited, NotWaiting
<1>2. NotWaiting([e EXCEPT !.mode = "retry"])
  BY DEF NotWaiting, GoodEvent, WellFormed, EventType
<1>3. QED
  BY <1>1, <1>2 DEF Answered

\* A command goes to a store and waits for its answer under its event's slot.
LEMMA RequestGood ==
    ASSUME NEW i \in EvIds, NEW e, GoodEvent(e), up \in [Nodes -> BOOLEAN]
    PROVE  /\ Request(i, e) \in RequestType
           /\ Request(i, e).id = i /\ Request(i, e).tag = 0
<1>1. Target(e) \in Nodes
  BY TargetType
<1>2. e.conn \in Nat /\ e.pt.ver \in Nat /\ e.cur \in States
  BY DEF GoodEvent, EventType, PtType
<1>3. QED
  BY <1>1, <1>2 DEF Request, RequestType

\* There is always an opId that no event has.
LEMMA FreshOpType == ASSUME IInv PROVE FreshOp \in Nat \ {0}
<1> DEFINE n == Cardinality(EvIds)
           Ops == {ev[i].op : i \in EvIds}
           Used == Ops \cup {stored.op}
           f == [i \in EvIds |-> ev[i].op]
<1>1. IsFiniteSet(EvIds) /\ n \in Nat
  BY EvIdsAssumption, FS_CardinalityType
<1>2. IsFiniteSet(Ops) /\ Cardinality(Ops) <= n /\ Cardinality(Ops) \in Nat
  <2>1. f \in Surjection(EvIds, Ops)
    BY DEF Surjection
  <2>2. QED
    BY <1>1, <2>1, FS_Surjection, FS_CardinalityType
<1>3. IsFiniteSet(Used) /\ Cardinality(Used) <= n + 1
  <2> HIDE DEF Ops
  <2>1. /\ IsFiniteSet(Used)
        /\ Cardinality(Used) = IF stored.op \in Ops THEN Cardinality(Ops)
                               ELSE Cardinality(Ops) + 1
    BY <1>2, FS_AddElement
  <2>2. QED
    BY <1>1, <1>2, <2>1
<1>4. IsFiniteSet(1..(n + 2)) /\ Cardinality(1..(n + 2)) = n + 2
  BY <1>1, FS_Interval
<1>5. \E k \in 1..(n + 2) : k \notin Used
  <2>1. SUFFICES ASSUME 1..(n + 2) \subseteq Used PROVE FALSE
    OBVIOUS
  <2>2. Cardinality(1..(n + 2)) <= Cardinality(Used)
    BY <1>3, <2>1, FS_Subset
  <2>3. Cardinality(Used) \in Nat
    BY <1>3, FS_CardinalityType
  <2>4. QED
    BY <1>1, <1>3, <1>4, <2>2, <2>3
<1>6. \E k \in 1..(n + 2) :
          /\ stored # NoEvent => stored.op # k
          /\ \A i \in EvIds : ev[i] # NoEvent => ev[i].op # k
  BY <1>5
<1>7. FreshOp \in 1..(n + 2)
  BY <1>6, Zenon DEF FreshOp
<1>8. QED
  BY <1>1, <1>7

-----------------------------------------------------------------------------
(* The invariant in parts: what the steps disturb together.                *)

EvTyped ==
    /\ ev \in [EvIds -> EventType \cup {NoEvent}]
    /\ \A i \in EvIds : ev[i] # NoEvent => WellFormed(ev[i])

ReqTyped == reqs \subseteq RequestType

MetaTyped ==
    /\ ptView \in PtType
    /\ stored \in StoredType \cup {NoEvent}
    /\ stored # NoEvent => (stored.type = "Move" => stored.src \in Nodes)
    /\ dn \in [Nodes -> [status : {"Alive", "Failed"}, alive : Nat]]

LeaderTyped ==
    /\ leader \in BOOLEAN
    /\ msm \in {"Running", "Stopped"}
    /\ cm \in BOOLEAN
    /\ members \subseteq Nodes
    /\ handler \in [Nodes -> {"none", "join", "failed"}]
    /\ inMap \in EvIds \cup {0}
    /\ failed \subseteq [pt : PtType, retry : BOOLEAN]

StoreTyped ==
    /\ up \in [Nodes -> BOOLEAN]
    /\ conn \in [Nodes -> Nat]
    /\ eng \in [Nodes -> [st : {"none", "preload", "loaded"}, bgr : BOOLEAN]]
    /\ clock \in Nat

BudgetTyped == budget \in [Kinds -> Nat]

Parts == /\ EvTyped /\ ReqTyped /\ MetaTyped /\ LeaderTyped
         /\ StoreTyped /\ BudgetTyped /\ OneCommand

\* The parts make up the invariant.
LEMMA PartsAreIInv == IInv <=> Parts
BY DEF IInv, TypeOK, EventInv, Parts, EvTyped, ReqTyped, MetaTyped, LeaderTyped,
       StoreTyped, BudgetTyped

\* ... in the next state as well.
LEMMA PartsAreIInvNext == IInv' <=> Parts'
BY DEF IInv, TypeOK, EventInv, Parts, EvTyped, ReqTyped, MetaTyped, LeaderTyped,
       StoreTyped, BudgetTyped

\* An event object has the type of an event and is well formed.
LEMMA EvGood ==
    ASSUME EvTyped, NEW i \in EvIds, ev[i] # NoEvent PROVE GoodEvent(ev[i])
BY DEF EvTyped, GoodEvent

\* A record is an event.
LEMMA GoodIsEvent == ASSUME NEW e, GoodEvent(e) PROVE e # NoEvent
BY NoEventAssumption DEF GoodEvent

\* Spending keeps the budget's type.
LEMMA SpendType == ASSUME BudgetTyped, NEW k \in Kinds, Spend(k) PROVE BudgetTyped'
<1>1. budget[k] \in Nat /\ budget[k] > 0
  BY DEF BudgetTyped, Spend
<1>2. budget[k] - 1 \in Nat
  BY <1>1
<1>3. QED
  BY <1>2 DEF BudgetTyped, Spend

-----------------------------------------------------------------------------
(* Events and the commands they wait for.                                  *)

\* An event slot changes and no command is concerned.
LEMMA QuietEvent ==
    ASSUME EvTyped, ReqTyped, OneCommand,
           NEW i \in EvIds, ev[i] = NoEvent \/ ev[i].mode # "wait",
           NEW e, NotWaiting(e), ev' = [ev EXCEPT ![i] = e], UNCHANGED reqs
    PROVE  EvTyped' /\ ReqTyped' /\ OneCommand'
<1>1. EvTyped'
  BY DEF EvTyped, NotWaiting, GoodEvent
<1>2. ReqTyped'
  BY DEF ReqTyped
<1>3. \A r \in reqs : r.tag = 0 => r.id \in EvIds /\ r.id # i
  BY DEF ReqTyped, RequestType, OneCommand
<1>4. \A j \in EvIds : ev'[j] = IF j = i THEN e ELSE ev[j]
  BY DEF EvTyped
<1>5. OneCommand'
  BY <1>3, <1>4 DEF OneCommand, NotWaiting
<1>6. QED
  BY <1>1, <1>2, <1>5

\* sendMigrateCommand: the event waits for the new request, or has been
\* answered that there is no connection.
LEMMA SendStep ==
    ASSUME EvTyped, ReqTyped, OneCommand, BudgetTyped, up \in [Nodes -> BOOLEAN],
           NEW i \in EvIds, ev[i] = NoEvent \/ ev[i].mode # "wait",
           NEW e, GoodEvent(e), SendMigrateCommand(i, e)
    PROVE  EvTyped' /\ ReqTyped' /\ OneCommand' /\ BudgetTyped'
<1> DEFINE w == [e EXCEPT !.mode = "wait"]
<1>1. GoodEvent(w) /\ w.mode = "wait"
  BY DEF GoodEvent, WellFormed, EventType
<1>2. CASE /\ reqs' = reqs \cup {Request(i, e)}
           /\ ev' = [ev EXCEPT ![i] = w] /\ UNCHANGED budget
  <2>1. /\ Request(i, e) \in RequestType
        /\ Request(i, e).id = i /\ Request(i, e).tag = 0
    BY RequestGood
  <2>2. EvTyped' /\ ReqTyped' /\ BudgetTyped'
    BY <1>1, <1>2, <2>1 DEF EvTyped, ReqTyped, BudgetTyped, GoodEvent
  <2>3. \A r \in reqs : r.tag = 0 => r.id \in EvIds /\ r.id # i
    BY DEF ReqTyped, RequestType, OneCommand
  <2>4. \A j \in EvIds : ev'[j] = IF j = i THEN w ELSE ev[j]
    BY <1>2 DEF EvTyped
  <2>5. w # NoEvent
    BY <1>1, GoodIsEvent
  <2> HIDE DEF w
  <2>6. \A r \in reqs' : r.tag = 0 => ev'[r.id] # NoEvent /\ ev'[r.id].mode = "wait"
    BY <1>1, <1>2, <2>1, <2>3, <2>4, <2>5 DEF OneCommand
  <2>7. \A r, q \in reqs' : r.tag = 0 /\ q.tag = 0 /\ r.id = q.id => r = q
    BY <1>2, <2>1, <2>3 DEF OneCommand
  <2>8. \A j \in EvIds : ev'[j] # NoEvent /\ ev'[j].mode = "wait" =>
            \E r \in reqs' : r.tag = 0 /\ r.id = j
    BY <1>2, <2>1, <2>4 DEF OneCommand
  <2>9. QED
    BY <2>2, <2>6, <2>7, <2>8 DEF OneCommand
<1>3. CASE /\ IF up[Target(e)] THEN Spend("noconn") ELSE UNCHANGED budget
           /\ ev' = [ev EXCEPT ![i] = Answered(e, "noconn")]
           /\ UNCHANGED reqs
  <2>1. NotWaiting(Answered(e, "noconn"))
    BY AnsweredGood
  <2>2. BudgetTyped'
    BY <1>3, SpendType DEF Kinds, BudgetTyped
  <2>3. QED
    BY <1>3, <2>1, <2>2, QuietEvent
<1>4. QED
  BY <1>2, <1>3 DEF SendMigrateCommand

\* The leader stops waiting for request r; what is left of it, if anything, is
\* tagged.
LEMMA AnswerStep ==
    ASSUME EvTyped, ReqTyped, OneCommand, NEW r \in reqs, r.tag = 0, NEW res,
           NEW S, S \subseteq RequestType, \A q \in S : q.tag # 0,
           reqs' = (reqs \ {r}) \cup S,
           ev' = [ev EXCEPT ![r.id] = Answered(@, res)]
    PROVE  EvTyped' /\ ReqTyped' /\ OneCommand'
<1> DEFINE e == Answered(ev[r.id], res)
<1>1. r.id \in EvIds /\ ev[r.id] # NoEvent
  BY DEF ReqTyped, RequestType, OneCommand
<1>2. NotWaiting(e)
  BY <1>1, EvGood, AnsweredGood
<1> HIDE DEF e
<1>3. ev' = [ev EXCEPT ![r.id] = e]
  BY DEF e
<1>4. EvTyped'
  BY <1>1, <1>2, <1>3 DEF EvTyped, NotWaiting, GoodEvent
<1>5. ReqTyped'
  BY DEF ReqTyped
<1>6. \A j \in EvIds : ev'[j] = IF j = r.id THEN e ELSE ev[j]
  BY <1>3 DEF EvTyped
<1>7. \A q \in reqs' : q.tag = 0 => q \in reqs /\ q.id \in EvIds /\ q.id # r.id
  BY DEF ReqTyped, RequestType, OneCommand
<1>8. OneCommand'
  BY <1>2, <1>6, <1>7 DEF OneCommand, NotWaiting
<1>9. QED
  BY <1>4, <1>5, <1>8

\* A store's answer, to a leader that waits for it or to nobody.
LEMMA ReplyStep ==
    ASSUME EvTyped, ReqTyped, OneCommand, NEW r \in reqs, NEW res, Reply(r, res)
    PROVE  EvTyped' /\ ReqTyped' /\ OneCommand'
<1>1. CASE r.tag = 0
  <2> DEFINE S == {}
  <2>1. S \subseteq RequestType /\ \A q \in S : q.tag # 0
    OBVIOUS
  <2>2. reqs' = (reqs \ {r}) \cup S
    BY DEF Reply
  <2>3. ev' = [ev EXCEPT ![r.id] = Answered(@, res)]
    BY <1>1 DEF Reply
  <2> HIDE DEF S
  <2>4. QED
    BY <1>1, <2>1, <2>2, <2>3, AnswerStep
<1>2. CASE r.tag # 0
  BY <1>2 DEF Reply, EvTyped, ReqTyped, OneCommand
<1>3. QED
  BY <1>1, <1>2

\* An event whose handler runs in slot i takes a new value that waits for nobody.
LEMMA HandlerStep ==
    ASSUME EvTyped, ReqTyped, OneCommand, NEW i \in EvIds, ev[i].mode # "wait",
           NEW e, GoodEvent(e), e.mode # "wait",
           ev' = [ev EXCEPT ![i] = e], UNCHANGED reqs
    PROVE  EvTyped' /\ ReqTyped' /\ OneCommand'
<1>1. NotWaiting(e)
  BY DEF NotWaiting
<1>2. QED
  BY <1>1, QuietEvent

\* The goroutine of an event leaves its loop.
LEMMA LeaveStep ==
    ASSUME EvTyped, ReqTyped, OneCommand, LeaderTyped, NEW i \in EvIds,
           ev[i].mode # "wait", NEW e, GoodEvent(e), Leave(i, e), UNCHANGED reqs,
           UNCHANGED <<leader, msm, cmVars>>
    PROVE  EvTyped' /\ ReqTyped' /\ OneCommand' /\ LeaderTyped'
<1> DEFINE d == [e EXCEPT !.mode = "del"]
<1>1. GoodEvent(d) /\ d.mode # "wait"
  BY DEF GoodEvent, WellFormed, EventType
<1>2. ev' = [ev EXCEPT ![i] = d]
  BY DEF Leave
<1>3. LeaderTyped'
  BY DEF LeaderTyped, Leave, cmVars
<1> HIDE DEF d
<1>4. QED
  BY <1>1, <1>2, <1>3, HandlerStep

\* ... with an error.
LEMMA FailStep ==
    ASSUME EvTyped, ReqTyped, OneCommand, LeaderTyped, NEW i \in EvIds,
           ev[i].mode # "wait", NEW e, GoodEvent(e), Fail(i, e), UNCHANGED reqs,
           UNCHANGED <<leader, msm, cmVars>>
    PROVE  EvTyped' /\ ReqTyped' /\ OneCommand' /\ LeaderTyped'
<1> DEFINE d == [e EXCEPT !.err = TRUE]
<1>1. GoodEvent(d)
  BY DEF GoodEvent, WellFormed, EventType
<1>2. Leave(i, d)
  BY DEF Fail
<1> HIDE DEF d
<1>3. QED
  BY <1>1, <1>2, LeaveStep

-----------------------------------------------------------------------------
(* The steps of an event.                                                  *)

\* What createMigrateEvent persists is an event of meta.Data.
LEMMA CreatedType ==
    ASSUME Parts, NEW e, GoodEvent(e)
    PROVE  /\ Created(e) \in StoredType
           /\ Created(e).type = "Move" => Created(e).src \in Nodes
<1>1. FreshOp \in Nat
  BY FreshOpType, PartsAreIInv
<1>2. CASE stored # NoEvent
  BY <1>2 DEF Created, Parts, MetaTyped
<1>3. CASE stored = NoEvent
  BY <1>1, <1>3 DEF Created, StoredType, GoodEvent, WellFormed, EventType
<1>4. QED
  BY <1>2, <1>3

\* retryMigrateCmd.
LEMMA RetryStep == ASSUME Parts, NEW i \in EvIds, Retry(i) PROVE Parts'
<1>1. GoodEvent(ev[i]) /\ ev[i].mode # "wait"
  BY EvGood DEF Retry, Parts
<1>2. EvTyped' /\ ReqTyped' /\ OneCommand' /\ BudgetTyped'
  BY <1>1, SendStep DEF Retry, Parts, StoreTyped
<1>3. MetaTyped' /\ LeaderTyped' /\ StoreTyped'
  BY DEF Retry, Parts, MetaTyped, LeaderTyped, StoreTyped, metaVars, cmVars, storeVars
<1>4. QED
  BY <1>2, <1>3 DEF Parts

\* StateMachineIsNotRunning.
LEMMA NotRunningStep == ASSUME Parts, NEW i \in EvIds, NotRunning(i) PROVE Parts'
<1>1. GoodEvent(ev[i]) /\ ev[i].mode # "wait"
  BY EvGood DEF NotRunning, Parts
<1>2. EvTyped' /\ ReqTyped' /\ OneCommand' /\ LeaderTyped'
  BY <1>1, FailStep DEF NotRunning, Parts
<1>3. MetaTyped' /\ BudgetTyped' /\ StoreTyped'
  BY DEF NotRunning, Parts, MetaTyped, BudgetTyped, StoreTyped, metaVars, storeVars
<1>4. QED
  BY <1>2, <1>3 DEF Parts

\* storeTransitionState, or rollbackLastTransition.
LEMMA StoreTransitionStep ==
    ASSUME Parts, NEW i \in EvIds, StoreTransitionState(i) PROVE Parts'
<1> DEFINE e == ev[i]
<1>1. GoodEvent(e) /\ e.mode # "wait"
  BY EvGood DEF StoreTransitionState, Parts
<1>2. BudgetTyped' /\ StoreTyped'
  BY DEF StoreTransitionState, Parts, BudgetTyped, StoreTyped, storeVars
<1>3. CASE leader /\ stored # NoEvent /\ stored.op = e.op
  <2> DEFINE d == [e EXCEPT !.persist = FALSE]
  <2>1. GoodEvent(d) /\ d.mode # "wait"
    BY <1>1 DEF GoodEvent, WellFormed, EventType
  <2>2. ev' = [ev EXCEPT ![i] = d] /\ UNCHANGED reqs
    BY <1>3 DEF StoreTransitionState
  <2>3. MetaTyped'
    BY <1>1, <1>3 DEF StoreTransitionState, Parts, MetaTyped, StoredType,
                      GoodEvent, EventType
  <2>4. LeaderTyped'
    BY <1>3 DEF StoreTransitionState, Parts, LeaderTyped, cmVars
  <2> HIDE DEF d
  <2>5. EvTyped' /\ ReqTyped' /\ OneCommand'
    BY <1>1, <2>1, <2>2, HandlerStep DEF Parts
  <2>6. QED
    BY <1>2, <2>3, <2>4, <2>5 DEF Parts
<1>4. CASE ~(leader /\ stored # NoEvent /\ stored.op = e.op)
  <2> DEFINE d == [e EXCEPT !.cur = e.pre]
  <2>1. GoodEvent(d)
    BY <1>1 DEF GoodEvent, WellFormed, EventType
  <2>2. Fail(i, d) /\ UNCHANGED <<leader, msm, cmVars>> /\ UNCHANGED reqs
    BY <1>4 DEF StoreTransitionState
  <2>3. MetaTyped'
    BY <1>4 DEF StoreTransitionState, Parts, MetaTyped
  <2> HIDE DEF d
  <2>4. EvTyped' /\ ReqTyped' /\ OneCommand' /\ LeaderTyped'
    BY <1>1, <2>1, <2>2, FailStep DEF Parts
  <2>5. QED
    BY <1>2, <2>3, <2>4 DEF Parts
<1>5. QED
  BY <1>3, <1>4

\* initHandler.
LEMMA AssignInitStep == ASSUME Parts, NEW i \in EvIds, AssignInit(i) PROVE Parts'
<1> DEFINE e == ev[i]
           ok == e.op # 0 \/ (leader /\ CanCreate(e))
<1>1. GoodEvent(e) /\ e.mode # "wait" /\ e.type = "Assign"
  BY EvGood DEF AssignInit, AtHandler, Parts
<1>2. BudgetTyped' /\ StoreTyped'
  BY DEF AssignInit, Parts, BudgetTyped, StoreTyped, storeVars
<1>3. CASE ok
  <2> DEFINE d == [e EXCEPT !.cur = "Assign",
                            !.op = IF e.op # 0 THEN e.op ELSE Created(e).op]
  <2>1. /\ Created(e) \in StoredType
        /\ Created(e).type = "Move" => Created(e).src \in Nodes
    BY <1>1, CreatedType
  <2>2. Created(e).op \in Nat
    BY <2>1 DEF StoredType
  <2>3. GoodEvent(d) /\ d.mode # "wait"
    BY <1>1, <2>2 DEF GoodEvent, WellFormed, EventType, AssignStates, States
  <2>4. ev' = [ev EXCEPT ![i] = d] /\ UNCHANGED reqs
    BY <1>3 DEF AssignInit
  <2>5. MetaTyped'
    BY <1>3, <2>1 DEF AssignInit, Parts, MetaTyped
  <2>6. LeaderTyped'
    BY <1>3 DEF AssignInit, Parts, LeaderTyped, cmVars
  <2> HIDE DEF d
  <2>7. EvTyped' /\ ReqTyped' /\ OneCommand'
    BY <1>1, <2>3, <2>4, HandlerStep DEF Parts
  <2>8. QED
    BY <1>2, <2>5, <2>6, <2>7 DEF Parts
<1>4. CASE ~ok
  <2>1. Fail(i, e) /\ UNCHANGED <<leader, msm, cmVars>> /\ UNCHANGED reqs
    BY <1>4 DEF AssignInit
  <2>2. MetaTyped'
    BY <1>4 DEF AssignInit, Parts, MetaTyped
  <2>3. EvTyped' /\ ReqTyped' /\ OneCommand' /\ LeaderTyped'
    BY <1>1, <2>1, FailStep DEF Parts
  <2>4. QED
    BY <1>2, <2>2, <2>3 DEF Parts
<1>5. QED
  BY <1>3, <1>4

\* moveInitHandler, createMigrateEvent.
LEMMA MoveCreateStep == ASSUME Parts, NEW i \in EvIds, MoveCreate(i) PROVE Parts'
<1> DEFINE e == ev[i]
           ok == leader /\ CanCreate(e)
<1>1. GoodEvent(e) /\ e.mode # "wait"
  BY EvGood DEF MoveCreate, AtHandler, Parts
<1>2. BudgetTyped' /\ StoreTyped'
  BY DEF MoveCreate, Parts, BudgetTyped, StoreTyped, storeVars
<1>3. CASE ok
  <2> DEFINE d == [e EXCEPT !.op = Created(e).op]
  <2>1. /\ Created(e) \in StoredType
        /\ Created(e).type = "Move" => Created(e).src \in Nodes
    BY <1>1, CreatedType
  <2>2. Created(e).op \in Nat
    BY <2>1 DEF StoredType
  <2>3. GoodEvent(d) /\ d.mode # "wait"
    BY <1>1, <2>2 DEF GoodEvent, WellFormed, EventType
  <2>4. ev' = [ev EXCEPT ![i] = d] /\ UNCHANGED reqs
    BY <1>3 DEF MoveCreate
  <2>5. MetaTyped'
    BY <1>3, <2>1 DEF MoveCreate, Parts, MetaTyped
  <2>6. LeaderTyped'
    BY <1>3 DEF MoveCreate, Parts, LeaderTyped, cmVars
  <2> HIDE DEF d
  <2>7. EvTyped' /\ ReqTyped' /\ OneCommand'
    BY <1>1, <2>3, <2>4, HandlerStep DEF Parts
  <2>8. QED
    BY <1>2, <2>5, <2>6, <2>7 DEF Parts
<1>4. CASE ~ok
  <2>1. Fail(i, e) /\ UNCHANGED <<leader, msm, cmVars>> /\ UNCHANGED reqs
    BY <1>4 DEF MoveCreate
  <2>2. MetaTyped'
    BY <1>4 DEF MoveCreate, Parts, MetaTyped
  <2>3. EvTyped' /\ ReqTyped' /\ OneCommand' /\ LeaderTyped'
    BY <1>1, <2>1, FailStep DEF Parts
  <2>4. QED
    BY <1>2, <2>2, <2>3 DEF Parts
<1>5. QED
  BY <1>3, <1>4

\* moveInitHandler, updatePtVersion.
LEMMA MoveInitStep == ASSUME Parts, NEW i \in EvIds, MoveInit(i) PROVE Parts'
<1> DEFINE e == ev[i]
<1>1. GoodEvent(e) /\ e.mode # "wait" /\ e.type # "Assign"
  BY EvGood DEF MoveInit, AtHandler, Parts
<1>2. BudgetTyped' /\ StoreTyped'
  BY DEF MoveInit, Parts, BudgetTyped, StoreTyped, storeVars
<1>3. CASE leader
  <2> DEFINE d == [e EXCEPT !.cur = "PreOffload", !.pt.ver = ptView.ver + 1]
  <2>1. ptView \in PtType /\ ptView.ver + 1 \in Nat
    BY DEF Parts, MetaTyped, PtType
  <2>2. GoodEvent(d) /\ d.mode # "wait"
    <3>1. [e.pt EXCEPT !.ver = ptView.ver + 1] \in PtType
      BY <1>1, <2>1 DEF GoodEvent, EventType, PtType
    <3>2. QED
      BY <1>1, <3>1 DEF GoodEvent, WellFormed, EventType, States
  <2>3. ev' = [ev EXCEPT ![i] = d] /\ UNCHANGED reqs
    BY <1>3 DEF MoveInit
  <2>4. ptView' = [ptView EXCEPT !.ver = ptView.ver + 1]
    BY <1>3 DEF MoveInit
  <2>5. ptView' \in PtType
    BY <2>1, <2>4 DEF PtType
  <2>6. MetaTyped'
    BY <2>5 DEF MoveInit, Parts, MetaTyped
  <2>7. LeaderTyped'
    BY <1>3 DEF MoveInit, Parts, LeaderTyped, cmVars
  <2> HIDE DEF d
  <2>8. EvTyped' /\ ReqTyped' /\ OneCommand'
    BY <1>1, <2>2, <2>3, HandlerStep DEF Parts
  <2>9. QED
    BY <1>2, <2>6, <2>7, <2>8 DEF Parts
<1>4. CASE ~leader
  <2>1. Fail(i, e) /\ UNCHANGED <<leader, msm, cmVars>> /\ UNCHANGED reqs
    BY <1>4 DEF MoveInit
  <2>2. MetaTyped'
    BY <1>4 DEF MoveInit, Parts, MetaTyped
  <2>3. EvTyped' /\ ReqTyped' /\ OneCommand' /\ LeaderTyped'
    BY <1>1, <2>1, FailStep DEF Parts
  <2>4. QED
    BY <1>2, <2>2, <2>3 DEF Parts
<1>5. QED
  BY <1>3, <1>4

\* The move handlers that only send.
LEMMA MoveSendStep == ASSUME Parts, NEW i \in EvIds, MoveSend(i) PROVE Parts'
<1>1. GoodEvent(ev[i]) /\ ev[i].mode # "wait"
  BY EvGood DEF MoveSend, AtHandler, Parts
<1>2. EvTyped' /\ ReqTyped' /\ OneCommand' /\ BudgetTyped'
  BY <1>1, SendStep DEF MoveSend, Parts, StoreTyped
<1>3. MetaTyped' /\ LeaderTyped' /\ StoreTyped'
  BY DEF MoveSend, Parts, MetaTyped, LeaderTyped, StoreTyped, metaVars, cmVars,
         storeVars
<1>4. QED
  BY <1>2, <1>3 DEF Parts

\* updatePtInfo keeps the PT's type.
LEMMA UpdatePtInfoType ==
    ASSUME ptView \in PtType, NEW n \in Nodes, NEW s \in {"Online", "Offline"}
    PROVE  UpdatePtInfo(n, s) \in PtType
BY DEF UpdatePtInfo, PtType

\* updatePtInfo fails.
LEMMA PtInfoFailsStep ==
    ASSUME Parts, NEW i \in EvIds, ev[i].mode # "wait", NEW e, GoodEvent(e),
           PtInfoFails(i, e), UNCHANGED reqs, UNCHANGED <<leader, msm, cmVars>>
    PROVE  EvTyped' /\ ReqTyped' /\ OneCommand' /\ LeaderTyped'
<1> DEFINE d == IF leader THEN [e EXCEPT !.pt = RefreshDbPt(e.pt)] ELSE e
<1>1. RefreshDbPt(e.pt) \in PtType
  BY DEF RefreshDbPt, Parts, MetaTyped, GoodEvent, EventType, PtType
<1>2. GoodEvent(d)
  BY <1>1 DEF GoodEvent, WellFormed, EventType
<1>3. Fail(i, d)
  BY DEF PtInfoFails
<1> HIDE DEF d
<1>4. QED
  BY <1>2, <1>3, FailStep DEF Parts

\* moveOffloadedHandler.
LEMMA MoveOffloadedStep ==
    ASSUME Parts, NEW i \in EvIds, MoveOffloaded(i) PROVE Parts'
<1> DEFINE e == ev[i]
           ok == leader /\ PtUnchanged(e.pt)
<1>1. GoodEvent(e) /\ e.mode # "wait" /\ e.cur = "Offloaded"
  BY EvGood DEF MoveOffloaded, AtHandler, Parts
<1>2. BudgetTyped' /\ StoreTyped'
  BY DEF MoveOffloaded, Parts, BudgetTyped, StoreTyped, storeVars
<1>3. CASE ok
  <2> DEFINE d == [e EXCEPT !.pt.status = "Offline"]
             t == StateTransition(d, TRUE)
  <2>1. GoodEvent(d) /\ d.mode = e.mode
    <3>1. [e.pt EXCEPT !.status = "Offline"] \in PtType
      BY <1>1 DEF GoodEvent, EventType, PtType
    <3>2. QED
      BY <1>1, <3>1 DEF GoodEvent, WellFormed, EventType
  <2>2. ev' = [ev EXCEPT ![i] = t] /\ UNCHANGED reqs
    BY <1>3 DEF MoveOffloaded
  <2>3. GoodEvent(t) /\ t.mode # "wait"
    <3> HIDE DEF d
    <3>1. QED
      BY <1>1, <2>1, TransitionGood
  <2>4. e.src \in Nodes
    BY <1>1 DEF GoodEvent, WellFormed, AssignStates
  <2>5. ptView' = UpdatePtInfo(e.src, "Offline")
    BY <1>3 DEF MoveOffloaded
  <2>6. ptView' \in PtType
    BY <2>4, <2>5, UpdatePtInfoType DEF Parts, MetaTyped
  <2>7. MetaTyped'
    BY <2>6 DEF MoveOffloaded, Parts, MetaTyped
  <2>8. LeaderTyped'
    BY <1>3 DEF MoveOffloaded, Parts, LeaderTyped, cmVars
  <2> HIDE DEF t
  <2>9. EvTyped' /\ ReqTyped' /\ OneCommand'
    BY <1>1, <2>2, <2>3, HandlerStep DEF Parts
  <2>10. QED
    BY <1>2, <2>7, <2>8, <2>9 DEF Parts
<1>4. CASE ~ok
  <2>1. PtInfoFails(i, e) /\ UNCHANGED <<leader, msm, cmVars>> /\ UNCHANGED reqs
    BY <1>4 DEF MoveOffloaded
  <2>2. MetaTyped'
    BY <1>4 DEF MoveOffloaded, Parts, MetaTyped
  <2>3. EvTyped' /\ ReqTyped' /\ OneCommand' /\ LeaderTyped'
    BY <1>1, <2>1, PtInfoFailsStep
  <2>4. QED
    BY <1>2, <2>2, <2>3 DEF Parts
<1>5. QED
  BY <1>3, <1>4

\* startAssignHandler and moveAssignHandler.
LEMMA AssignHandlerStep ==
    ASSUME Parts, NEW i \in EvIds, AssignHandler(i) PROVE Parts'
<1> DEFINE e == ev[i]
           ok == leader /\ PtUnchanged(e.pt)
<1>1. GoodEvent(e) /\ e.mode # "wait"
  BY EvGood DEF AssignHandler, AssignTo, AtHandler, Parts
<1>2. StoreTyped'
  BY DEF AssignHandler, AssignTo, Parts, StoreTyped, storeVars
<1>3. e.dst \in Nodes /\ e.pt \in PtType /\ e.pt.status \in {"Online", "Offline"}
  BY <1>1 DEF GoodEvent, EventType, PtType
<1>4. CASE ok
  <2> DEFINE d == [e EXCEPT !.pt.owner = e.dst]
  <2>1. GoodEvent(d)
    <3>1. [e.pt EXCEPT !.owner = e.dst] \in PtType
      BY <1>3 DEF PtType
    <3>2. QED
      BY <1>1, <3>1 DEF GoodEvent, WellFormed, EventType
  <2>2. /\ ptView' = UpdatePtInfo(e.dst, e.pt.status)
        /\ SendMigrateCommand(i, d)
    BY <1>4 DEF AssignHandler, AssignTo
  <2>3. ptView' \in PtType
    BY <1>3, <2>2, UpdatePtInfoType DEF Parts, MetaTyped
  <2>4. MetaTyped'
    BY <2>3 DEF AssignHandler, AssignTo, Parts, MetaTyped
  <2>5. LeaderTyped'
    BY <1>4 DEF AssignHandler, AssignTo, Parts, LeaderTyped, cmVars
  <2> HIDE DEF d
  <2>6. EvTyped' /\ ReqTyped' /\ OneCommand' /\ BudgetTyped'
    BY <1>1, <2>1, <2>2, SendStep DEF Parts, StoreTyped
  <2>7. QED
    BY <1>2, <2>4, <2>5, <2>6 DEF Parts
<1>5. CASE ~ok
  <2>1. PtInfoFails(i, e) /\ UNCHANGED <<leader, msm, cmVars>> /\ UNCHANGED reqs
    BY <1>5 DEF AssignHandler, AssignTo
  <2>2. MetaTyped' /\ BudgetTyped'
    BY <1>5 DEF AssignHandler, AssignTo, Parts, MetaTyped, BudgetTyped
  <2>3. EvTyped' /\ ReqTyped' /\ OneCommand' /\ LeaderTyped'
    BY <1>1, <2>1, PtInfoFailsStep
  <2>4. QED
    BY <1>2, <2>2, <2>3 DEF Parts
<1>6. QED
  BY <1>4, <1>5

\* assignedHandler and moveAssignedHandler.
LEMMA AssignedHandlerStep ==
    ASSUME Parts, NEW i \in EvIds, AssignedHandler(i) PROVE Parts'
<1> DEFINE e == ev[i]
           ok == leader /\ PtUnchanged(e.pt)
<1>1. GoodEvent(e) /\ e.mode # "wait"
  BY EvGood DEF AssignedHandler, AtHandler, Parts
<1>2. BudgetTyped' /\ StoreTyped'
  BY DEF AssignedHandler, Parts, BudgetTyped, StoreTyped, storeVars
<1>3. UNCHANGED <<leader, msm, cmVars>> /\ UNCHANGED reqs
  BY DEF AssignedHandler
<1>4. CASE ok
  <2>1. ptView' = UpdatePtInfo(e.pt.owner, "Online") /\ Leave(i, e)
    BY <1>4 DEF AssignedHandler
  <2>2. e.pt.owner \in Nodes
    BY <1>1 DEF GoodEvent, EventType, PtType
  <2>3. ptView' \in PtType
    BY <2>1, <2>2, UpdatePtInfoType DEF Parts, MetaTyped
  <2>4. MetaTyped'
    BY <2>3 DEF AssignedHandler, Parts, MetaTyped
  <2>5. EvTyped' /\ ReqTyped' /\ OneCommand' /\ LeaderTyped'
    BY <1>1, <1>3, <2>1, LeaveStep DEF Parts
  <2>6. QED
    BY <1>2, <2>4, <2>5 DEF Parts
<1>5. CASE ~ok
  <2>1. Fail(i, e) /\ UNCHANGED ptView
    BY <1>5 DEF AssignedHandler
  <2>2. MetaTyped'
    BY <2>1 DEF AssignedHandler, Parts, MetaTyped
  <2>3. EvTyped' /\ ReqTyped' /\ OneCommand' /\ LeaderTyped'
    BY <1>1, <1>3, <2>1, FailStep DEF Parts
  <2>4. QED
    BY <1>2, <2>2, <2>3 DEF Parts
<1>6. QED
  BY <1>4, <1>5

\* The handlers that end an event.
LEMMA LastHandlerStep == ASSUME Parts, NEW i \in EvIds, LastHandler(i) PROVE Parts'
<1>1. GoodEvent(ev[i]) /\ ev[i].mode # "wait"
  BY EvGood DEF LastHandler, AtHandler, Parts
<1>2. EvTyped' /\ ReqTyped' /\ OneCommand' /\ LeaderTyped'
  BY <1>1, LeaveStep DEF LastHandler, Parts
<1>3. MetaTyped' /\ BudgetTyped' /\ StoreTyped'
  BY DEF LastHandler, Parts, MetaTyped, BudgetTyped, StoreTyped, metaVars, storeVars
<1>4. QED
  BY <1>2, <1>3 DEF Parts

\* One more call of processFailedDbPt.
LEMMA FailedAdd ==
    ASSUME LeaderTyped, NEW pt \in PtType, NEW b \in BOOLEAN
    PROVE  failed \cup {[pt |-> pt, retry |-> b]} \subseteq [pt : PtType, retry : BOOLEAN]
BY DEF LeaderTyped

\* deleteEvent.
LEMMA DeleteEventStep == ASSUME Parts, NEW i \in EvIds, DeleteEvent(i) PROVE Parts'
<1>1. GoodEvent(ev[i]) /\ ev[i].mode # "wait"
  BY EvGood DEF DeleteEvent, Parts
<1>2. ev' = [ev EXCEPT ![i] = NoEvent] /\ UNCHANGED reqs
  BY DEF DeleteEvent
<1>3. EvTyped' /\ ReqTyped' /\ OneCommand'
  <2>1. NotWaiting(NoEvent)
    BY DEF NotWaiting
  <2>2. QED
    BY <1>1, <1>2, <2>1, QuietEvent DEF Parts
<1>4. MetaTyped'
  <2>1. UNCHANGED <<ptView, dn>> /\ stored' \in {stored, NoEvent}
    BY DEF DeleteEvent
  <2>2. QED
    BY <2>1 DEF Parts, MetaTyped
<1>5. ev[i].pt \in PtType
  BY <1>1 DEF GoodEvent, EventType
<1>6. failed' \subseteq [pt : PtType, retry : BOOLEAN]
  <2>1. failed' \in {failed, failed \cup {[pt |-> ev[i].pt, retry |-> TRUE]}}
    BY DEF DeleteEvent
  <2>2. failed \cup {[pt |-> ev[i].pt, retry |-> TRUE]}
            \subseteq [pt : PtType, retry : BOOLEAN]
    BY <1>5, FailedAdd DEF Parts
  <2>3. QED
    BY <2>1, <2>2 DEF Parts, LeaderTyped
<1>7. LeaderTyped'
  BY <1>6 DEF DeleteEvent, Parts, LeaderTyped
<1>8. StoreTyped' /\ BudgetTyped'
  BY DEF DeleteEvent, Parts, StoreTyped, BudgetTyped, storeVars
<1>9. QED
  BY <1>3, <1>4, <1>7, <1>8 DEF Parts

-----------------------------------------------------------------------------
(* The steps of a request.                                                 *)

\* A request nobody waits for has a tag of its own.
LEMMA OrphanTagType == ASSUME BudgetTyped PROVE OrphanTag \in Nat \ {0}
<1>1. budget["timeout"] \in Nat /\ budget["late"] \in Nat /\ budget["leader"] \in Nat
  BY DEF BudgetTyped, Kinds
<1>2. QED
  BY <1>1 DEF OrphanTag

\* The connection broke with the store.
LEMMA ConnectionLostStep ==
    ASSUME Parts, NEW r \in reqs, ConnectionLost(r) PROVE Parts'
<1>1. EvTyped' /\ ReqTyped' /\ OneCommand'
  BY ReplyStep DEF ConnectionLost, Parts
<1>2. MetaTyped' /\ LeaderTyped' /\ StoreTyped' /\ BudgetTyped'
  BY DEF ConnectionLost, Parts, MetaTyped, LeaderTyped, StoreTyped, BudgetTyped,
         metaVars, cmVars, storeVars
<1>3. QED
  BY <1>1, <1>2 DEF Parts

\* MigrationProcessor.Handle.
LEMMA DeliverStep == ASSUME Parts, NEW r \in reqs, Deliver(r) PROVE Parts'
<1>1. MetaTyped' /\ LeaderTyped' /\ StoreTyped' /\ BudgetTyped'
  BY DEF Deliver, Parts, MetaTyped, LeaderTyped, StoreTyped, BudgetTyped,
         metaVars, cmVars, storeVars
<1>2. ASSUME NEW res, Reply(r, res) PROVE EvTyped' /\ ReqTyped' /\ OneCommand'
  BY <1>2, ReplyStep DEF Parts
<1>3. ASSUME reqs' = (reqs \ {r}) \cup {[r EXCEPT !.exec = TRUE]}, UNCHANGED ev
      PROVE  EvTyped' /\ ReqTyped' /\ OneCommand'
  <2> DEFINE q == [r EXCEPT !.exec = TRUE]
  <2>1. q \in RequestType /\ q.id = r.id /\ q.tag = r.tag
    BY DEF Parts, ReqTyped, RequestType
  <2> HIDE DEF q
  <2>2. reqs' = (reqs \ {r}) \cup {q}
    BY <1>3 DEF q
  <2>3. EvTyped' /\ ReqTyped'
    BY <1>3, <2>1, <2>2 DEF Parts, EvTyped, ReqTyped
  <2>4. OneCommand'
    BY <1>3, <2>1, <2>2 DEF Parts, OneCommand
  <2>5. QED
    BY <2>3, <2>4
<1>4. EvTyped' /\ ReqTyped' /\ OneCommand'
  BY <1>2, <1>3 DEF Deliver
<1>5. QED
  BY <1>1, <1>4 DEF Parts

\* The store carries the command out.
LEMMA ExecuteStep == ASSUME Parts, NEW r \in reqs, Execute(r) PROVE Parts'
<1>1. MetaTyped' /\ LeaderTyped' /\ BudgetTyped'
  BY DEF Execute, Parts, MetaTyped, LeaderTyped, BudgetTyped, metaVars, cmVars
<1>2. EvTyped' /\ ReqTyped' /\ OneCommand'
  BY ReplyStep DEF Execute, Parts
<1>3. r.node \in Nodes /\ r.ver \in Nat
  BY DEF Parts, ReqTyped, RequestType
<1>4. eng[r.node] \in [st : {"none", "preload", "loaded"}, bgr : BOOLEAN]
  BY <1>3 DEF Parts, StoreTyped
<1>5. Executed(r, eng[r.node]) \in [st : {"none", "preload", "loaded"}, bgr : BOOLEAN]
  BY <1>4 DEF Executed, NoPt
<1>6. eng' = [eng EXCEPT ![r.node] = Executed(r, eng[r.node])]
  BY DEF Execute
<1>7. clock' \in Nat
  BY <1>3 DEF Execute, Parts, StoreTyped
<1>8. StoreTyped'
  BY <1>5, <1>6, <1>7, ZenonT(40) DEF Execute, Parts, StoreTyped
<1>9. QED
  BY <1>1, <1>2, <1>8 DEF Parts

\* IsMemUsageExceeded.
LEMMA MemUsageStep == ASSUME Parts, NEW r \in reqs, MemUsageExceeded(r) PROVE Parts'
<1>1. MetaTyped' /\ LeaderTyped' /\ StoreTyped'
  BY DEF MemUsageExceeded, Parts, MetaTyped, LeaderTyped, StoreTyped, metaVars,
         cmVars, storeVars
<1>2. EvTyped' /\ ReqTyped' /\ OneCommand'
  BY ReplyStep DEF MemUsageExceeded, Parts
<1>3. BudgetTyped'
  BY SpendType DEF MemUsageExceeded, Parts, Kinds
<1>4. QED
  BY <1>1, <1>2, <1>3 DEF Parts

\* The engine fails.
LEMMA RefuseStep == ASSUME Parts, NEW r \in reqs, Refuse(r) PROVE Parts'
<1>1. MetaTyped' /\ LeaderTyped'
  BY DEF Refuse, Parts, MetaTyped, LeaderTyped, metaVars, cmVars
<1>2. EvTyped' /\ ReqTyped' /\ OneCommand'
  BY ReplyStep DEF Refuse, Parts
<1>3. BudgetTyped'
  BY SpendType DEF Refuse, Parts, Kinds
<1>4. StoreTyped'
  BY DEF Refuse, Parts, StoreTyped, NoPt
<1>5. QED
  BY <1>1, <1>2, <1>3, <1>4 DEF Parts

\* The session times out.
LEMMA TimeoutStep == ASSUME Parts, NEW r \in reqs, Timeout(r) PROVE Parts'
<1> DEFINE o == [r EXCEPT !.tag = OrphanTag]
           S == IF r.exec THEN {o} ELSE {}
<1>1. MetaTyped' /\ LeaderTyped' /\ StoreTyped'
  BY DEF Timeout, Parts, MetaTyped, LeaderTyped, StoreTyped, metaVars, cmVars,
         storeVars
<1>2. BudgetTyped'
  BY SpendType DEF Timeout, Parts, Kinds
<1>3. OrphanTag \in Nat \ {0}
  BY OrphanTagType DEF Parts
<1>4. o \in RequestType /\ o.tag # 0
  BY <1>3 DEF Parts, ReqTyped, RequestType
<1> HIDE DEF o
<1>5. S \subseteq RequestType /\ \A q \in S : q.tag # 0
  BY <1>4
<1>6. /\ r.tag = 0
      /\ reqs' = (reqs \ {r}) \cup S
      /\ ev' = [ev EXCEPT ![r.id] = Answered(@, "timeout")]
  BY DEF Timeout, o
<1> HIDE DEF S
<1>7. EvTyped' /\ ReqTyped' /\ OneCommand'
  BY <1>5, <1>6, AnswerStep DEF Parts
<1>8. QED
  BY <1>1, <1>2, <1>7 DEF Parts

\* The session times out while the request is on its way.
LEMMA TimeoutLateStep == ASSUME Parts, NEW r \in reqs, TimeoutLate(r) PROVE Parts'
<1> DEFINE o == [r EXCEPT !.tag = OrphanTag]
           S == {o}
<1>1. MetaTyped' /\ LeaderTyped' /\ StoreTyped'
  BY DEF TimeoutLate, Parts, MetaTyped, LeaderTyped, StoreTyped, metaVars, cmVars,
         storeVars
<1>2. BudgetTyped'
  BY SpendType DEF TimeoutLate, Parts, Kinds
<1>3. OrphanTag \in Nat \ {0}
  BY OrphanTagType DEF Parts
<1>4. o \in RequestType /\ o.tag # 0
  BY <1>3 DEF Parts, ReqTyped, RequestType
<1> HIDE DEF o
<1>5. S \subseteq RequestType /\ \A q \in S : q.tag # 0
  BY <1>4
<1>6. /\ r.tag = 0
      /\ reqs' = (reqs \ {r}) \cup S
      /\ ev' = [ev EXCEPT ![r.id] = Answered(@, "timeout")]
  BY DEF TimeoutLate, o
<1> HIDE DEF S
<1>7. EvTyped' /\ ReqTyped' /\ OneCommand'
  BY <1>5, <1>6, AnswerStep DEF Parts
<1>8. QED
  BY <1>1, <1>2, <1>7 DEF Parts

-----------------------------------------------------------------------------
(* Where events come from, and the cluster manager.                        *)

\* executeEvent fills a free slot.
LEMMA AddEventStep ==
    ASSUME Parts, NEW e, GoodEvent(e), e.mode # "wait", AddEvent(e), UNCHANGED reqs
    PROVE  EvTyped' /\ ReqTyped' /\ OneCommand' /\ inMap' \in EvIds
<1>1. PICK i \in EvIds : ev[i] = NoEvent /\ ev' = [ev EXCEPT ![i] = e] /\ inMap' = i
  BY DEF AddEvent
<1>2. NotWaiting(e)
  BY DEF NotWaiting
<1>3. QED
  BY <1>1, <1>2, QuietEvent DEF Parts

\* A new event is well formed.
LEMMA NewEventGood ==
    ASSUME NEW type \in {"Assign", "Move"}, NEW src \in Nodes \cup {NoNode},
           type = "Move" => src \in Nodes, NEW dst \in Nodes, NEW c \in Nat,
           NEW pt \in PtType, NEW op \in Nat
    PROVE  /\ GoodEvent(NewEvent(type, src, dst, c, pt, op))
           /\ NewEvent(type, src, dst, c, pt, op).mode # "wait"
BY DEF NewEvent, GoodEvent, WellFormed, EventType, States, AssignStates

\* processFailedDbPt.
LEMMA ProcessFailedStep ==
    ASSUME Parts, NEW t \in failed, ProcessFailedDbPt(t) PROVE Parts'
<1>1. MetaTyped' /\ StoreTyped' /\ BudgetTyped'
  BY DEF ProcessFailedDbPt, Parts, MetaTyped, StoreTyped, BudgetTyped, metaVars,
         storeVars
<1>2. t \in [pt : PtType, retry : BOOLEAN]
  BY DEF Parts, LeaderTyped
<1>3. [t EXCEPT !.retry = TRUE] \in [pt : PtType, retry : BOOLEAN]
  BY <1>2
<1>4. UNCHANGED <<leader, msm, cm, members, handler, reqs>>
  BY DEF ProcessFailedDbPt
<1>5. ASSUME failed' \subseteq failed \cup {[t EXCEPT !.retry = TRUE]},
             UNCHANGED <<ev, inMap>>
      PROVE  EvTyped' /\ ReqTyped' /\ OneCommand' /\ LeaderTyped'
  <2>1. EvTyped' /\ ReqTyped' /\ OneCommand'
    BY <1>4, <1>5 DEF Parts, EvTyped, ReqTyped, OneCommand
  <2>2. LeaderTyped'
    BY <1>3, <1>4, <1>5 DEF Parts, LeaderTyped
  <2>3. QED
    BY <2>1, <2>2
<1>6. ASSUME NEW n \in TakeOverNodes(t), failed' = failed \ {t},
             AddEvent(NewEvent("Assign", NoNode, n, dn[n].alive, t.pt, 0))
      PROVE  EvTyped' /\ ReqTyped' /\ OneCommand' /\ LeaderTyped'
  <2> DEFINE e == NewEvent("Assign", NoNode, n, dn[n].alive, t.pt, 0)
  <2>1. n \in Nodes
    BY <1>2 DEF TakeOverNodes, Parts, LeaderTyped, PtType
  <2>2. dn[n].alive \in Nat /\ t.pt \in PtType
    BY <1>2, <2>1 DEF Parts, MetaTyped
  <2>3. GoodEvent(e) /\ e.mode # "wait"
    BY <2>1, <2>2, NewEventGood
  <2> HIDE DEF e
  <2>4. AddEvent(e)
    BY <1>6 DEF e
  <2>5. EvTyped' /\ ReqTyped' /\ OneCommand' /\ inMap' \in EvIds
    BY <1>4, <2>3, <2>4, AddEventStep
  <2>6. LeaderTyped'
    BY <1>4, <1>6, <2>5 DEF Parts, LeaderTyped
  <2>7. QED
    BY <2>5, <2>6
<1>7. EvTyped' /\ ReqTyped' /\ OneCommand' /\ LeaderTyped'
  BY <1>5, <1>6 DEF ProcessFailedDbPt
<1>8. QED
  BY <1>1, <1>7 DEF Parts

\* The balancer or the user moves the PT.
LEMMA StartMoveStep == ASSUME Parts, NEW dst \in Nodes, StartMove(dst) PROVE Parts'
<1> DEFINE e == NewEvent("Move", ptView.owner, dst, dn[dst].alive, ptView, 0)
<1>1. MetaTyped' /\ StoreTyped'
  BY DEF StartMove, Parts, MetaTyped, StoreTyped, metaVars, storeVars
<1>2. BudgetTyped'
  BY SpendType DEF StartMove, Parts, Kinds
<1>3. ptView \in PtType /\ ptView.owner \in Nodes /\ dn[dst].alive \in Nat
  BY DEF Parts, MetaTyped, PtType
<1>4. GoodEvent(e) /\ e.mode # "wait"
  BY <1>3, NewEventGood
<1> HIDE DEF e
<1>5. AddEvent(e) /\ UNCHANGED reqs
  BY DEF StartMove, e
<1>6. EvTyped' /\ ReqTyped' /\ OneCommand' /\ inMap' \in EvIds
  BY <1>4, <1>5, AddEventStep
<1>7. LeaderTyped'
  BY <1>6 DEF StartMove, Parts, LeaderTyped, cmVars
<1>8. QED
  BY <1>1, <1>2, <1>6, <1>7 DEF Parts

\* The events and their commands are left alone.
LEMMA EventsUnchanged ==
    ASSUME Parts, UNCHANGED <<ev, reqs>> PROVE EvTyped' /\ ReqTyped' /\ OneCommand'
BY DEF Parts, EvTyped, ReqTyped, OneCommand

\* updatePtViewStatus keeps the PT's type.
LEMMA PtViewStatusType ==
    ASSUME ptView \in PtType, NEW n PROVE UpdatePtViewStatus(n) \in PtType
<1>1. ptView.ver + 1 \in Nat
  BY DEF PtType
<1>2. QED
  BY <1>1 DEF UpdatePtViewStatus, PtType

\* handleClusterMember and getFailedDbPts.
LEMMA HandleMemberType ==
    ASSUME Parts, NEW n \in Nodes, NEW joins \in BOOLEAN,
           HandleClusterMember(n, joins)
    PROVE  /\ members' \subseteq Nodes
           /\ failed' \subseteq [pt : PtType, retry : BOOLEAN]
<1>1. members' \subseteq Nodes
  BY DEF HandleClusterMember, Parts, LeaderTyped
<1>2. failed' \in {failed, failed \cup {[pt |-> ptView, retry |-> FALSE]}}
  BY DEF HandleClusterMember
<1>3. failed \cup {[pt |-> ptView, retry |-> FALSE]}
          \subseteq [pt : PtType, retry : BOOLEAN]
  BY FailedAdd DEF Parts, MetaTyped
<1>4. QED
  BY <1>1, <1>2, <1>3 DEF Parts, LeaderTyped

\* The handlers of member events.
LEMMA MemberSteps == ASSUME Parts, NEW n \in Nodes, MemberStep(n) PROVE Parts'
<1>1. CASE MemberFailed(n) \/ MemberJoin(n)
  <2>1. UpdatePtViewStatus(n) \in PtType
    BY PtViewStatusType DEF Parts, MetaTyped
  <2>2. ptView' \in PtType
    BY <1>1, <2>1 DEF MemberFailed, MemberJoin
  <2>3. MetaTyped'
    BY <1>1, <2>2 DEF MemberFailed, MemberJoin, Parts, MetaTyped, StoreTyped
  <2>4. LeaderTyped'
    BY <1>1 DEF MemberFailed, MemberJoin, Parts, LeaderTyped, msmVars
  <2>5. EvTyped' /\ ReqTyped' /\ OneCommand'
    BY <1>1, EventsUnchanged DEF MemberFailed, MemberJoin, msmVars
  <2>6. StoreTyped' /\ BudgetTyped'
    BY <1>1 DEF MemberFailed, MemberJoin, Parts, StoreTyped, BudgetTyped, storeVars
  <2>7. QED
    BY <2>3, <2>4, <2>5, <2>6 DEF Parts
<1>2. CASE TakeoverDbPts(n)
  <2>1. LeaderTyped'
    <3>1. /\ members' \subseteq Nodes
          /\ failed' \subseteq [pt : PtType, retry : BOOLEAN]
      BY <1>2, HandleMemberType DEF TakeoverDbPts
    <3>2. QED
      BY <1>2, <3>1 DEF TakeoverDbPts, Parts, LeaderTyped, msmVars
  <2>2. MetaTyped' /\ StoreTyped' /\ BudgetTyped'
    BY <1>2 DEF TakeoverDbPts, Parts, MetaTyped, StoreTyped, BudgetTyped, metaVars,
                storeVars
  <2>3. EvTyped' /\ ReqTyped' /\ OneCommand'
    BY <1>2, EventsUnchanged DEF TakeoverDbPts, msmVars
  <2>4. QED
    BY <2>1, <2>2, <2>3 DEF Parts
<1>3. QED
  BY <1>1, <1>2 DEF MemberStep

\* ... while the cluster manager is stopped.
LEMMA GossipStep == ASSUME Parts, NEW n \in Nodes, GossipWhileStopped(n) PROVE Parts'
<1>1. LeaderTyped'
  <2>1. /\ members' \subseteq Nodes
        /\ failed' \subseteq [pt : PtType, retry : BOOLEAN]
    BY HandleMemberType DEF GossipWhileStopped, Parts, StoreTyped
  <2>2. QED
    BY <2>1 DEF GossipWhileStopped, Parts, LeaderTyped, msmVars
<1>2. MetaTyped' /\ StoreTyped' /\ BudgetTyped'
  BY DEF GossipWhileStopped, Parts, MetaTyped, StoreTyped, BudgetTyped, metaVars,
         storeVars
<1>3. EvTyped' /\ ReqTyped' /\ OneCommand'
  BY EventsUnchanged DEF GossipWhileStopped, msmVars
<1>4. QED
  BY <1>1, <1>2, <1>3 DEF Parts

-----------------------------------------------------------------------------
(* Meta leadership, and crashes of stores.                                 *)

\* raft takes the leadership away.
LEMMA LoseLeadershipStep == ASSUME Parts, LoseLeadership PROVE Parts'
<1>1. EvTyped' /\ ReqTyped' /\ OneCommand'
  BY EventsUnchanged DEF LoseLeadership
<1>2. MetaTyped' /\ LeaderTyped' /\ StoreTyped'
  BY DEF LoseLeadership, Parts, MetaTyped, LeaderTyped, StoreTyped, metaVars, cmVars,
         storeVars
<1>3. BudgetTyped'
  BY SpendType DEF LoseLeadership, Parts, Kinds
<1>4. QED
  BY <1>1, <1>2, <1>3 DEF Parts

\* checkLeaderChanged: the queued commands are sent one last time.
LEMMA StepDownStep == ASSUME Parts, StepDown PROVE Parts'
<1> DEFINE queued == {i \in EvIds : ev[i] # NoEvent /\ ev[i].mode = "retry"}
           R == {Request(i, ev[i]) : i \in queued}
           w(i) == [ev[i] EXCEPT !.mode = "wait"]
<1>1. MetaTyped' /\ LeaderTyped' /\ StoreTyped' /\ BudgetTyped'
  BY DEF StepDown, Parts, MetaTyped, LeaderTyped, StoreTyped, BudgetTyped, metaVars,
         cmVars, storeVars
<1>2. \A i \in queued : GoodEvent(ev[i])
  BY EvGood DEF Parts
<1>3. \A i \in queued : /\ Request(i, ev[i]) \in RequestType
                        /\ Request(i, ev[i]).id = i /\ Request(i, ev[i]).tag = 0
  BY <1>2, RequestGood DEF Parts, StoreTyped
<1>4. \A i \in queued : GoodEvent(w(i)) /\ w(i).mode = "wait" /\ w(i) # NoEvent
  <2>1. SUFFICES ASSUME NEW i \in queued
                 PROVE  GoodEvent(w(i)) /\ w(i).mode = "wait" /\ w(i) # NoEvent
    OBVIOUS
  <2>2. GoodEvent(w(i)) /\ w(i).mode = "wait"
    BY <1>2 DEF GoodEvent, WellFormed, EventType
  <2>3. QED
    BY <2>2, GoodIsEvent
<1>5. /\ reqs' = reqs \cup R
      /\ ev' = [i \in EvIds |-> IF i \in queued THEN w(i) ELSE ev[i]]
  BY DEF StepDown
<1>6. \A r \in R : r \in RequestType /\ r.id \in queued /\ r.tag = 0
                   /\ r = Request(r.id, ev[r.id])
  BY <1>3
<1>7. \A i \in queued : \E r \in R : r.tag = 0 /\ r.id = i
  BY <1>3
<1>8. queued \subseteq EvIds /\ \A i \in queued : ev[i].mode # "wait"
  OBVIOUS
<1>9. \A r \in reqs : r.tag = 0 => r.id \in EvIds /\ r.id \notin queued
  BY <1>8 DEF Parts, ReqTyped, RequestType, OneCommand
<1> HIDE DEF queued, R, w
<1>10. EvTyped' /\ ReqTyped'
  BY <1>4, <1>5, <1>6 DEF Parts, EvTyped, ReqTyped, GoodEvent
<1>11. \A r \in reqs' : r.tag = 0 => ev'[r.id] # NoEvent /\ ev'[r.id].mode = "wait"
  BY <1>4, <1>5, <1>6, <1>8, <1>9 DEF Parts, OneCommand
<1>12. \A r, q \in reqs' : r.tag = 0 /\ q.tag = 0 /\ r.id = q.id => r = q
  BY <1>5, <1>6, <1>9 DEF Parts, OneCommand
<1>13. \A j \in EvIds : ev'[j] # NoEvent /\ ev'[j].mode = "wait" =>
            \E r \in reqs' : r.tag = 0 /\ r.id = j
  BY <1>5, <1>7 DEF Parts, OneCommand
<1>14. OneCommand'
  BY <1>11, <1>12, <1>13 DEF OneCommand
<1>15. QED
  BY <1>1, <1>10, <1>14 DEF Parts

\* The same meta node leads again: only events that wait are left.
LEMMA LeadAgainStep == ASSUME Parts, LeadAgain PROVE Parts'
<1>1. MetaTyped' /\ LeaderTyped' /\ StoreTyped' /\ BudgetTyped'
  BY DEF LeadAgain, Parts, MetaTyped, LeaderTyped, StoreTyped, BudgetTyped, metaVars,
         cmVars, storeVars
<1>2. /\ ev' = [i \in EvIds |-> IF ev[i] # NoEvent /\ ev[i].mode = "wait"
                                THEN ev[i] ELSE NoEvent]
      /\ reqs' = reqs
  BY DEF LeadAgain
<1>3. EvTyped' /\ ReqTyped'
  BY <1>2 DEF Parts, EvTyped, ReqTyped
<1>4. \A r \in reqs : r.id \in EvIds
  BY DEF Parts, ReqTyped, RequestType
<1>5. OneCommand'
  BY <1>2, <1>4 DEF Parts, OneCommand
<1>6. QED
  BY <1>1, <1>3, <1>5 DEF Parts

\* Another meta node leads: no event is left, and nobody waits.
LEMMA OtherLeadsStep == ASSUME Parts, OtherLeads PROVE Parts'
<1> DEFINE o(r) == [r EXCEPT !.tag = IF r.tag = 0 THEN OrphanTag ELSE r.tag]
<1>1. MetaTyped' /\ LeaderTyped' /\ StoreTyped' /\ BudgetTyped'
  BY DEF OtherLeads, Parts, MetaTyped, LeaderTyped, StoreTyped, BudgetTyped, metaVars,
         storeVars
<1>2. OrphanTag \in Nat \ {0}
  BY OrphanTagType DEF Parts
<1>3. \A r \in reqs : o(r) \in RequestType /\ o(r).tag # 0
  BY <1>2 DEF Parts, ReqTyped, RequestType
<1>4. ev' = [i \in EvIds |-> NoEvent] /\ reqs' = {o(r) : r \in reqs}
  BY DEF OtherLeads
<1> HIDE DEF o
<1>5. EvTyped' /\ ReqTyped' /\ OneCommand'
  BY <1>3, <1>4 DEF EvTyped, ReqTyped, OneCommand
<1>6. QED
  BY <1>1, <1>5 DEF Parts

\* ClusterManager.Start and recoverStateMachine.
LEMMA RecoverStep == ASSUME Parts, Recover PROVE Parts'
<1>1. StoreTyped' /\ BudgetTyped'
  BY DEF Recover, Parts, StoreTyped, BudgetTyped, storeVars
<1>2. /\ UNCHANGED <<ptView, dn, leader, msm, handler, reqs>> /\ cm' = TRUE
      /\ members' \subseteq Nodes
  BY DEF Recover, Parts, LeaderTyped
<1>3. CASE stored = NoEvent
  <2>1. UNCHANGED <<ev, inMap, failed, stored>>
    BY <1>3 DEF Recover, RecoverStateMachine
  <2>2. EvTyped' /\ ReqTyped' /\ OneCommand'
    BY <1>2, <2>1, EventsUnchanged
  <2>3. MetaTyped' /\ LeaderTyped'
    BY <1>2, <2>1 DEF Parts, MetaTyped, LeaderTyped
  <2>4. QED
    BY <1>1, <2>2, <2>3 DEF Parts
<1>4. CASE stored # NoEvent /\ inMap = 0
  <2> DEFINE e == NewEvent(stored.type, stored.src, stored.dst, stored.conn,
                           stored.pt, stored.op)
  <2>1. AddEvent(e) /\ UNCHANGED <<failed, stored>>
    BY <1>4 DEF Recover, RecoverStateMachine
  <2>2. GoodEvent(e) /\ e.mode # "wait"
    <3>1. stored \in StoredType /\ (stored.type = "Move" => stored.src \in Nodes)
      BY <1>4 DEF Parts, MetaTyped
    <3>2. /\ stored.type \in {"Assign", "Move"} /\ stored.src \in Nodes \cup {NoNode}
          /\ stored.dst \in Nodes /\ stored.conn \in Nat /\ stored.pt \in PtType
          /\ stored.op \in Nat
      BY <3>1 DEF StoredType
    <3>3. QED
      BY <3>1, <3>2, NewEventGood
  <2> HIDE DEF e
  <2>3. EvTyped' /\ ReqTyped' /\ OneCommand' /\ inMap' \in EvIds
    BY <1>2, <2>1, <2>2, AddEventStep
  <2>4. MetaTyped' /\ LeaderTyped'
    BY <1>2, <2>1, <2>3 DEF Parts, MetaTyped, LeaderTyped
  <2>5. QED
    BY <1>1, <2>3, <2>4 DEF Parts
<1>5. CASE stored # NoEvent /\ inMap # 0
  <2>1. /\ stored' = NoEvent /\ UNCHANGED <<ev, inMap>>
        /\ failed' \in {failed, failed \cup {[pt |-> stored.pt, retry |-> TRUE]}}
    BY <1>5 DEF Recover, RecoverStateMachine
  <2>2. stored.pt \in PtType
    BY <1>5 DEF Parts, MetaTyped, StoredType
  <2>3. failed \cup {[pt |-> stored.pt, retry |-> TRUE]}
            \subseteq [pt : PtType, retry : BOOLEAN]
    BY <2>2, FailedAdd DEF Parts
  <2>4. failed' \subseteq [pt : PtType, retry : BOOLEAN]
    BY <2>1, <2>3 DEF Parts, LeaderTyped
  <2>5. MetaTyped' /\ LeaderTyped'
    BY <1>2, <2>1, <2>4 DEF Parts, MetaTyped, LeaderTyped
  <2>6. EvTyped' /\ ReqTyped' /\ OneCommand'
    BY <1>2, <2>1, EventsUnchanged
  <2>7. QED
    BY <1>1, <2>5, <2>6 DEF Parts
<1>6. QED
  BY <1>3, <1>4, <1>5

\* A store dies: the commands somebody waits for are lost, the others end.
LEMMA CrashStep == ASSUME Parts, NEW n \in Nodes, Crash(n) PROVE Parts'
<1> DEFINE l(r) == [r EXCEPT !.kind = "lost", !.exec = FALSE]
           W == {q \in reqs : q.node = n /\ q.tag = 0}
<1>1. MetaTyped' /\ LeaderTyped'
  BY DEF Crash, Parts, MetaTyped, LeaderTyped, metaVars, msmVars, cmVars
<1>2. BudgetTyped'
  BY SpendType DEF Crash, Parts, Kinds
<1>3. StoreTyped'
  BY DEF Crash, Parts, StoreTyped, NoPt
<1>4. \A r \in W : l(r) \in RequestType /\ l(r).id = r.id /\ l(r).tag = r.tag
  BY DEF Parts, ReqTyped, RequestType
<1>5. ev' = ev /\ reqs' = {r \in reqs : r.node # n} \cup {l(r) : r \in W}
  BY DEF Crash, msmVars
<1>6. EvTyped'
  BY <1>5 DEF Parts, EvTyped
<1> HIDE DEF l
<1>7. ReqTyped'
  BY <1>4, <1>5 DEF Parts, ReqTyped
<1>8. \A r \in reqs' : r.tag = 0 =>
          \E q \in reqs : /\ q.tag = 0 /\ q.id = r.id
                          /\ r = IF q.node = n THEN l(q) ELSE q
  BY <1>4, <1>5
<1>9. \A q \in reqs : q.tag = 0 => \E r \in reqs' : r.tag = 0 /\ r.id = q.id
  BY <1>4, <1>5
<1>10. OneCommand'
  <2>1. \A r \in reqs' : r.tag = 0 => ev'[r.id] # NoEvent /\ ev'[r.id].mode = "wait"
    BY <1>5, <1>8 DEF Parts, OneCommand
  <2>2. \A r, q \in reqs' : r.tag = 0 /\ q.tag = 0 /\ r.id = q.id => r = q
    BY <1>8 DEF Parts, OneCommand
  <2>3. \A j \in EvIds : ev'[j] # NoEvent /\ ev'[j].mode = "wait" =>
            \E r \in reqs' : r.tag = 0 /\ r.id = j
    <3>1. \A j \in EvIds : ev[j] # NoEvent /\ ev[j].mode = "wait" =>
              \E q \in reqs : q.tag = 0 /\ q.id = j
      BY DEF Parts, OneCommand
    <3>2. QED
      BY <1>5, <1>9, <3>1
  <2>4. QED
    BY <2>1, <2>2, <2>3 DEF OneCommand
<1>11. QED
  BY <1>1, <1>2, <1>3, <1>6, <1>7, <1>10 DEF Parts

\* A store comes back.
LEMMA RestartStep == ASSUME Parts, NEW n \in Nodes, Restart(n) PROVE Parts'
<1>1. MetaTyped' /\ LeaderTyped'
  BY DEF Restart, Parts, MetaTyped, LeaderTyped, metaVars, msmVars, cmVars
<1>2. BudgetTyped'
  BY SpendType DEF Restart, Parts, Kinds
<1>3. conn[n] + 1 \in Nat
  BY DEF Parts, StoreTyped
<1>4. StoreTyped'
  BY <1>3 DEF Restart, Parts, StoreTyped
<1>5. EvTyped' /\ ReqTyped' /\ OneCommand'
  BY EventsUnchanged DEF Restart, msmVars
<1>6. QED
  BY <1>1, <1>2, <1>4, <1>5 DEF Parts

-----------------------------------------------------------------------------
(* The theorems.                                                           *)

\* The invariant holds when the PT is Online and nothing is under way.
LEMMA InitIInv == Init => Parts
<1>1. SUFFICES ASSUME Init PROVE Parts
  OBVIOUS
<1>2. PICK o \in Nodes :
          /\ ptView = [owner |-> o, status |-> "Online", ver |-> 1]
          /\ eng = [n \in Nodes |->
                      IF n = o THEN [st |-> "loaded", bgr |-> TRUE] ELSE NoPt]
  BY <1>1 DEF Init
<1>3. /\ stored = NoEvent /\ failed = {} /\ reqs = {} /\ inMap = 0
      /\ dn = [n \in Nodes |-> [status |-> "Alive", alive |-> 1]]
      /\ leader = TRUE /\ msm = "Running" /\ cm = TRUE /\ members = Nodes
      /\ handler = [n \in Nodes |-> "none"]
      /\ ev = [i \in EvIds |-> NoEvent]
      /\ up = [n \in Nodes |-> TRUE] /\ conn = [n \in Nodes |-> 1] /\ clock = 1
      /\ budget = Budget
  BY <1>1 DEF Init
<1>4. MetaTyped /\ LeaderTyped
  BY <1>2, <1>3 DEF MetaTyped, LeaderTyped, PtType
<1>5. StoreTyped
  BY <1>2, <1>3 DEF StoreTyped, NoPt
<1>6. EvTyped /\ ReqTyped /\ OneCommand /\ BudgetTyped
  BY <1>3, BudgetAssumption DEF EvTyped, ReqTyped, OneCommand, BudgetTyped
<1>7. QED
  BY <1>4, <1>5, <1>6 DEF Parts

\* Every step keeps it.
LEMMA StepIInv == Parts /\ [Next]_vars => Parts'
<1> SUFFICES ASSUME Parts, [Next]_vars PROVE Parts'
  OBVIOUS
<1>1. ASSUME NEW i \in EvIds, EventStep(i) PROVE Parts'
  BY <1>1, RetryStep, NotRunningStep, StoreTransitionStep, AssignInitStep,
     MoveCreateStep, MoveInitStep, MoveSendStep, MoveOffloadedStep,
     AssignHandlerStep, AssignedHandlerStep, LastHandlerStep, DeleteEventStep
     DEF EventStep
<1>2. ASSUME NEW r \in reqs, RequestStep(r) PROVE Parts'
  BY <1>2, ConnectionLostStep, DeliverStep, ExecuteStep DEF RequestStep
<1>3. ASSUME NEW n \in Nodes, MemberStep(n) PROVE Parts'
  BY <1>3, MemberSteps
<1>4. ASSUME NEW t \in failed, ProcessFailedDbPt(t) PROVE Parts'
  BY <1>4, ProcessFailedStep
<1>5. ASSUME LeaderStep PROVE Parts'
  BY <1>5, StepDownStep, LeadAgainStep, OtherLeadsStep, RecoverStep DEF LeaderStep
<1>6. ASSUME Environment PROVE Parts'
  BY <1>6, StartMoveStep, CrashStep, RestartStep, GossipStep, TimeoutStep,
     TimeoutLateStep, MemUsageStep, RefuseStep, LoseLeadershipStep DEF Environment
<1>7. ASSUME UNCHANGED vars PROVE Parts'
  <2>1. EvTyped' /\ ReqTyped' /\ OneCommand'
    BY <1>7, EventsUnchanged DEF vars, msmVars
  <2>2. MetaTyped' /\ LeaderTyped' /\ StoreTyped' /\ BudgetTyped'
    BY <1>7 DEF vars, metaVars, msmVars, cmVars, storeVars, Parts, MetaTyped,
                LeaderTyped, StoreTyped, BudgetTyped
  <2>3. QED
    BY <2>1, <2>2 DEF Parts
<1>8. QED
  BY <1>1, <1>2, <1>3, <1>4, <1>5, <1>6, <1>7 DEF Next

\* The inductive invariant of the migration of a PT.
THEOREM InductiveInvariant == Spec => []IInv
<1>1. Init => IInv
  BY InitIInv, PartsAreIInv
<1>2. IInv /\ [Next]_vars => IInv'
  BY StepIInv, PartsAreIInv, PartsAreIInvNext
<1>3. QED
  BY <1>1, <1>2, PTL DEF Spec

\* The meta data, the leader's memory, the commands and the stores keep their
\* types: in particular an assign event, which has no source, never runs a
\* handler that would make nobody the owner of the PT.
THEOREM TypeCorrect == Spec => []TypeOK
<1>1. IInv => TypeOK
  BY DEF IInv
<1>2. QED
  BY <1>1, InductiveInvariant, PTL

\* An event waits exactly while one command of it is outstanding, whatever
\* crashes, times out, is refused, or loses the meta leadership.
THEOREM OneCommandAtATime == Spec => []OneCommand
<1>1. IInv => OneCommand
  BY DEF IInv
<1>2. QED
  BY <1>1, InductiveInvariant, PTL

-----------------------------------------------------------------------------
(* Persisted events.                                                       *)

\* A leader, and a cluster manager that is not stopped, have an MSM that runs; a
\* persisted event has an opId; it is driven.
DriveInv ==
    /\ leader => Running
    /\ cm => Running
    /\ stored # NoEvent => stored.op # 0
    /\ StoredIsDriven

\* Every event stays, with its opId.
OpsKept == \A i \in EvIds : ev[i] # NoEvent => ev'[i] # NoEvent /\ ev'[i].op = ev[i].op

\* While the MSM runs an answer leaves the event, for its next state or a retry.
LEMMA AnsweredKeeps ==
    ASSUME Running, NEW e, GoodEvent(e), NEW res
    PROVE  LET d == Answered(e, res)
           IN  /\ GoodEvent(d) /\ d # NoEvent /\ d.mode \in {"run", "retry"}
               /\ d.op = e.op /\ d.type = e.type /\ d.src = e.src /\ d.dst = e.dst
               /\ d.conn = e.conn /\ d.pt = e.pt
<1> DEFINE d == Answered(e, res)
           t(ok) == [StateTransition(e, ok) EXCEPT !.mode = "run"]
<1>1. \/ \E ok \in BOOLEAN : d = t(ok)
      \/ d = [e EXCEPT !.mode = "retry"]
  BY DEF Answered, Transited
<1>2. ASSUME NEW ok \in BOOLEAN, d = t(ok)
      PROVE  /\ GoodEvent(d) /\ d.mode = "run" /\ d.op = e.op /\ d.type = e.type
             /\ d.src = e.src /\ d.dst = e.dst /\ d.conn = e.conn /\ d.pt = e.pt
  <2> DEFINE s == StateTransition(e, ok)
  <2>1. GoodEvent(s)
    BY TransitionGood
  <2>2. /\ s.op = e.op /\ s.type = e.type /\ s.src = e.src /\ s.dst = e.dst
        /\ s.conn = e.conn /\ s.pt = e.pt
    BY DEF StateTransition, GoodEvent, EventType
  <2> HIDE DEF s
  <2>3. QED
    BY <1>2, <2>1, <2>2 DEF s, GoodEvent, WellFormed, EventType
<1>3. ASSUME d = [e EXCEPT !.mode = "retry"]
      PROVE  /\ GoodEvent(d) /\ d.mode = "retry" /\ d.op = e.op /\ d.type = e.type
             /\ d.src = e.src /\ d.dst = e.dst /\ d.conn = e.conn /\ d.pt = e.pt
  BY <1>3 DEF GoodEvent, WellFormed, EventType
<1> HIDE DEF d
<1>4. GoodEvent(d) => d # NoEvent
  BY GoodIsEvent
<1>5. QED
  BY <1>1, <1>2, <1>3, <1>4 DEF d

\* A step that keeps the persisted event and every event object.
LEMMA OpsKeptStep ==
    ASSUME Parts, DriveInv, UNCHANGED <<leader, msm, cm>>, Running /\ leader => OpsKept,
           \/ stored' = NoEvent
           \/ stored # NoEvent /\ stored' # NoEvent /\ stored'.op = stored.op
    PROVE  DriveInv'
BY DEF DriveInv, OpsKept, StoredIsDriven, Running

\* One event changes and keeps its opId.
LEMMA SlotKept ==
    ASSUME EvTyped, NEW i \in EvIds, NEW d, ev' = [ev EXCEPT ![i] = d],
           ev[i] # NoEvent => d # NoEvent /\ d.op = ev[i].op
    PROVE  OpsKept
BY DEF EvTyped, OpsKept

\* sendMigrateCommand keeps the event.
LEMMA SendKeeps ==
    ASSUME Parts, Running, NEW i \in EvIds, ev[i] # NoEvent, NEW e, GoodEvent(e),
           e.op = ev[i].op, SendMigrateCommand(i, e)
    PROVE  OpsKept
<1>1. PICK d : ev' = [ev EXCEPT ![i] = d] /\ d \in {[e EXCEPT !.mode = "wait"], Answered(e, "noconn")}
  BY DEF SendMigrateCommand
<1>2. Answered(e, "noconn") # NoEvent /\ Answered(e, "noconn").op = e.op
  BY AnsweredKeeps
<1>3. [e EXCEPT !.mode = "wait"] # NoEvent /\ [e EXCEPT !.mode = "wait"].op = e.op
  <2>1. GoodEvent([e EXCEPT !.mode = "wait"])
    BY DEF GoodEvent, WellFormed, EventType
  <2>2. QED
    BY <2>1, GoodIsEvent DEF GoodEvent, EventType
<1>4. d # NoEvent /\ d.op = ev[i].op
  BY <1>1, <1>2, <1>3
<1>5. QED
  BY <1>1, <1>4, SlotKept DEF Parts

\* So does an answer while the MSM runs.
LEMMA ReplyKeeps ==
    ASSUME Parts, Running, NEW r \in reqs, NEW res,
           ev' = IF r.tag = 0 THEN [ev EXCEPT ![r.id] = Answered(@, res)] ELSE ev
    PROVE  OpsKept
<1>1. CASE r.tag = 0
  <2>1. r.id \in EvIds /\ ev[r.id] # NoEvent
    BY <1>1 DEF Parts, ReqTyped, RequestType, OneCommand
  <2>2. GoodEvent(ev[r.id])
    BY <2>1, EvGood DEF Parts
  <2>3. Answered(ev[r.id], res) # NoEvent /\ Answered(ev[r.id], res).op = ev[r.id].op
    BY <2>2, AnsweredKeeps
  <2>4. ev' = [ev EXCEPT ![r.id] = Answered(ev[r.id], res)]
    BY <1>1
  <2>5. QED
    BY <2>1, <2>3, <2>4, SlotKept DEF Parts
<1>2. CASE r.tag # 0
  BY <1>2 DEF OpsKept
<1>3. QED
  BY <1>1, <1>2

\* Leaving the loop keeps the event until it is deleted.
LEMMA LeaveKeeps ==
    ASSUME Parts, NEW i \in EvIds, NEW e, GoodEvent(e), e.op = ev[i].op, Leave(i, e)
    PROVE  OpsKept
<1> DEFINE d == [e EXCEPT !.mode = "del"]
<1>1. GoodEvent(d) /\ d.op = ev[i].op
  BY DEF GoodEvent, WellFormed, EventType
<1>2. ev' = [ev EXCEPT ![i] = d]
  BY DEF Leave
<1> HIDE DEF d
<1>3. QED
  BY <1>1, <1>2, GoodIsEvent, SlotKept DEF Parts

\* An event that fails is deleted later: for now it stays, with its opId.
LEMMA FailKeeps ==
    ASSUME Parts, NEW i \in EvIds, NEW e, GoodEvent(e), e.op = ev[i].op, Fail(i, e)
    PROVE  OpsKept
<1> DEFINE d == [e EXCEPT !.err = TRUE]
<1>1. GoodEvent(d) /\ d.op = ev[i].op
  BY DEF GoodEvent, WellFormed, EventType
<1>2. Leave(i, d)
  BY DEF Fail
<1> HIDE DEF d
<1>3. QED
  BY <1>1, <1>2, LeaveKeeps


\* storeTransitionState writes the state of the persisted event only.
LEMMA StoreTransitionDrive ==
    ASSUME Parts, DriveInv, NEW i \in EvIds, StoreTransitionState(i) PROVE DriveInv'
<1> DEFINE e == ev[i]
<1>1. GoodEvent(e)
  BY EvGood DEF StoreTransitionState, Parts
<1>2. CASE leader /\ stored # NoEvent /\ stored.op = e.op
  <2> DEFINE d == [e EXCEPT !.persist = FALSE]
  <2>1. GoodEvent(d) /\ d.op = e.op
    BY <1>1 DEF GoodEvent, WellFormed, EventType
  <2>2. ev' = [ev EXCEPT ![i] = d] /\ stored' = [stored EXCEPT !.cur = e.cur]
    BY <1>2 DEF StoreTransitionState
  <2>3. stored' # NoEvent /\ stored'.op = stored.op
    <3>1. stored' \in StoredType
      BY <1>1, <1>2, <2>2 DEF Parts, MetaTyped, StoredType, GoodEvent, EventType
    <3>2. QED
      BY <1>2, <2>2, <3>1, NoEventAssumption DEF Parts, MetaTyped, StoredType
  <2> HIDE DEF d
  <2>4. OpsKept
    BY <2>1, <2>2, GoodIsEvent, SlotKept DEF Parts
  <2>5. UNCHANGED <<leader, msm, cm>>
    BY DEF StoreTransitionState, cmVars
  <2>6. QED
    BY <1>2, <2>3, <2>4, <2>5, OpsKeptStep
<1>3. CASE ~(leader /\ stored # NoEvent /\ stored.op = e.op)
  <2> DEFINE d == [e EXCEPT !.cur = e.pre]
  <2>1. GoodEvent(d) /\ d.op = e.op
    BY <1>1 DEF GoodEvent, WellFormed, EventType
  <2>2. Fail(i, d) /\ stored' = stored /\ UNCHANGED <<leader, msm, cm>>
    BY <1>3 DEF StoreTransitionState, cmVars
  <2> HIDE DEF d
  <2>3. OpsKept
    BY <2>1, <2>2, FailKeeps
  <2>4. QED
    BY <2>2, <2>3, OpsKeptStep
<1>4. QED
  BY <1>2, <1>3

\* createMigrateEvent: the event that gets the opId drives what is persisted.
LEMMA CreateDrive ==
    ASSUME Parts, DriveInv, NEW i \in EvIds, ev[i] # NoEvent, ev[i].op = 0,
           stored' = Created(ev[i]), UNCHANGED <<leader, msm, cm>>,
           NEW d, GoodEvent(d), d.op = Created(ev[i]).op, ev' = [ev EXCEPT ![i] = d]
    PROVE  DriveInv'
<1>1. d # NoEvent
  BY GoodIsEvent
<1>2. \A j \in EvIds : ev'[j] = IF j = i THEN d ELSE ev[j]
  BY DEF Parts, EvTyped
<1>3. FreshOp # 0
  BY FreshOpType, PartsAreIInv
<1>4. Created(ev[i]).op # 0
  BY <1>3 DEF Created, DriveInv
<1>5. QED
  BY <1>1, <1>2, <1>4 DEF DriveInv, StoredIsDriven, Running

\* createMigrateEvent of an assign: the event takes the opId of what is persisted.
LEMMA AssignInitDrive ==
    ASSUME Parts, DriveInv, NEW i \in EvIds, AssignInit(i) PROVE DriveInv'
<1> DEFINE e == ev[i]
           ok == e.op # 0 \/ (leader /\ CanCreate(e))
           d == [e EXCEPT !.cur = "Assign",
                          !.op = IF e.op # 0 THEN e.op ELSE Created(e).op]
<1>1. GoodEvent(e) /\ e # NoEvent /\ UNCHANGED <<leader, msm, cm>> /\ e.type = "Assign"
  BY EvGood DEF AssignInit, AtHandler, Parts, cmVars
<1>2. Created(e).op \in Nat
  BY <1>1, CreatedType DEF StoredType
<1>3. GoodEvent(d) /\ d.op = IF e.op # 0 THEN e.op ELSE Created(e).op
  BY <1>1, <1>2 DEF GoodEvent, WellFormed, EventType, AssignStates, States
<1>4. CASE ok
  <2>1. ev' = [ev EXCEPT ![i] = d] /\ stored' = IF e.op # 0 THEN stored ELSE Created(e)
    BY <1>4 DEF AssignInit
  <2> HIDE DEF d
  <2>2. CASE e.op # 0
    <3>1. OpsKept
      BY <1>3, <2>1, <2>2, GoodIsEvent, SlotKept DEF Parts
    <3>2. QED
      BY <1>1, <2>1, <2>2, <3>1, OpsKeptStep
  <2>3. CASE e.op = 0
    BY <1>1, <1>3, <2>1, <2>3, CreateDrive
  <2>4. QED
    BY <2>2, <2>3
<1>5. CASE ~ok
  <2>1. Fail(i, e) /\ stored' = stored
    BY <1>5 DEF AssignInit
  <2>2. QED
    BY <1>1, <2>1, FailKeeps, OpsKeptStep
<1>6. QED
  BY <1>4, <1>5

\* createMigrateEvent of a move.
LEMMA MoveCreateDrive ==
    ASSUME Parts, DriveInv, NEW i \in EvIds, MoveCreate(i) PROVE DriveInv'
<1> DEFINE e == ev[i]
           ok == leader /\ CanCreate(e)
           d == [e EXCEPT !.op = Created(e).op]
<1>1. GoodEvent(e) /\ e # NoEvent /\ e.op = 0 /\ UNCHANGED <<leader, msm, cm>>
  BY EvGood DEF MoveCreate, AtHandler, Parts, cmVars
<1>2. Created(e).op \in Nat
  BY <1>1, CreatedType DEF StoredType
<1>3. GoodEvent(d) /\ d.op = Created(e).op
  BY <1>1, <1>2 DEF GoodEvent, WellFormed, EventType
<1>4. CASE ok
  <2>1. ev' = [ev EXCEPT ![i] = d] /\ stored' = Created(e)
    BY <1>4 DEF MoveCreate
  <2> HIDE DEF d
  <2>2. QED
    BY <1>1, <1>3, <2>1, CreateDrive
<1>5. CASE ~ok
  <2>1. Fail(i, e) /\ stored' = stored
    BY <1>5 DEF MoveCreate
  <2>2. QED
    BY <1>1, <2>1, FailKeeps, OpsKeptStep
<1>6. QED
  BY <1>4, <1>5

\* The handlers that change the PT, or nothing, in the meta data.
LEMMA MoveInitDrive ==
    ASSUME Parts, DriveInv, NEW i \in EvIds, MoveInit(i) PROVE DriveInv'
<1> DEFINE e == ev[i]
           d == [e EXCEPT !.cur = "PreOffload", !.pt.ver = ptView.ver + 1]
<1>1. GoodEvent(e) /\ UNCHANGED <<leader, msm, cm>> /\ stored' = stored
  BY EvGood DEF MoveInit, AtHandler, Parts, cmVars
<1>2. CASE leader
  <2>1. ev' = [ev EXCEPT ![i] = d]
    BY <1>2 DEF MoveInit
  <2>2. ev' \in [EvIds -> EventType \cup {NoEvent}]
    BY MoveInitStep DEF Parts, EvTyped
  <2>3. d.op = e.op /\ d.mode = e.mode
    BY <1>1 DEF GoodEvent, EventType
  <2>4. d # NoEvent
    <3>1. ptView.ver + 1 \in Nat
      BY DEF Parts, MetaTyped, PtType
    <3>2. [e.pt EXCEPT !.ver = ptView.ver + 1] \in PtType
      BY <1>1, <3>1 DEF GoodEvent, EventType, PtType
    <3>3. d \in EventType
      BY <1>1, <3>2 DEF GoodEvent, EventType, States
    <3>4. QED
      BY <3>3, NoEventAssumption
  <2> HIDE DEF d
  <2>5. OpsKept
    BY <2>1, <2>3, <2>4, SlotKept DEF Parts
  <2>6. QED
    BY <1>1, <2>5, OpsKeptStep
<1>3. CASE ~leader
  BY <1>1, <1>3, OpsKeptStep
<1>4. QED
  BY <1>2, <1>3

\* updatePtInfo refused: the event fails, with its opId.
LEMMA PtInfoFailsKeeps ==
    ASSUME Parts, NEW i \in EvIds, NEW e, GoodEvent(e), e.op = ev[i].op, PtInfoFails(i, e)
    PROVE  OpsKept
<1> DEFINE d == IF leader THEN [e EXCEPT !.pt = RefreshDbPt(e.pt)] ELSE e
<1>1. RefreshDbPt(e.pt) \in PtType
  BY DEF RefreshDbPt, Parts, MetaTyped, GoodEvent, EventType, PtType
<1>2. GoodEvent(d) /\ d.op = e.op
  BY <1>1 DEF GoodEvent, WellFormed, EventType
<1>3. Fail(i, d)
  BY DEF PtInfoFails
<1> HIDE DEF d
<1>4. QED
  BY <1>2, <1>3, FailKeeps

\* updatePtInfo of a move that was offloaded.
LEMMA MoveOffloadedDrive ==
    ASSUME Parts, DriveInv, NEW i \in EvIds, MoveOffloaded(i) PROVE DriveInv'
<1> DEFINE e == ev[i]
           ok == leader /\ PtUnchanged(e.pt)
           c == [e EXCEPT !.pt.status = "Offline"]
           d == StateTransition(c, TRUE)
<1>1. GoodEvent(e) /\ UNCHANGED <<leader, msm, cm>> /\ stored' = stored
  BY EvGood DEF MoveOffloaded, AtHandler, Parts, cmVars
<1>2. CASE ok
  <2>1. ev' = [ev EXCEPT ![i] = d]
    BY <1>2 DEF MoveOffloaded
  <2>2. GoodEvent(c) /\ c.op = e.op
    <3>1. [e.pt EXCEPT !.status = "Offline"] \in PtType
      BY <1>1 DEF GoodEvent, EventType, PtType
    <3>2. QED
      BY <1>1, <3>1 DEF GoodEvent, WellFormed, EventType
  <2> HIDE DEF c
  <2>3. GoodEvent(d)
    BY <2>2, TransitionGood
  <2>4. d.op = c.op
    BY <2>2 DEF StateTransition, GoodEvent, EventType
  <2> HIDE DEF d
  <2>5. OpsKept
    BY <2>1, <2>2, <2>3, <2>4, GoodIsEvent, SlotKept DEF Parts
  <2>6. QED
    BY <1>1, <2>5, OpsKeptStep
<1>3. CASE ~ok
  <2>1. PtInfoFails(i, e)
    BY <1>3 DEF MoveOffloaded
  <2>2. QED
    BY <1>1, <2>1, PtInfoFailsKeeps, OpsKeptStep
<1>4. QED
  BY <1>2, <1>3

\* updatePtInfo, then the assign command.
LEMMA AssignHandlerDrive ==
    ASSUME Parts, DriveInv, NEW i \in EvIds, AssignHandler(i) PROVE DriveInv'
<1> DEFINE e == ev[i]
           ok == leader /\ PtUnchanged(e.pt)
           c == [e EXCEPT !.pt.owner = e.dst]
<1>1. /\ GoodEvent(e) /\ e # NoEvent /\ Running
      /\ UNCHANGED <<leader, msm, cm>> /\ stored' = stored
  BY EvGood DEF AssignHandler, AssignTo, AtHandler, Parts, cmVars
<1>2. CASE ok
  <2>1. SendMigrateCommand(i, c)
    BY <1>2 DEF AssignHandler, AssignTo
  <2>2. GoodEvent(c) /\ c.op = e.op
    <3>1. [e.pt EXCEPT !.owner = e.dst] \in PtType
      BY <1>1 DEF GoodEvent, EventType, PtType
    <3>2. QED
      BY <1>1, <3>1 DEF GoodEvent, WellFormed, EventType
  <2> HIDE DEF c
  <2>3. QED
    BY <1>1, <2>1, <2>2, SendKeeps, OpsKeptStep
<1>3. CASE ~ok
  <2>1. PtInfoFails(i, e)
    BY <1>3 DEF AssignHandler, AssignTo
  <2>2. QED
    BY <1>1, <2>1, PtInfoFailsKeeps, OpsKeptStep
<1>4. QED
  BY <1>2, <1>3

\* The handlers an event ends with persist nothing.
LEMMA LastHandlersDrive ==
    ASSUME Parts, DriveInv, NEW i \in EvIds, AssignedHandler(i) \/ LastHandler(i)
    PROVE  DriveInv'
<1>1. GoodEvent(ev[i]) /\ UNCHANGED <<leader, msm, cm>> /\ stored' = stored
  BY EvGood DEF AssignedHandler, LastHandler, AtHandler, Parts, cmVars, metaVars
<1>2. Leave(i, ev[i]) \/ Fail(i, ev[i])
  BY DEF AssignedHandler, LastHandler
<1>3. OpsKept
  BY <1>1, <1>2, LeaveKeeps, FailKeeps
<1>4. QED
  BY <1>1, <1>3, OpsKeptStep

\* deleteEvent: an event that has an opId takes the persisted event along.
LEMMA DeleteDrive ==
    ASSUME Parts, DriveInv, NEW i \in EvIds, DeleteEvent(i) PROVE DriveInv'
<1>1. \A j \in EvIds : ev'[j] = IF j = i THEN NoEvent ELSE ev[j]
  BY DEF Parts, EvTyped, DeleteEvent
<1>2. /\ stored' = IF ev[i].op # 0 /\ Running /\ leader THEN NoEvent ELSE stored
      /\ UNCHANGED <<leader, msm, cm>>
  BY DEF DeleteEvent
<1>3. QED
  BY <1>1, <1>2 DEF DriveInv, StoredIsDriven, Running

\* Commands and answers.
LEMMA RequestDrive ==
    ASSUME Parts, DriveInv, NEW r \in reqs,
           \/ RequestStep(r) \/ Timeout(r) \/ TimeoutLate(r) \/ MemUsageExceeded(r) \/ Refuse(r)
    PROVE  DriveInv'
<1>1. UNCHANGED <<leader, msm, cm>> /\ stored' = stored
  BY DEF RequestStep, ConnectionLost, Deliver, Execute, Timeout, TimeoutLate,
         MemUsageExceeded, Refuse, cmVars, metaVars
<1>2. \/ UNCHANGED ev
      \/ \E res : ev' = IF r.tag = 0 THEN [ev EXCEPT ![r.id] = Answered(@, res)] ELSE ev
  BY DEF RequestStep, ConnectionLost, Deliver, Execute, Timeout, TimeoutLate,
         MemUsageExceeded, Refuse, Reply
<1>3. Running => OpsKept
  BY <1>2, ReplyKeeps DEF OpsKept
<1>4. QED
  BY <1>1, <1>3, OpsKeptStep

\* Events that begin.
LEMMA AddDrive ==
    ASSUME Parts, DriveInv, NEW e, GoodEvent(e), AddEvent(e), stored' = stored,
           UNCHANGED <<leader, msm, cm>>
    PROVE  DriveInv'
<1>1. PICK i \in EvIds : ev[i] = NoEvent /\ ev' = [ev EXCEPT ![i] = e]
  BY DEF AddEvent
<1>2. OpsKept
  BY <1>1, SlotKept DEF Parts
<1>3. QED
  BY <1>2, OpsKeptStep

\* A new event takes a free slot.
LEMMA BeginDrive ==
    ASSUME Parts, DriveInv, \/ \E t \in failed : ProcessFailedDbPt(t)
                            \/ \E n \in Nodes : StartMove(n)
    PROVE  DriveInv'
<1>1. UNCHANGED <<leader, msm, cm>> /\ stored' = stored
  BY DEF ProcessFailedDbPt, StartMove, metaVars, cmVars
<1>2. OpsKept
  <2>1. ev' = ev \/ \E i \in EvIds : \E e : ev[i] = NoEvent /\ ev' = [ev EXCEPT ![i] = e]
    BY DEF ProcessFailedDbPt, StartMove, AddEvent
  <2>2. QED
    BY <2>1, SlotKept DEF Parts, OpsKept
<1>3. QED
  BY <1>1, <1>2, OpsKeptStep

\* recoverStateMachine makes an event for what is persisted, or removes it.
LEMMA RecoverDrive == ASSUME Parts, DriveInv, Recover PROVE DriveInv'
<1>1. Running /\ UNCHANGED <<leader, msm>>
  BY DEF Recover
<1>2. CASE stored = NoEvent
  BY <1>1, <1>2 DEF Recover, RecoverStateMachine, DriveInv, StoredIsDriven, Running
<1>3. CASE stored # NoEvent /\ inMap = 0
  <2> DEFINE e == NewEvent(stored.type, stored.src, stored.dst, stored.conn,
                           stored.pt, stored.op)
  <2>1. AddEvent(e) /\ stored' = stored
    BY <1>3 DEF Recover, RecoverStateMachine
  <2>2. e.op = stored.op
    BY DEF NewEvent
  <2>3. e # NoEvent
    <3>1. stored \in StoredType /\ (stored.type = "Move" => stored.src \in Nodes)
      BY <1>3 DEF Parts, MetaTyped
    <3>2. /\ stored.type \in {"Assign", "Move"} /\ stored.src \in Nodes \cup {NoNode}
          /\ stored.dst \in Nodes /\ stored.conn \in Nat /\ stored.pt \in PtType
          /\ stored.op \in Nat
      BY <3>1 DEF StoredType
    <3>3. GoodEvent(e)
      BY <3>1, <3>2, NewEventGood
    <3>4. QED
      BY <3>3, GoodIsEvent
  <2> HIDE DEF e
  <2>4. PICK i \in EvIds : ev' = [ev EXCEPT ![i] = e]
    BY <2>1 DEF AddEvent
  <2>5. ev'[i] = e
    BY <2>4 DEF Parts, EvTyped
  <2>6. QED
    BY <1>1, <2>1, <2>2, <2>3, <2>5 DEF DriveInv, StoredIsDriven, Running
<1>4. CASE stored # NoEvent /\ inMap # 0
  BY <1>1, <1>4 DEF Recover, RecoverStateMachine, DriveInv, StoredIsDriven, Running
<1>5. QED
  BY <1>2, <1>3, <1>4

\* The leadership is lost, and won again: the manager is stopped in between.
LEMMA LeaderDrive ==
    ASSUME Parts, DriveInv, LoseLeadership \/ StepDown \/ LeadAgain \/ OtherLeads
    PROVE  DriveInv'
BY DEF LoseLeadership, StepDown, LeadAgain, OtherLeads, DriveInv, StoredIsDriven, Running,
       metaVars, cmVars, Parts, LeaderTyped

\* Member events and stores leave events alone.
LEMMA OtherDrive ==
    ASSUME Parts, DriveInv,
           \/ \E n \in Nodes : MemberStep(n) \/ GossipWhileStopped(n) \/ Crash(n) \/ Restart(n)
           \/ UNCHANGED vars
    PROVE  DriveInv'
<1>1. UNCHANGED <<leader, msm, cm>> /\ stored' = stored /\ ev' = ev
  BY DEF MemberStep, MemberFailed, MemberJoin, TakeoverDbPts, GossipWhileStopped, Crash,
         Restart, vars, metaVars, msmVars, cmVars
<1>2. QED
  BY <1>1, OpsKeptStep DEF OpsKept

\* A step of an event.
LEMMA EventDrive ==
    ASSUME Parts, DriveInv, NEW i \in EvIds, EventStep(i) PROVE DriveInv'
<1>1. CASE Retry(i) \/ MoveSend(i)
  <2>1. ev[i] # NoEvent /\ Running /\ SendMigrateCommand(i, ev[i])
    BY <1>1 DEF Retry, MoveSend, AtHandler
  <2>2. OpsKept
    BY <2>1, EvGood, SendKeeps DEF Parts
  <2>3. UNCHANGED <<leader, msm, cm>> /\ stored' = stored
    BY <1>1 DEF Retry, MoveSend, metaVars, cmVars
  <2>4. QED
    BY <2>2, <2>3, OpsKeptStep
<1>2. CASE NotRunning(i)
  BY <1>2, OpsKeptStep DEF NotRunning, metaVars, cmVars
<1>3. QED
  BY <1>1, <1>2, StoreTransitionDrive, AssignInitDrive, MoveCreateDrive, MoveInitDrive,
     MoveOffloadedDrive, AssignHandlerDrive, LastHandlersDrive, DeleteDrive DEF EventStep

\* Nothing is persisted at first.
LEMMA InitDrive == Init => DriveInv
BY DEF Init, DriveInv, StoredIsDriven, Running

\* Every step, those of a leader that comes or goes included.
LEMMA StepDrive == Parts /\ DriveInv /\ [Next]_vars => DriveInv'
<1> SUFFICES ASSUME Parts, DriveInv, [Next]_vars PROVE DriveInv'
  OBVIOUS
<1>1. CASE Next
  BY <1>1, EventDrive, RequestDrive, OtherDrive, BeginDrive, LeaderDrive, RecoverDrive
     DEF Next, Environment, LeaderStep
<1>2. CASE UNCHANGED vars
  BY <1>2, OtherDrive
<1>3. QED
  BY <1>1, <1>2

\* Whatever fails, changes of the leader included: a migrate event that createMigrateEvent
\* has persisted is carried, by its opId, by an event of the leader's state machine as soon
\* as recoverStateMachine has run, and until deleteEvent removes it.
THEOREM PersistedIsDriven == Spec => []StoredIsDriven
<1>1. DriveInv => StoredIsDriven
  BY DEF DriveInv
<1>2. QED
  BY <1>1, InitIInv, InitDrive, StepIInv, StepDrive, PTL DEF Spec

-----------------------------------------------------------------------------
(* A meta leader that is not deposed.                                      *)

\* No leader is deposed.
StableLeader == Budget["leader"] = 0

\* The event is still in eventMap.
Active(i) == ev[i] # NoEvent /\ ev[i].mode # "del"

\* Its command is with the store, or is to be sent again.
Commanded(e) == e.mode \in {"wait", "retry"}

\* The states in which an event has a command for a store.
SendStates == {"PreOffload", "RollbackPreOffload", "PreAssign", "Offload", "Assign"}

\* The states of a move after the PT went Offline.
LateStates == {"Assign", "AssignFailed", "Assigned"}

\* v is Offline, its owner is the event's dst, and the event knows.
GivenTo(e, v) == /\ v.owner = e.dst /\ e.pt.owner = e.dst
                 /\ v.status = "Offline" /\ e.pt.status = "Offline"

\* A command is sent from a state that is persisted; a state is persisted after one that
\* sends a command or takes the PT Offline.
InPhase(e) ==
    /\ Commanded(e) => e.cur \in SendStates /\ ~e.persist
    /\ e.persist => e.pre \in SendStates \cup {"Offloaded"}
    /\ e.cur = "AssignFailed" => e.err

\* What an event may rely on about the PT v in the meta data.
Sees(e, v) ==
    /\ e.type = "Assign" => v.status = "Offline"
    /\ e.type = "Move" => IF e.cur \in LateStates
                          THEN v.status = "Offline" /\ e.pt.status = "Offline"
                          ELSE e.pt.owner = e.src
    /\ e.cur = "Assigned" \/ (e.cur = "Assign" /\ Commanded(e)) => GivenTo(e, v)

\* The leader leads, and its state machine and cluster manager run.
Steady == leader /\ Running /\ cm /\ budget["leader"] = 0

\* Only one event is in eventMap.
OneActive == \A i \in EvIds : Active(i) => inMap = i

\* Every active event is in a phase of its handlers.
PhaseInv == \A i \in EvIds : Active(i) => InPhase(ev[i])

\* Every active event may rely on the meta data.
SeesInv == \A i \in EvIds : Active(i) => Sees(ev[i], ptView)

\* A PT is assigned to a store whose last registration was known; if the store has
\* failed since, somebody has noticed.
NoticedInv == \A i \in EvIds : Active(i) =>
    /\ ev[i].conn <= dn[ev[i].dst].alive
    /\ ev[i].cur = "Assigned" => \/ dn[ev[i].dst].status = "Alive"
                                 \/ handler[ev[i].dst] # "none"
                                 \/ failed # {}

\* A store that is up and Failed has registered again.
RegInv == \A n \in Nodes :
    /\ dn[n].alive <= conn[n]
    /\ up[n] /\ dn[n].status = "Failed" => dn[n].alive < conn[n]

\* A request is the command of its event, and runs in a store that is up and, where
\* that is checked, has not registered again.
ReqInv == \A r \in reqs :
    /\ r.kind # "lost" => up[r.node]
    /\ r.exec => r.kind # "lost"
    /\ r.exec /\ r.kind \in {"PreAssign", "Assign"} => r.conn = conn[r.node]
    /\ r.tag = 0 => /\ r.kind \in {ev[r.id].cur, "lost"}
                    /\ r.node = Target(ev[r.id]) /\ r.conn = ev[r.id].conn

\* A member event of n is being handled, or is to come.
Pending(n) ==
    \/ handler[n] # "none"
    \/ dn[n].status = "Alive" /\ (~up[n] \/ conn[n] # dn[n].alive)

\* The event brings the PT Online or has it assigned again.
Cares(e) == IF e.mode = "del" THEN e.err /\ IsReassignNeeded(e)
            ELSE e.type = "Assign" \/ e.cur \in LateStates

\* An Offline PT has a takeover, a member event of its owner, or an event that cares.
Handled == ptView.status = "Offline" =>
    \/ failed # {}
    \/ Pending(ptView.owner)
    \/ \E i \in EvIds : ev[i] # NoEvent /\ Cares(ev[i])

\* The invariant while the leader is not deposed.
SInv == /\ Steady /\ OneActive /\ PhaseInv /\ SeesInv /\ NoticedInv /\ RegInv /\ ReqInv
        /\ Handled

-----------------------------------------------------------------------------
\* What an answer makes of an event e: its next state, or a retry.
Transits(e, d, ok) ==
    /\ d.mode = "run" /\ d.pre = e.cur /\ d.persist = TRUE
    /\ d.cur = IF e.type = "Assign" THEN AssignTransition(e.cur, ok)
               ELSE MoveTransition(e.cur, ok)
    /\ d.err = (e.err \/ (e.cur = "Assign" /\ ~ok))

\* The command is to be sent again.
Requeued(e, d) ==
    /\ d.mode = "retry" /\ d.pre = e.pre /\ d.persist = e.persist
    /\ d.cur = e.cur /\ d.err = e.err

\* The answer does not touch what the event is about.
SameEvent(e, d) ==
    /\ d.type = e.type /\ d.src = e.src /\ d.dst = e.dst /\ d.conn = e.conn
    /\ d.op = e.op /\ d.pt = e.pt

\* handleMigrateCommandResponse.
LEMMA AnsweredCases ==
    ASSUME Running, NEW e, GoodEvent(e), NEW res
    PROVE  LET d == Answered(e, res)
           IN  /\ GoodEvent(d) /\ d # NoEvent /\ SameEvent(e, d)
               /\ \/ /\ Transits(e, d, res = "ok")
                     /\ res \in FinalAnswers \/ Target(e) \notin members
                  \/ /\ Requeued(e, d)
                     /\ res \notin FinalAnswers /\ Target(e) \in members
<1> DEFINE d == Answered(e, res)
           t == [StateTransition(e, res = "ok") EXCEPT !.mode = "run"]
<1>1. /\ GoodEvent(d) /\ d # NoEvent /\ SameEvent(e, d)
  BY AnsweredKeeps DEF SameEvent
<1>2. \/ d = t /\ (res \in FinalAnswers \/ Target(e) \notin members)
      \/ /\ d = [e EXCEPT !.mode = "retry"]
         /\ res \notin FinalAnswers /\ Target(e) \in members
  <2>1. CASE res # "ok" /\ Target(e) \notin members
    BY <2>1 DEF Answered, Transited, FinalAnswers
  <2>2. CASE ~(res # "ok" /\ Target(e) \notin members)
    BY <2>2 DEF Answered, Transited, FinalAnswers
  <2>3. QED
    BY <2>1, <2>2
<1>3. d = t => Transits(e, d, res = "ok")
  BY DEF Transits, StateTransition, GoodEvent, EventType
<1>4. d = [e EXCEPT !.mode = "retry"] => Requeued(e, d)
  BY DEF Requeued, GoodEvent, EventType
<1>5. QED
  BY <1>1, <1>2, <1>3, <1>4

\* What an event that is sending its command sees of the PT v.
Ready(e, v) ==
    /\ e.cur \in SendStates /\ ~e.persist
    /\ e.type = "Assign" => v.status = "Offline"
    /\ e.type = "Move" /\ e.cur # "Assign" => e.pt.owner = e.src
    /\ e.cur = "Assign" => GivenTo(e, v)

\* A command that was sent could be sent again.
LEMMA CommandedReady ==
    ASSUME NEW e, GoodEvent(e), InPhase(e), Commanded(e), NEW v, Sees(e, v) PROVE Ready(e, v)
BY DEF GoodEvent, EventType, InPhase, Sees, Ready, SendStates, LateStates

\* An answer keeps what is known of the event.
LEMMA AnswerPhase ==
    ASSUME NEW e, GoodEvent(e), NEW d, GoodEvent(d), SameEvent(e, d), NEW v, Ready(e, v),
           NEW ok \in BOOLEAN, Transits(e, d, ok) \/ Requeued(e, d)
    PROVE  /\ d.mode # "del" /\ InPhase(d) /\ Sees(d, v)
           /\ e.mode # "del" /\ Cares(e) => Cares(d)
           /\ d.cur = "Assigned" => Transits(e, d, ok) /\ e.cur = "Assign" /\ ok
<1>1. e.type \in {"Assign", "Move"} /\ (e.type = "Assign" => e.cur = "Assign")
  BY DEF GoodEvent, WellFormed, EventType, Ready, SendStates, AssignStates
<1>2. CASE Requeued(e, d)
  <2>1. d.mode = "retry" /\ d.cur = e.cur /\ d.pre = e.pre /\ d.persist = e.persist
    BY <1>2 DEF Requeued
  <2>2. e.cur \in SendStates /\ ~e.persist
    BY DEF Ready
  <2>3. InPhase(d)
    BY <2>1, <2>2 DEF InPhase, SendStates
  <2>4. Sees(d, v)
    BY <1>1, <2>1, <2>2 DEF Sees, Ready, SameEvent, GivenTo, LateStates, SendStates
  <2>5. QED
    BY <2>1, <2>2, <2>3, <2>4 DEF Cares, SameEvent, SendStates
<1>3. CASE Transits(e, d, ok)
  <2>1. /\ d.mode = "run" /\ d.pre = e.cur /\ d.persist = TRUE
        /\ d.err = (e.err \/ (e.cur = "Assign" /\ ~ok))
        /\ e.cur \in SendStates
    BY <1>3 DEF Transits, Ready
  <2>2. CASE e.cur = "Assign"
    <3>1. d.cur = IF ok THEN "Assigned" ELSE "AssignFailed"
      BY <1>3, <2>2 DEF Transits, AssignTransition, MoveTransition
    <3>2. GivenTo(e, v)
      BY <2>2 DEF Ready
    <3>3. QED
      BY <1>1, <1>3, <2>1, <2>2, <3>1, <3>2 DEF InPhase, Sees, GivenTo, SameEvent, Cares, Commanded,
                                        LateStates
  <2>3. CASE e.cur # "Assign"
    <3>1. e.type = "Move"
      BY <1>1, <2>3
    <3>2. d.cur \in {"PreAssign", "Offload", "RollbackPreOffload", "Offloaded", "Final"}
      BY <1>3, <2>1, <2>3, <3>1 DEF Transits, MoveTransition, SendStates
    <3>3. e.pt.owner = e.src
      BY <2>3, <3>1 DEF Ready
    <3>4. QED
      BY <2>1, <2>3, <3>1, <3>2, <3>3 DEF InPhase, Sees, GivenTo, SameEvent, Cares, Commanded,
                                          LateStates, SendStates
  <2>4. QED
    BY <2>2, <2>3
<1>4. QED
  BY <1>2, <1>3

-----------------------------------------------------------------------------
(* Steps of the event in eventMap.                                         *)

\* The parts of SInv that are about the leader, the stores and the active event.
CoreInv == Steady /\ OneActive /\ PhaseInv /\ SeesInv /\ NoticedInv /\ RegInv

\* No other event is active.
LEMMA OnlyActive ==
    ASSUME EvTyped, OneActive, NEW i \in EvIds, Active(i), NEW d, ev' = [ev EXCEPT ![i] = d]
    PROVE  \A j \in EvIds : Active(j)' => j = i /\ ev'[j] = d /\ d # NoEvent /\ d.mode # "del"
BY DEF EvTyped, OneActive, Active

\* Leader and budget are left alone, but for a fault that is spent.
SteadyStep == leader' = leader /\ msm' = msm /\ cm' = cm /\ budget'["leader"] = budget["leader"]

\* No other fault deposes the leader.
LEMMA SpendSteady ==
    ASSUME BudgetTyped, NEW k \in Kinds \ {"leader"}, Spend(k)
    PROVE  budget'["leader"] = budget["leader"]
BY DEF BudgetTyped, Spend, Kinds

\* The active event takes a step, or leaves.
LEMMA ActiveStep ==
    ASSUME Parts, CoreInv, NEW i \in EvIds, Active(i), NEW d, ev' = [ev EXCEPT ![i] = d],
           UNCHANGED <<dn, handler, failed, up, conn>>, SteadyStep,
           \/ d.mode = "del"
           \/ /\ inMap' = inMap /\ InPhase(d) /\ Sees(d, ptView')
              /\ d.conn = ev[i].conn /\ d.dst = ev[i].dst
              /\ d.cur = "Assigned" => ev[i].cur = "Assigned" \/ dn[d.dst].status = "Alive"
    PROVE  CoreInv'
<1>1. \A j \in EvIds : Active(j)' => j = i /\ ev'[j] = d /\ d # NoEvent /\ d.mode # "del"
  BY OnlyActive DEF Parts, CoreInv
<1>2. Steady' /\ RegInv'
  BY DEF CoreInv, Steady, SteadyStep, Running, RegInv
<1>3. OneActive'
  BY <1>1 DEF CoreInv, OneActive, Active
<1>4. PhaseInv' /\ SeesInv'
  BY <1>1 DEF PhaseInv, SeesInv
<1>5. NoticedInv'
  BY <1>1 DEF CoreInv, NoticedInv
<1>6. QED
  BY <1>2, <1>3, <1>4, <1>5 DEF CoreInv

\* Requests that an event's step does not concern.
LEMMA ReqQuiet ==
    ASSUME Parts, ReqInv, NEW i \in EvIds, ev[i] = NoEvent \/ ev[i].mode # "wait", NEW d,
           ev' = [ev EXCEPT ![i] = d], UNCHANGED <<reqs, up, conn>>
    PROVE  ReqInv'
<1>1. \A r \in reqs : r.tag = 0 => r.id # i /\ r.id \in EvIds
  BY DEF Parts, ReqTyped, RequestType, OneCommand
<1>2. \A j \in EvIds : j # i => ev'[j] = ev[j]
  BY DEF Parts, EvTyped
<1>3. QED
  BY <1>1, <1>2 DEF ReqInv

\* A new command.
LEMMA ReqSend ==
    ASSUME Parts, ReqInv, NEW i \in EvIds, ev[i].mode # "wait", NEW e, GoodEvent(e), NEW d,
           d.cur = e.cur, Target(d) = Target(e), d.conn = e.conn, ev' = [ev EXCEPT ![i] = d],
           reqs' = reqs \cup {Request(i, e)}, UNCHANGED <<up, conn>>
    PROVE  ReqInv'
<1> DEFINE q == Request(i, e)
<1>1. \A r \in reqs : r.tag = 0 => r.id # i /\ r.id \in EvIds
  BY DEF Parts, ReqTyped, RequestType, OneCommand
<1>2. \A j \in EvIds : ev'[j] = IF j = i THEN d ELSE ev[j]
  BY DEF Parts, EvTyped
<1>3. /\ q.id = i /\ q.exec = FALSE /\ q.node = Target(e) /\ q.conn = e.conn
      /\ q.kind = IF up[Target(e)] THEN e.cur ELSE "lost"
  BY DEF Request
<1> HIDE DEF q
<1>4. QED
  BY <1>1, <1>2, <1>3 DEF ReqInv, q

\* The leader stops waiting for r.
LEMMA ReqAnswer ==
    ASSUME Parts, ReqInv, NEW r \in reqs, r.tag = 0, NEW d, ev' = [ev EXCEPT ![r.id] = d],
           NEW S, reqs' = (reqs \ {r}) \cup S, UNCHANGED <<up, conn>>,
           \A q \in S : /\ q.tag # 0 /\ q.kind = r.kind /\ q.node = r.node
                        /\ q.exec = r.exec /\ q.conn = r.conn
    PROVE  ReqInv'
<1>1. \A q \in reqs \ {r} : q.tag = 0 => q.id # r.id /\ q.id \in EvIds
  BY DEF Parts, ReqTyped, RequestType, OneCommand
<1>2. r.id \in EvIds
  BY DEF Parts, ReqTyped, RequestType
<1>3. \A j \in EvIds : j # r.id => ev'[j] = ev[j]
  BY <1>2 DEF Parts, EvTyped
<1>4. QED
  BY <1>1, <1>3 DEF ReqInv

\* The PT stays as handled as it was.
LEMMA HandledKept ==
    ASSUME Parts, Handled, UNCHANGED <<dn, handler, failed, up, conn>>,
           ptView'.status = "Offline" => ptView.status = "Offline" /\ ptView'.owner = ptView.owner,
           NEW i \in EvIds, NEW d, ev' = [ev EXCEPT ![i] = d],
           ev[i] # NoEvent /\ Cares(ev[i]) => d # NoEvent /\ Cares(d)
    PROVE  Handled'
<1>1. \A j \in EvIds : ev'[j] = IF j = i THEN d ELSE ev[j]
  BY DEF Parts, EvTyped
<1>2. QED
  BY <1>1 DEF Handled, Pending

\* An event cares.
LEMMA HandledByEvent ==
    ASSUME Parts, NEW i \in EvIds, NEW d, d # NoEvent, Cares(d), ev' = [ev EXCEPT ![i] = d]
    PROVE  Handled'
<1>1. ev'[i] = d
  BY DEF Parts, EvTyped
<1>2. QED
  BY <1>1 DEF Handled

\* sendMigrateCommand of the active event, which sees the PT as it is after the step.
LEMMA SendSafe ==
    ASSUME Parts, SInv, NEW i \in EvIds, Active(i), ev[i].mode # "wait",
           NEW e, GoodEvent(e), Ready(e, ptView'), e.mode = ev[i].mode,
           e.type = ev[i].type, e.cur = ev[i].cur, e.conn = ev[i].conn, e.dst = ev[i].dst,
           SendMigrateCommand(i, e),
           UNCHANGED <<dn, handler, failed, up, conn, leader, msm, cm, inMap>>,
           ptView' = ptView \/ e.cur = "Assign"
    PROVE  SInv'
<1>1. Running /\ e.mode # "del" /\ e.type \in {"Assign", "Move"} /\ e.cur \in SendStates
  BY DEF SInv, Steady, Active, GoodEvent, EventType, Ready
<1>2. SteadyStep
  <2>1. budget'["leader"] = budget["leader"]
    BY SpendSteady DEF SendMigrateCommand, Parts, Kinds
  <2>2. QED
    BY <2>1 DEF SteadyStep
<1>3. CASE reqs' = reqs \cup {Request(i, e)} /\ ev' = [ev EXCEPT ![i] = [e EXCEPT !.mode = "wait"]]
  <2>1. PICK d : d = [e EXCEPT !.mode = "wait"]
    OBVIOUS
  <2>2. /\ GoodEvent(d) /\ d.mode = "wait" /\ d.type = e.type /\ d.cur = e.cur /\ d.conn = e.conn
        /\ d.dst = e.dst /\ d.src = e.src /\ d.pt = e.pt /\ d.persist = e.persist
    BY <2>1 DEF GoodEvent, WellFormed, EventType
  <2>3. d # NoEvent /\ Target(d) = Target(e)
    BY <2>2, GoodIsEvent DEF Target
  <2>4. ev' = [ev EXCEPT ![i] = d]
    BY <1>3, <2>1
  <2>5. InPhase(d)
    BY <2>2 DEF InPhase, Ready, SendStates
  <2>6. Sees(d, ptView')
    BY <1>1, <2>2 DEF Sees, Ready, GivenTo, SendStates, LateStates
  <2>7. CoreInv'
    BY <1>1, <1>2, <2>2, <2>4, <2>5, <2>6, ActiveStep DEF SInv, CoreInv, SendStates
  <2>8. ReqInv'
    <3>1. ReqInv /\ reqs' = reqs \cup {Request(i, e)} /\ UNCHANGED <<up, conn>>
      BY <1>3 DEF SInv
    <3>2. QED
      BY <2>2, <2>3, <2>4, <3>1, ReqSend
  <2>9. Handled'
    <3>1. Cares(ev[i]) => Cares(d)
      BY <1>1, <2>2 DEF Cares
    <3>2. e.cur = "Assign" => Cares(d)
      BY <2>2 DEF Cares, LateStates
    <3>3. QED
      BY <2>3, <2>4, <3>1, <3>2, HandledKept, HandledByEvent DEF SInv
  <2>10. QED
    BY <2>7, <2>8, <2>9 DEF SInv, CoreInv
<1>4. CASE ev' = [ev EXCEPT ![i] = Answered(e, "noconn")] /\ UNCHANGED reqs
  <2>1. PICK d : d = Answered(e, "noconn")
    OBVIOUS
  <2>2. /\ GoodEvent(d) /\ d # NoEvent /\ SameEvent(e, d)
        /\ Transits(e, d, FALSE) \/ Requeued(e, d)
    BY <1>1, <2>1, AnsweredCases
  <2>3. /\ d.mode # "del" /\ InPhase(d) /\ Sees(d, ptView')
        /\ Cares(e) => Cares(d)
        /\ d.cur # "Assigned"
    BY <1>1, <2>2, AnswerPhase
  <2>4. ev' = [ev EXCEPT ![i] = d]
    BY <1>4, <2>1
  <2>5. CoreInv'
    BY <1>2, <2>2, <2>3, <2>4, ActiveStep DEF SInv, CoreInv, SameEvent
  <2>6. ReqInv'
    BY <1>4, <2>4, ReqQuiet DEF SInv
  <2>7. Handled'
    <3>1. Cares(ev[i]) => Cares(e)
      BY <1>1 DEF Cares
    <3>2. e.cur = "Assign" => Cares(e)
      BY <1>1 DEF Cares, LateStates
    <3>3. QED
      BY <2>2, <2>3, <2>4, <3>1, <3>2, HandledKept, HandledByEvent DEF SInv
  <2>8. QED
    BY <2>5, <2>6, <2>7 DEF SInv, CoreInv
<1>5. QED
  BY <1>3, <1>4 DEF SendMigrateCommand

\* The active event leaves its loop: the PT is handled as before, or goes Online.
LEMMA LeaveSafe ==
    ASSUME Parts, SInv, NEW i \in EvIds, Active(i), ev[i].mode = "run",
           NEW e, GoodEvent(e), Leave(i, e),
           UNCHANGED <<dn, handler, failed, reqs, up, conn, leader, msm, cm, budget>>,
           \/ ptView'.status # "Offline"
           \/ ptView' = ptView /\ (failed # {} \/ Pending(ptView.owner))
           \/ ptView' = ptView /\ (Cares(ev[i]) => e.err /\ IsReassignNeeded(e))
    PROVE  SInv'
<1>1. PICK d : d = [e EXCEPT !.mode = "del"]
  OBVIOUS
<1>2. /\ GoodEvent(d) /\ d.mode = "del" /\ d.err = e.err /\ d.type = e.type /\ d.cur = e.cur
  BY <1>1 DEF GoodEvent, WellFormed, EventType
<1>3. ev' = [ev EXCEPT ![i] = d] /\ d # NoEvent
  BY <1>1, <1>2, GoodIsEvent DEF Leave
<1>4. CoreInv'
  BY <1>2, <1>3, ActiveStep DEF SInv, CoreInv, SteadyStep
<1>5. ReqInv'
  BY <1>3, ReqQuiet DEF SInv
<1>6. Handled'
  <2>1. CASE ptView'.status # "Offline"
    BY <2>1 DEF Handled
  <2>2. CASE ptView' = ptView /\ (failed # {} \/ Pending(ptView.owner))
    BY <2>2 DEF Handled, Pending
  <2>3. CASE ptView' = ptView /\ (Cares(ev[i]) => e.err /\ IsReassignNeeded(e))
    <3>1. Cares(ev[i]) => Cares(d)
      BY <1>2, <2>3 DEF Cares, IsReassignNeeded
    <3>2. QED
      BY <1>3, <2>3, <3>1, HandledKept DEF SInv
  <2>4. QED
    BY <2>1, <2>2, <2>3
<1>7. QED
  BY <1>4, <1>5, <1>6 DEF SInv, CoreInv

\* ... with an error, after which it is assigned again if it cared.
LEMMA FailSafe ==
    ASSUME Parts, SInv, NEW i \in EvIds, Active(i), ev[i].mode = "run",
           NEW e, GoodEvent(e), Fail(i, e), ptView' = ptView,
           UNCHANGED <<dn, handler, failed, reqs, up, conn, leader, msm, cm, budget>>,
           Cares(ev[i]) => IsReassignNeeded(e)
    PROVE  SInv'
<1>1. PICK d : d = [e EXCEPT !.err = TRUE]
  OBVIOUS
<1>2. GoodEvent(d) /\ d.err = TRUE /\ d.type = e.type /\ d.cur = e.cur
  BY <1>1 DEF GoodEvent, WellFormed, EventType
<1>3. Leave(i, d)
  BY <1>1 DEF Fail
<1>4. IsReassignNeeded(e) => IsReassignNeeded(d)
  BY <1>2 DEF IsReassignNeeded
<1>5. QED
  BY <1>2, <1>3, <1>4, LeaveSafe

\* retryMigrateCmd and the move handlers that only send.
LEMMA ResendSafe ==
    ASSUME Parts, SInv, NEW i \in EvIds, Retry(i) \/ MoveSend(i) PROVE SInv'
<1>1. /\ ev[i] # NoEvent /\ ev[i].mode \in {"retry", "run"} /\ SendMigrateCommand(i, ev[i])
      /\ ptView' = ptView
      /\ UNCHANGED <<dn, handler, failed, up, conn, leader, msm, cm, inMap>>
  BY DEF Retry, MoveSend, AtHandler, metaVars, cmVars, storeVars
<1>2. Active(i) /\ GoodEvent(ev[i])
  BY <1>1, EvGood DEF Active, Parts
<1>3. InPhase(ev[i]) /\ Sees(ev[i], ptView)
  BY <1>2 DEF SInv, PhaseInv, SeesInv
<1>4. Ready(ev[i], ptView)
  <2>1. CASE Retry(i)
    BY <1>2, <1>3, <2>1, CommandedReady DEF Retry, Commanded
  <2>2. CASE MoveSend(i)
    <3>1. /\ ev[i].cur \in {"PreOffload", "RollbackPreOffload", "PreAssign", "Offload"}
          /\ ~ev[i].persist
      BY <2>2 DEF MoveSend, AtHandler
    <3>2. ev[i].type # "Assign"
      BY <1>2, <3>1 DEF GoodEvent, WellFormed, AssignStates
    <3>3. QED
      BY <1>3, <3>1, <3>2 DEF Sees, Ready, SendStates, LateStates
  <2>3. QED
    BY <2>1, <2>2
<1>5. Ready(ev[i], ptView')
  BY <1>1, <1>4
<1>6. QED
  BY <1>1, <1>2, <1>5, SendSafe

\* The active event takes a step in which no command is sent and the meta data's PT
\* stays with its owner.
LEMMA HandleSafe ==
    ASSUME Parts, SInv, NEW i \in EvIds, Active(i), ev[i].mode = "run",
           NEW d, GoodEvent(d), ev' = [ev EXCEPT ![i] = d], d.mode = "run",
           UNCHANGED <<dn, handler, failed, reqs, up, conn, leader, msm, cm, inMap, budget>>,
           InPhase(d), Sees(d, ptView'), d.conn = ev[i].conn, d.dst = ev[i].dst,
           d.cur = "Assigned" => ev[i].cur = "Assigned",
           \/ Cares(d)
           \/ ~Cares(ev[i]) /\ ptView'.status = ptView.status /\ ptView'.owner = ptView.owner
    PROVE  SInv'
<1>1. d # NoEvent
  BY GoodIsEvent
<1>2. CoreInv'
  BY ActiveStep DEF SInv, CoreInv, SteadyStep
<1>3. ReqInv'
  BY ReqQuiet DEF SInv
<1>4. Handled'
  BY <1>1, HandledKept, HandledByEvent DEF SInv
<1>5. QED
  BY <1>2, <1>3, <1>4 DEF SInv, CoreInv

\* storeTransitionState.
LEMMA StoreTransitionSafe ==
    ASSUME Parts, SInv, NEW i \in EvIds, StoreTransitionState(i) PROVE SInv'
<1> DEFINE e == ev[i]
<1>1. /\ e # NoEvent /\ e.mode = "run" /\ e.persist /\ ptView' = ptView
      /\ UNCHANGED <<dn, handler, failed, reqs, up, conn, leader, msm, cm, budget>>
  BY DEF StoreTransitionState, cmVars, storeVars
<1>2. Active(i) /\ GoodEvent(e)
  BY <1>1, EvGood DEF Active, Parts
<1>3. InPhase(e) /\ Sees(e, ptView)
  BY <1>2 DEF SInv, PhaseInv, SeesInv
<1>4. CASE leader /\ stored # NoEvent /\ stored.op = e.op
  <2>1. PICK d : d = [e EXCEPT !.persist = FALSE]
    OBVIOUS
  <2>2. /\ GoodEvent(d) /\ d.mode = "run" /\ d.persist = FALSE /\ d.cur = e.cur /\ d.pre = e.pre
        /\ d.err = e.err /\ d.type = e.type /\ d.src = e.src /\ d.dst = e.dst /\ d.conn = e.conn
        /\ d.pt = e.pt
    BY <1>1, <1>2, <2>1 DEF GoodEvent, WellFormed, EventType
  <2>3. ev' = [ev EXCEPT ![i] = d] /\ inMap' = inMap
    BY <1>4, <2>1 DEF StoreTransitionState
  <2>4. InPhase(d) /\ Sees(d, ptView')
    BY <1>1, <1>3, <2>2 DEF InPhase, Sees, Commanded, GivenTo
  <2>5. Cares(e) => Cares(d)
    BY <1>1, <2>2 DEF Cares
  <2>6. QED
    BY <1>1, <1>2, <2>2, <2>3, <2>4, <2>5, HandleSafe
<1>5. CASE ~(leader /\ stored # NoEvent /\ stored.op = e.op)
  <2>1. PICK d : d = [e EXCEPT !.cur = e.pre]
    OBVIOUS
  <2>2. GoodEvent(d) /\ d.type = e.type /\ d.cur = e.pre
    BY <1>2, <2>1 DEF GoodEvent, WellFormed, EventType
  <2>3. Fail(i, d)
    BY <1>5, <2>1 DEF StoreTransitionState
  <2>4. e.pre \in SendStates \cup {"Offloaded"}
    BY <1>1, <1>3 DEF InPhase
  <2>5. IsReassignNeeded(d)
    BY <2>2, <2>4 DEF IsReassignNeeded, SendStates
  <2>6. QED
    BY <1>1, <1>2, <2>2, <2>3, <2>5, FailSafe
<1>6. QED
  BY <1>4, <1>5

\* initHandler.
LEMMA AssignInitSafe == ASSUME Parts, SInv, NEW i \in EvIds, AssignInit(i) PROVE SInv'
<1> DEFINE e == ev[i]
           ok == e.op # 0 \/ (leader /\ CanCreate(e))
<1>1. /\ e # NoEvent /\ e.mode = "run" /\ ~e.persist /\ e.type = "Assign" /\ e.cur = "Init"
      /\ ptView' = ptView
      /\ UNCHANGED <<dn, handler, failed, reqs, up, conn, leader, msm, cm, budget>>
  BY DEF AssignInit, AtHandler, cmVars, storeVars
<1>2. Active(i) /\ GoodEvent(e)
  BY <1>1, EvGood DEF Active, Parts
<1>3. InPhase(e) /\ Sees(e, ptView)
  BY <1>2 DEF SInv, PhaseInv, SeesInv
<1>4. CASE ok
  <2>1. PICK d : d = [e EXCEPT !.cur = "Assign",
                               !.op = IF e.op # 0 THEN e.op ELSE Created(e).op]
    OBVIOUS
  <2>2. Created(e).op \in Nat
    BY <1>2, CreatedType DEF StoredType
  <2>3. /\ GoodEvent(d) /\ d.mode = "run" /\ d.persist = e.persist /\ d.cur = "Assign"
        /\ d.type = "Assign" /\ d.dst = e.dst /\ d.conn = e.conn
    BY <1>1, <1>2, <2>1, <2>2 DEF GoodEvent, WellFormed, EventType, AssignStates, States
  <2>4. ev' = [ev EXCEPT ![i] = d] /\ inMap' = inMap
    BY <1>4, <2>1 DEF AssignInit
  <2>5. InPhase(d) /\ Sees(d, ptView')
    BY <1>1, <1>3, <2>3 DEF InPhase, Sees, Commanded
  <2>6. Cares(d)
    BY <2>3 DEF Cares
  <2>7. QED
    BY <1>1, <1>2, <2>3, <2>4, <2>5, <2>6, HandleSafe
<1>5. CASE ~ok
  <2>1. Fail(i, e)
    BY <1>5 DEF AssignInit
  <2>2. IsReassignNeeded(e)
    BY <1>1 DEF IsReassignNeeded
  <2>3. QED
    BY <1>1, <1>2, <2>1, <2>2, FailSafe
<1>6. QED
  BY <1>4, <1>5

\* moveInitHandler.
LEMMA MoveCreateSafe == ASSUME Parts, SInv, NEW i \in EvIds, MoveCreate(i) PROVE SInv'
<1> DEFINE e == ev[i]
           ok == leader /\ CanCreate(e)
<1>1. /\ e # NoEvent /\ e.mode = "run" /\ ~e.persist /\ e.type = "Move" /\ e.cur = "Init"
      /\ ptView' = ptView
      /\ UNCHANGED <<dn, handler, failed, reqs, up, conn, leader, msm, cm, budget>>
  BY DEF MoveCreate, AtHandler, cmVars, storeVars
<1>2. Active(i) /\ GoodEvent(e)
  BY <1>1, EvGood DEF Active, Parts
<1>3. InPhase(e) /\ Sees(e, ptView) /\ ~Cares(e)
  BY <1>1, <1>2 DEF SInv, PhaseInv, SeesInv, Cares, LateStates
<1>4. CASE ok
  <2>1. PICK d : d = [e EXCEPT !.op = Created(e).op]
    OBVIOUS
  <2>2. Created(e).op \in Nat
    BY <1>2, CreatedType DEF StoredType
  <2>3. /\ GoodEvent(d) /\ d.mode = "run" /\ d.persist = e.persist /\ d.cur = e.cur
        /\ d.type = e.type /\ d.dst = e.dst /\ d.conn = e.conn /\ d.pt = e.pt /\ d.src = e.src
    BY <1>1, <1>2, <2>1, <2>2 DEF GoodEvent, WellFormed, EventType
  <2>4. ev' = [ev EXCEPT ![i] = d] /\ inMap' = inMap
    BY <1>4, <2>1 DEF MoveCreate
  <2>5. InPhase(d) /\ Sees(d, ptView')
    BY <1>1, <1>3, <2>3 DEF InPhase, Sees, Commanded, LateStates
  <2>6. QED
    BY <1>1, <1>2, <1>3, <2>3, <2>4, <2>5, HandleSafe
<1>5. CASE ~ok
  <2>1. Fail(i, e)
    BY <1>5 DEF MoveCreate
  <2>2. QED
    BY <1>1, <1>2, <1>3, <2>1, FailSafe
<1>6. QED
  BY <1>4, <1>5

\* updatePtVersion, then the first command of a move.
LEMMA MoveInitSafe == ASSUME Parts, SInv, NEW i \in EvIds, MoveInit(i) PROVE SInv'
<1> DEFINE e == ev[i]
<1>1. /\ e # NoEvent /\ e.mode = "run" /\ ~e.persist /\ e.type = "Move" /\ e.cur = "Init"
      /\ UNCHANGED <<dn, handler, failed, reqs, up, conn, leader, msm, cm, budget>>
  BY DEF MoveInit, AtHandler, cmVars, storeVars
<1>2. Active(i) /\ GoodEvent(e) /\ leader
  BY <1>1, EvGood DEF Active, Parts, SInv, Steady
<1>3. InPhase(e) /\ Sees(e, ptView) /\ ~Cares(e)
  BY <1>1, <1>2 DEF SInv, PhaseInv, SeesInv, Cares, LateStates
<1>4. PICK d : d = [e EXCEPT !.cur = "PreOffload", !.pt.ver = ptView.ver + 1]
  OBVIOUS
<1>5. [e.pt EXCEPT !.ver = ptView.ver + 1] \in PtType
  BY <1>2 DEF GoodEvent, EventType, PtType, Parts, MetaTyped
<1>6. /\ GoodEvent(d) /\ d.mode = "run" /\ d.persist = e.persist /\ d.cur = "PreOffload"
      /\ d.type = e.type /\ d.dst = e.dst /\ d.conn = e.conn /\ d.src = e.src
      /\ d.pt.owner = e.pt.owner
  BY <1>1, <1>2, <1>4, <1>5 DEF GoodEvent, WellFormed, EventType, States, PtType
<1>7. ev' = [ev EXCEPT ![i] = d] /\ inMap' = inMap
  BY <1>2, <1>4 DEF MoveInit
<1>8. ptView'.status = ptView.status /\ ptView'.owner = ptView.owner
  BY <1>2 DEF MoveInit, Parts, MetaTyped, PtType
<1>9. InPhase(d) /\ Sees(d, ptView')
  BY <1>1, <1>3, <1>6 DEF InPhase, Sees, Commanded, LateStates
<1>10. QED
  BY <1>1, <1>2, <1>3, <1>6, <1>7, <1>8, <1>9, HandleSafe

\* updatePtInfo fails: the event is assigned again.
LEMMA PtInfoFailsSafe ==
    ASSUME Parts, SInv, NEW i \in EvIds, Active(i), ev[i].mode = "run", PtInfoFails(i, ev[i]),
           ev[i].cur \in {"Offloaded", "Assign"}, ptView' = ptView,
           UNCHANGED <<dn, handler, failed, reqs, up, conn, leader, msm, cm, budget>>
    PROVE  SInv'
<1> DEFINE e == ev[i]
<1>1. GoodEvent(e) /\ leader
  BY EvGood DEF Active, Parts, SInv, Steady
<1>2. PICK d : d = [e EXCEPT !.pt = RefreshDbPt(e.pt)]
  OBVIOUS
<1>3. RefreshDbPt(e.pt) \in PtType
  BY <1>1 DEF RefreshDbPt, Parts, MetaTyped, GoodEvent, EventType, PtType
<1>4. GoodEvent(d) /\ d.type = e.type /\ d.cur = e.cur
  BY <1>1, <1>2, <1>3 DEF GoodEvent, WellFormed, EventType
<1>5. Fail(i, d)
  BY <1>1, <1>2 DEF PtInfoFails
<1>6. IsReassignNeeded(d)
  BY <1>4 DEF IsReassignNeeded
<1>7. QED
  BY <1>4, <1>5, <1>6, FailSafe

\* moveOffloadedHandler.
LEMMA MoveOffloadedSafe == ASSUME Parts, SInv, NEW i \in EvIds, MoveOffloaded(i) PROVE SInv'
<1> DEFINE e == ev[i]
           ok == leader /\ PtUnchanged(e.pt)
<1>1. /\ e # NoEvent /\ e.mode = "run" /\ ~e.persist /\ e.cur = "Offloaded"
      /\ UNCHANGED <<dn, handler, failed, reqs, up, conn, leader, msm, cm, budget>>
  BY DEF MoveOffloaded, AtHandler, cmVars, storeVars
<1>2. Active(i) /\ GoodEvent(e)
  BY <1>1, EvGood DEF Active, Parts
<1>3. e.type = "Move"
  BY <1>1, <1>2 DEF GoodEvent, WellFormed, EventType, AssignStates
<1>4. CASE ok
  <2>1. PICK c : c = [e EXCEPT !.pt.status = "Offline"]
    OBVIOUS
  <2>2. [e.pt EXCEPT !.status = "Offline"] \in PtType
    BY <1>2 DEF GoodEvent, EventType, PtType
  <2>3. /\ GoodEvent(c) /\ c.type = e.type /\ c.dst = e.dst /\ c.conn = e.conn /\ c.cur = e.cur
        /\ c.mode = e.mode /\ c.pt.status = "Offline"
    BY <1>2, <2>1, <2>2 DEF GoodEvent, WellFormed, EventType, PtType
  <2>4. PICK d : d = StateTransition(c, TRUE)
    OBVIOUS
  <2>5. GoodEvent(d)
    BY <2>3, <2>4, TransitionGood
  <2>6. /\ d.mode = c.mode /\ d.type = c.type /\ d.dst = c.dst /\ d.conn = c.conn /\ d.pt = c.pt
        /\ d.pre = c.cur /\ d.persist = TRUE
        /\ d.cur = IF c.type = "Assign" THEN AssignTransition(c.cur, TRUE)
                   ELSE MoveTransition(c.cur, TRUE)
    BY <2>3, <2>4 DEF StateTransition, GoodEvent, EventType
  <2>7. d.cur = "Assign"
    BY <1>1, <1>3, <2>3, <2>6 DEF MoveTransition
  <2>8. ev' = [ev EXCEPT ![i] = d] /\ inMap' = inMap
    BY <1>4, <2>1, <2>4 DEF MoveOffloaded
  <2>9. ptView' = [ptView EXCEPT !.owner = e.src, !.status = "Offline"]
    BY <1>4 DEF MoveOffloaded, UpdatePtInfo
  <2>10. ptView'.status = "Offline"
    BY <2>9 DEF Parts, MetaTyped, PtType
  <2>11. InPhase(d) /\ Sees(d, ptView')
    BY <1>1, <1>3, <2>3, <2>6, <2>7, <2>10 DEF InPhase, Sees, Commanded, LateStates
  <2>12. Cares(d)
    BY <1>1, <2>3, <2>6, <2>7 DEF Cares, LateStates
  <2>13. QED
    BY <1>1, <1>2, <2>3, <2>5, <2>6, <2>7, <2>8, <2>11, <2>12, HandleSafe
<1>5. CASE ~ok
  <2>1. PtInfoFails(i, e) /\ ptView' = ptView
    BY <1>5 DEF MoveOffloaded
  <2>2. QED
    BY <1>1, <1>2, <2>1, PtInfoFailsSafe
<1>6. QED
  BY <1>4, <1>5

\* startAssignHandler and moveAssignHandler.
LEMMA AssignHandlerSafe == ASSUME Parts, SInv, NEW i \in EvIds, AssignHandler(i) PROVE SInv'
<1> DEFINE e == ev[i]
           ok == leader /\ PtUnchanged(e.pt)
<1>1. /\ e # NoEvent /\ e.mode = "run" /\ ~e.persist /\ e.cur = "Assign"
      /\ UNCHANGED <<dn, handler, failed, up, conn, leader, msm, cm>>
  BY DEF AssignHandler, AssignTo, AtHandler, cmVars, storeVars
<1>2. Active(i) /\ GoodEvent(e)
  BY <1>1, EvGood DEF Active, Parts
<1>3. Sees(e, ptView)
  BY <1>2 DEF SInv, SeesInv
<1>4. CASE ok
  <2>1. PICK d : d = [e EXCEPT !.pt.owner = e.dst]
    OBVIOUS
  <2>2. [e.pt EXCEPT !.owner = e.dst] \in PtType
    BY <1>2 DEF GoodEvent, EventType, PtType
  <2>3. /\ GoodEvent(d) /\ d.type = e.type /\ d.dst = e.dst /\ d.conn = e.conn /\ d.cur = e.cur
        /\ d.mode = e.mode /\ d.pt.owner = e.dst /\ d.pt.status = e.pt.status
        /\ d.persist = e.persist
    BY <1>2, <2>1, <2>2 DEF GoodEvent, WellFormed, EventType, PtType
  <2>4. SendMigrateCommand(i, d) /\ inMap' = inMap /\ ptView' = UpdatePtInfo(e.dst, e.pt.status)
    BY <1>4, <2>1 DEF AssignHandler, AssignTo
  <2>5. e.pt.status = "Offline" /\ ptView.status = "Offline"
    BY <1>1, <1>2, <1>3, <1>4 DEF Sees, PtUnchanged, LateStates, GoodEvent, EventType
  <2>6. ptView'.owner = e.dst /\ ptView'.status = "Offline"
    BY <2>4, <2>5 DEF UpdatePtInfo, Parts, MetaTyped, PtType
  <2>7. Ready(d, ptView')
    BY <1>1, <2>3, <2>5, <2>6 DEF Ready, GivenTo, SendStates
  <2>8. QED
    BY <1>1, <1>2, <2>3, <2>4, <2>7, SendSafe
<1>5. CASE ~ok
  <2>1. PtInfoFails(i, e) /\ ptView' = ptView /\ UNCHANGED <<reqs, budget>>
    BY <1>5 DEF AssignHandler, AssignTo
  <2>2. QED
    BY <1>1, <1>2, <2>1, PtInfoFailsSafe
<1>6. QED
  BY <1>4, <1>5

\* assignedHandler: a PT whose owner has failed meanwhile stays Offline, and is taken over.
LEMMA AssignedHandlerSafe ==
    ASSUME Parts, SInv, NEW i \in EvIds, AssignedHandler(i) PROVE SInv'
<1> DEFINE e == ev[i]
<1>1. /\ e # NoEvent /\ e.mode = "run" /\ ~e.persist /\ e.cur = "Assigned"
      /\ UNCHANGED <<dn, handler, failed, reqs, up, conn, leader, msm, cm, budget>>
  BY DEF AssignedHandler, AtHandler, cmVars, storeVars
<1>2. Active(i) /\ GoodEvent(e) /\ leader
  BY <1>1, EvGood DEF Active, Parts, SInv, Steady
<1>3. GivenTo(e, ptView)
  BY <1>1, <1>2 DEF SInv, SeesInv, Sees
<1>4. Leave(i, e) /\ ptView' = UpdatePtInfo(e.pt.owner, "Online")
  BY <1>2, <1>3 DEF AssignedHandler, PtUnchanged, GivenTo
<1>5. CASE dn[e.dst].status = "Alive"
  <2>1. ptView'.status = "Online"
    BY <1>3, <1>4, <1>5 DEF UpdatePtInfo, GivenTo, Parts, MetaTyped, PtType
  <2>2. QED
    BY <1>1, <1>2, <1>4, <2>1, LeaveSafe
<1>6. CASE dn[e.dst].status # "Alive"
  <2>1. ptView' = ptView
    BY <1>3, <1>4, <1>6 DEF UpdatePtInfo, GivenTo
  <2>2. failed # {} \/ Pending(ptView.owner)
    BY <1>1, <1>2, <1>3, <1>6 DEF SInv, NoticedInv, Pending, GivenTo
  <2>3. QED
    BY <1>1, <1>2, <1>4, <2>1, <2>2, LeaveSafe
<1>7. QED
  BY <1>5, <1>6

\* assignFailedHandler and moveFinalHandler.
LEMMA LastHandlerSafe == ASSUME Parts, SInv, NEW i \in EvIds, LastHandler(i) PROVE SInv'
<1> DEFINE e == ev[i]
<1>1. /\ e # NoEvent /\ e.mode = "run" /\ e.cur \in {"AssignFailed", "Final"} /\ Leave(i, e)
      /\ ptView' = ptView
      /\ UNCHANGED <<dn, handler, failed, reqs, up, conn, leader, msm, cm, budget>>
  BY DEF LastHandler, AtHandler, cmVars, storeVars, metaVars
<1>2. Active(i) /\ GoodEvent(e)
  BY <1>1, EvGood DEF Active, Parts
<1>3. InPhase(e)
  BY <1>2 DEF SInv, PhaseInv
<1>4. CASE e.cur = "AssignFailed"
  <2>1. e.err /\ IsReassignNeeded(e)
    BY <1>3, <1>4 DEF InPhase, IsReassignNeeded
  <2>2. QED
    BY <1>1, <1>2, <2>1, LeaveSafe
<1>5. CASE e.cur = "Final"
  <2>1. ~Cares(e)
    BY <1>1, <1>2, <1>5 DEF Cares, LateStates, GoodEvent, WellFormed, AssignStates
  <2>2. QED
    BY <1>1, <1>2, <2>1, LeaveSafe
<1>6. QED
  BY <1>1, <1>4, <1>5

\* deleteEvent hands an event that cares back to the cluster manager.
LEMMA DeleteSafe == ASSUME Parts, SInv, NEW i \in EvIds, DeleteEvent(i) PROVE SInv'
<1> DEFINE e == ev[i]
<1>1. /\ e # NoEvent /\ e.mode = "del" /\ ev' = [ev EXCEPT ![i] = NoEvent]
      /\ UNCHANGED <<ptView, dn, leader, msm, inMap, cm, handler, reqs, up, conn, budget>>
  BY DEF DeleteEvent, storeVars
<1>2. failed' = IF e.err /\ IsReassignNeeded(e) THEN failed \cup {[pt |-> e.pt, retry |-> TRUE]}
                ELSE failed
  BY DEF DeleteEvent, SInv, Steady
<1>3. \A j \in EvIds : ev'[j] = IF j = i THEN NoEvent ELSE ev[j]
  BY <1>1 DEF Parts, EvTyped
<1>4. \A j \in EvIds : Active(j)' => Active(j) /\ ev'[j] = ev[j]
  BY <1>1, <1>3 DEF Active
<1>5. failed # {} => failed' # {}
  BY <1>2
<1>6. Steady' /\ RegInv' /\ OneActive'
  BY <1>1, <1>4 DEF SInv, Steady, Running, RegInv, OneActive
<1>7. PhaseInv' /\ SeesInv'
  BY <1>1, <1>4 DEF SInv, PhaseInv, SeesInv
<1>8. NoticedInv'
  BY <1>1, <1>4, <1>5 DEF SInv, NoticedInv
<1>9. ReqInv'
  BY <1>1, ReqQuiet DEF SInv
<1>10. Handled'
  <2>1. Cares(e) => failed' # {}
    BY <1>1, <1>2 DEF Cares
  <2>2. QED
    BY <1>1, <1>3, <1>5, <2>1 DEF SInv, Handled, Pending
<1>11. QED
  BY <1>6, <1>7, <1>8, <1>9, <1>10 DEF SInv

\* The leader takes an answer, or stops waiting for one.
LEMMA AnswerSafe ==
    ASSUME Parts, SInv, NEW r \in reqs, r.tag = 0, NEW res, res = "ok" => r.exec,
           NEW S, reqs' = (reqs \ {r}) \cup S,
           \A q \in S : /\ q.tag # 0 /\ q.kind = r.kind /\ q.node = r.node
                        /\ q.exec = r.exec /\ q.conn = r.conn,
           ev' = [ev EXCEPT ![r.id] = Answered(@, res)],
           UNCHANGED <<ptView, dn, handler, failed, up, conn, inMap>>, SteadyStep
    PROVE  SInv'
<1> DEFINE e == ev[r.id]
<1>1. r.id \in EvIds /\ e # NoEvent /\ e.mode = "wait" /\ r.node \in Nodes
  BY DEF Parts, ReqTyped, RequestType, OneCommand
<1>2. GoodEvent(e) /\ Active(r.id) /\ Running
  BY <1>1, EvGood DEF Parts, Active, SInv, Steady
<1>3. InPhase(e) /\ Sees(e, ptView)
  BY <1>1, <1>2 DEF SInv, PhaseInv, SeesInv
<1>4. Ready(e, ptView)
  BY <1>1, <1>2, <1>3, CommandedReady DEF Commanded
<1>5. PICK d : d = Answered(e, res)
  OBVIOUS
<1>6. /\ GoodEvent(d) /\ d # NoEvent /\ SameEvent(e, d)
      /\ Transits(e, d, res = "ok") \/ Requeued(e, d)
  BY <1>2, <1>5, AnsweredCases
<1>7. PICK ok \in BOOLEAN : ok = (res = "ok")
  OBVIOUS
<1>8. /\ d.mode # "del" /\ InPhase(d) /\ Sees(d, ptView)
      /\ Cares(e) => Cares(d)
      /\ d.cur = "Assigned" => e.cur = "Assign" /\ ok
  <2>1. Transits(e, d, ok) \/ Requeued(e, d)
    BY <1>6, <1>7
  <2>2. QED
    BY <1>1, <1>2, <1>4, <1>6, <2>1, AnswerPhase
<1>9. ev' = [ev EXCEPT ![r.id] = d]
  BY <1>5
<1>10. d.cur = "Assigned" => dn[d.dst].status = "Alive"
  <2> SUFFICES ASSUME d.cur = "Assigned" PROVE dn[d.dst].status = "Alive"
    OBVIOUS
  <2>1. r.exec /\ e.cur = "Assign"
    BY <1>7, <1>8
  <2>2. r.kind = "Assign" /\ r.node = Target(e) /\ r.conn = e.conn /\ r.conn = conn[r.node] /\ up[r.node]
    BY <2>1 DEF SInv, ReqInv
  <2>3. r.node = e.dst /\ d.dst = e.dst
    BY <1>6, <2>1, <2>2 DEF Target, SameEvent
  <2>4. e.conn <= dn[e.dst].alive
    BY <1>1, <1>2 DEF SInv, NoticedInv
  <2>5. /\ dn[r.node].alive <= conn[r.node]
        /\ dn[r.node].status = "Failed" => dn[r.node].alive < conn[r.node]
    BY <1>1, <2>2 DEF SInv, RegInv
  <2>6. /\ dn[r.node].alive \in Nat /\ conn[r.node] \in Nat
        /\ dn[r.node].status \in {"Alive", "Failed"}
    BY <1>1 DEF Parts, MetaTyped, StoreTyped
  <2>7. QED
    BY <2>2, <2>3, <2>4, <2>5, <2>6
<1>11. CoreInv'
  BY <1>1, <1>2, <1>6, <1>8, <1>9, <1>10, ActiveStep, ZenonT(40) DEF SInv, CoreInv, SameEvent
<1>12. ReqInv'
  BY <1>9, ReqAnswer DEF SInv
<1>13. Handled'
  BY <1>1, <1>6, <1>8, <1>9, HandledKept DEF SInv
<1>14. QED
  BY <1>11, <1>12, <1>13 DEF SInv, CoreInv

\* Requests change and no event does.
LEMMA RequestsOnly ==
    ASSUME Parts, SInv, ReqInv', SteadyStep,
           UNCHANGED <<ptView, dn, handler, failed, up, conn, inMap, ev>>
    PROVE  SInv'
BY DEF SInv, Steady, SteadyStep, Running, OneActive, PhaseInv, SeesInv, NoticedInv, RegInv,
       Handled, Pending, Active

\* An answer comes back.
LEMMA ReplySafe ==
    ASSUME Parts, SInv, NEW r \in reqs, NEW res, res = "ok" => r.exec, Reply(r, res),
           UNCHANGED <<ptView, dn, handler, failed, up, conn, inMap>>, SteadyStep
    PROVE  SInv'
<1>1. CASE r.tag = 0
  <2>1. reqs' = reqs \ {r} /\ ev' = [ev EXCEPT ![r.id] = Answered(@, res)]
    BY <1>1 DEF Reply
  <2>2. PICK S : S = {}
    OBVIOUS
  <2>3. reqs' = (reqs \ {r}) \cup S
    BY <2>1, <2>2
  <2>4. \A p \in S : /\ p.tag # 0 /\ p.kind = r.kind /\ p.node = r.node
                     /\ p.exec = r.exec /\ p.conn = r.conn
    BY <2>2
  <2>5. QED
    BY <1>1, <2>1, <2>3, <2>4, AnswerSafe
<1>2. CASE r.tag # 0
  <2>1. reqs' = reqs \ {r} /\ ev' = ev
    BY <1>2 DEF Reply
  <2>2. ReqInv'
    BY <2>1 DEF SInv, ReqInv
  <2>3. QED
    BY <2>1, <2>2, RequestsOnly
<1>3. QED
  BY <1>1, <1>2

\* The store takes the command, refuses it, or carries it out; the connection breaks.
LEMMA RequestSafe ==
    ASSUME Parts, SInv, NEW r \in reqs,
           RequestStep(r) \/ MemUsageExceeded(r) \/ Refuse(r)
    PROVE  SInv'
<1>1. UNCHANGED <<ptView, dn, handler, failed, up, conn, inMap>>
  BY DEF RequestStep, ConnectionLost, Deliver, Execute, MemUsageExceeded, Refuse, cmVars,
         metaVars, storeVars
<1>2. SteadyStep
  <2>1. budget'["leader"] = budget["leader"]
    BY SpendSteady DEF RequestStep, ConnectionLost, Deliver, Execute, MemUsageExceeded, Refuse,
                       Parts, Kinds
  <2>2. QED
    BY <2>1 DEF SteadyStep, RequestStep, ConnectionLost, Deliver, Execute, MemUsageExceeded, Refuse,
                cmVars
<1>3. CASE \E res : Reply(r, res) /\ (res = "ok" => r.exec)
  BY <1>1, <1>2, <1>3, ReplySafe
<1>4. CASE /\ r.kind # "lost" /\ ev' = ev
           /\ r.kind \in {"PreAssign", "Assign"} => r.conn = conn[r.node]
           /\ reqs' = (reqs \ {r}) \cup {[r EXCEPT !.exec = TRUE]}
  <2>1. PICK q : q = [r EXCEPT !.exec = TRUE]
    OBVIOUS
  <2>2. /\ q.kind = r.kind /\ q.node = r.node /\ q.conn = r.conn /\ q.tag = r.tag /\ q.id = r.id
    BY <2>1 DEF Parts, ReqTyped, RequestType
  <2>3. /\ up[r.node] /\ r.kind # "lost"
        /\ r.kind \in {"PreAssign", "Assign"} => r.conn = conn[r.node]
        /\ r.tag = 0 => /\ r.kind = ev[r.id].cur
                        /\ r.node = Target(ev[r.id]) /\ r.conn = ev[r.id].conn
    BY <1>4 DEF SInv, ReqInv
  <2>4. \A p \in reqs' : p = q \/ p \in reqs
    BY <1>4, <2>1
  <2>5. ev' = ev /\ up' = up /\ conn' = conn
    BY <1>1, <1>4
  <2>6. ReqInv'
    BY <2>2, <2>3, <2>4, <2>5 DEF SInv, ReqInv
  <2>7. QED
    BY <1>1, <1>2, <1>4, <2>6, RequestsOnly
<1>5. QED
  <2>1. CASE ConnectionLost(r) \/ MemUsageExceeded(r) \/ Refuse(r)
    BY <1>3, <2>1 DEF ConnectionLost, MemUsageExceeded, Refuse
  <2>2. CASE Execute(r)
    BY <1>3, <2>2 DEF Execute
  <2>3. CASE Deliver(r)
    BY <1>3, <1>4, <2>3 DEF Deliver
  <2>4. QED
    BY <2>1, <2>2, <2>3 DEF RequestStep

\* An answer is late.
LEMMA TimeoutSafe ==
    ASSUME Parts, SInv, NEW r \in reqs, Timeout(r) \/ TimeoutLate(r) PROVE SInv'
<1> DEFINE q == [r EXCEPT !.tag = OrphanTag]
<1>1. /\ UNCHANGED <<ptView, dn, handler, failed, up, conn, inMap>> /\ r.tag = 0
      /\ ev' = [ev EXCEPT ![r.id] = Answered(@, "timeout")]
      /\ reqs' = (reqs \ {r}) \cup {} \/ reqs' = (reqs \ {r}) \cup {q}
  BY DEF Timeout, TimeoutLate, cmVars, metaVars, storeVars
<1>2. SteadyStep
  <2>1. budget'["leader"] = budget["leader"]
    BY SpendSteady DEF Timeout, TimeoutLate, Parts, Kinds
  <2>2. QED
    BY <2>1 DEF SteadyStep, Timeout, TimeoutLate, cmVars
<1>3. OrphanTag # 0
  BY OrphanTagType DEF Parts
<1>4. /\ q.tag # 0 /\ q.kind = r.kind /\ q.node = r.node /\ q.exec = r.exec /\ q.conn = r.conn
  BY <1>3 DEF Parts, ReqTyped, RequestType
<1> HIDE DEF q
<1>5. PICK S \in {{}, {q}} : reqs' = (reqs \ {r}) \cup S
  BY <1>1
<1>6. \A p \in S : /\ p.tag # 0 /\ p.kind = r.kind /\ p.node = r.node
                   /\ p.exec = r.exec /\ p.conn = r.conn
  BY <1>4, <1>5
<1>7. QED
  BY <1>1, <1>2, <1>5, <1>6, AnswerSafe

-----------------------------------------------------------------------------
(* Member events, and where events come from.                              *)

\* The PT may go Offline under an event, with the same owner.
LEMMA SeesOffline ==
    ASSUME SeesInv, ev' = ev, ptView'.owner = ptView.owner,
           ptView'.status \in {ptView.status, "Offline"}
    PROVE  SeesInv'
<1>1. ASSUME NEW e, Sees(e, ptView) PROVE Sees(e, ptView')
  BY <1>1 DEF Sees, GivenTo
<1>2. QED
  BY <1>1 DEF SeesInv, Active

\* failedHandler and joinHandler, first half.
LEMMA MemberSafe ==
    ASSUME Parts, SInv, NEW n \in Nodes, MemberFailed(n) \/ MemberJoin(n) PROVE SInv'
<1>1. /\ handler' = [handler EXCEPT ![n] = "failed"] \/ handler' = [handler EXCEPT ![n] = "join"]
      /\ ptView' = UpdatePtViewStatus(n)
      /\ UNCHANGED <<leader, msm, ev, inMap, cm, failed, reqs, up, conn, budget>>
  BY DEF MemberFailed, MemberJoin, msmVars, storeVars
<1>2. \/ ~up[n] /\ dn' = [dn EXCEPT ![n].status = "Failed"]
      \/ dn' = [dn EXCEPT ![n] = [status |-> "Alive", alive |-> conn[n]]]
  BY DEF MemberFailed, MemberJoin
<1>3. handler'[n] # "none" /\ \A m \in Nodes \ {n} : handler'[m] = handler[m] /\ dn'[m] = dn[m]
  BY <1>1, <1>2 DEF Parts, LeaderTyped, MetaTyped
<1>4. \/ ~up[n] /\ dn'[n].alive = dn[n].alive
      \/ dn'[n].alive = conn[n] /\ dn'[n].status = "Alive"
  BY <1>2 DEF Parts, MetaTyped
<1>5. /\ ptView'.owner = ptView.owner /\ ptView'.status \in {ptView.status, "Offline"}
      /\ ptView.owner # n => ptView' = ptView
  BY <1>1 DEF UpdatePtViewStatus, Parts, MetaTyped, PtType
<1>6. \A m \in Nodes : dn[m].alive \in Nat /\ conn[m] \in Nat /\ dn[m].alive <= conn[m]
  BY DEF SInv, RegInv, Parts, MetaTyped, StoreTyped
<1>7. Steady' /\ OneActive' /\ PhaseInv'
  BY <1>1 DEF SInv, Steady, Running, OneActive, PhaseInv, Active
<1>8. SeesInv'
  BY <1>1, <1>5, SeesOffline DEF SInv
<1>9. RegInv'
  BY <1>1, <1>3, <1>4, <1>6 DEF SInv, RegInv
<1>10. NoticedInv'
  <2>1. \A m \in Nodes : dn[m].alive <= dn'[m].alive
    BY <1>3, <1>4, <1>6
  <2>2. \A i \in EvIds : Active(i) => ev[i].dst \in Nodes /\ ev[i].conn \in Nat
    BY EvGood DEF Parts, Active, GoodEvent, EventType
  <2>3. \A m \in Nodes : dn'[m].alive \in Nat
    BY <1>3, <1>4, <1>6
  <2>4. QED
    BY <1>1, <1>3, <1>6, <2>1, <2>2, <2>3 DEF SInv, NoticedInv, Active
<1>11. ReqInv'
  BY <1>1 DEF SInv, ReqInv
<1>12. Handled'
  <2>1. ptView.owner \in Nodes
    BY DEF Parts, MetaTyped, PtType
  <2>2. CASE ptView.owner = n
    BY <1>3, <1>5, <2>2 DEF Handled, Pending
  <2>3. CASE ptView.owner # n
    BY <1>1, <1>3, <1>5, <2>1, <2>3 DEF SInv, Handled, Pending
  <2>4. QED
    BY <2>2, <2>3
<1>13. QED
  BY <1>7, <1>8, <1>9, <1>10, <1>11, <1>12 DEF SInv

\* The second half takes the PT of its node over.
LEMMA TakeoverSafe == ASSUME Parts, SInv, NEW n \in Nodes, TakeoverDbPts(n) PROVE SInv'
<1>1. /\ handler' = [handler EXCEPT ![n] = "none"]
      /\ UNCHANGED <<ptView, dn, leader, msm, ev, inMap, cm, reqs, up, conn, budget>>
  BY DEF TakeoverDbPts, metaVars, msmVars, storeVars
<1>2. /\ failed # {} => failed' # {}
      /\ ptView.owner = n /\ ptView.status = "Offline" => failed' # {}
  BY DEF TakeoverDbPts, HandleClusterMember
<1>3. \A m \in Nodes \ {n} : handler'[m] = handler[m]
  BY <1>1 DEF Parts, LeaderTyped
<1>4. Steady' /\ OneActive' /\ PhaseInv' /\ SeesInv' /\ RegInv' /\ ReqInv'
  BY <1>1 DEF SInv, Steady, Running, OneActive, PhaseInv, SeesInv, RegInv, ReqInv, Active
<1>5. NoticedInv'
  <2>1. \A i \in EvIds : Active(i) => ev[i].dst \in Nodes
    BY EvGood DEF Parts, Active, GoodEvent, EventType
  <2>2. \A i \in EvIds : Active(i) /\ ev[i].cur = "Assigned" =>
            ptView.owner = ev[i].dst /\ ptView.status = "Offline"
    BY DEF SInv, SeesInv, Sees, GivenTo
  <2>3. QED
    BY <1>1, <1>2, <1>3, <2>1, <2>2 DEF SInv, NoticedInv, Active
<1>6. Handled'
  <2>1. ptView.owner \in Nodes
    BY DEF Parts, MetaTyped, PtType
  <2>2. QED
    BY <1>1, <1>2, <1>3, <2>1 DEF SInv, Handled, Pending
<1>7. QED
  BY <1>4, <1>5, <1>6 DEF SInv

\* A new event is the only one in eventMap.
LEMMA AddSafe ==
    ASSUME Parts, SInv, inMap = 0, NEW e, GoodEvent(e), e.mode = "run", AddEvent(e),
           InPhase(e), Sees(e, ptView), e.conn <= dn[e.dst].alive, e.cur = "Init",
           UNCHANGED <<ptView, dn, handler, reqs, up, conn>>, SteadyStep,
           failed' = failed \/ Cares(e)
    PROVE  SInv'
<1>1. PICK i \in EvIds : ev[i] = NoEvent /\ ev' = [ev EXCEPT ![i] = e] /\ inMap' = i
  BY DEF AddEvent
<1>2. \A j \in EvIds : ev'[j] = IF j = i THEN e ELSE ev[j]
  BY <1>1 DEF Parts, EvTyped
<1>3. \A j \in EvIds : ~Active(j)
  BY EvIdsAssumption DEF SInv, OneActive
<1>4. \A j \in EvIds : Active(j)' => j = i /\ ev'[j] = e
  BY <1>2, <1>3 DEF Active
<1>5. Steady' /\ RegInv'
  BY DEF SInv, Steady, SteadyStep, Running, RegInv
<1>6. OneActive' /\ PhaseInv' /\ SeesInv' /\ NoticedInv'
  BY <1>1, <1>4 DEF OneActive, PhaseInv, SeesInv, NoticedInv
<1>7. ReqInv'
  BY <1>1, ReqQuiet DEF SInv
<1>8. Handled'
  <2>1. e # NoEvent
    BY GoodIsEvent
  <2>2. CASE failed' = failed
    BY <1>1, <1>2, <2>1, <2>2 DEF SInv, Handled, Pending
  <2>3. CASE Cares(e)
    BY <1>1, <2>1, <2>3, HandledByEvent
  <2>4. QED
    BY <2>2, <2>3
<1>9. QED
  BY <1>5, <1>6, <1>7, <1>8 DEF SInv

\* processFailedDbPt.
LEMMA ProcessFailedSafe ==
    ASSUME Parts, SInv, NEW t \in failed, ProcessFailedDbPt(t) PROVE SInv'
<1>1. /\ UNCHANGED <<ptView, dn, handler, reqs, up, conn>> /\ SteadyStep /\ cm /\ Running
  BY DEF ProcessFailedDbPt, metaVars, storeVars, SteadyStep, SInv, Steady
<1>2. CASE UNCHANGED <<ev, inMap>> /\ (ptView.status = "Offline" => failed' # {})
  <2>1. \A i \in EvIds : Active(i) /\ ev[i].cur = "Assigned" => ptView.status = "Offline"
    BY DEF SInv, SeesInv, Sees, GivenTo
  <2>2. NoticedInv'
    BY <1>1, <1>2, <2>1 DEF SInv, NoticedInv, Active
  <2>3. Handled'
    BY <1>1, <1>2 DEF Handled
  <2>4. Steady' /\ OneActive' /\ PhaseInv' /\ SeesInv' /\ RegInv' /\ ReqInv'
    BY <1>1, <1>2 DEF SInv, Steady, SteadyStep, Running, OneActive, PhaseInv, SeesInv, RegInv,
                      ReqInv, Active
  <2>5. QED
    BY <2>2, <2>3, <2>4 DEF SInv
<1>3. ASSUME NEW n \in TakeOverNodes(t), inMap = 0, ptView.status # "Online",
             AddEvent(NewEvent("Assign", NoNode, n, dn[n].alive, t.pt, 0))
      PROVE  SInv'
  <2>1. PICK e : e = NewEvent("Assign", NoNode, n, dn[n].alive, t.pt, 0)
    OBVIOUS
  <2>2. n \in Nodes /\ t.pt \in PtType /\ dn[n].alive \in Nat
    BY <1>3 DEF TakeOverNodes, Parts, LeaderTyped, MetaTyped
  <2>3. /\ GoodEvent(e) /\ e.mode = "run" /\ e.cur = "Init" /\ ~e.persist /\ e.type = "Assign"
        /\ e.dst = n /\ e.conn = dn[n].alive
    <3>1. GoodEvent(e) /\ e.mode # "wait"
      BY <2>1, <2>2, NewEventGood
    <3>2. QED
      BY <2>1, <3>1 DEF NewEvent
  <2>4. ptView.status = "Offline"
    BY <1>3 DEF Parts, MetaTyped, PtType
  <2>5. InPhase(e) /\ Sees(e, ptView) /\ Cares(e)
    BY <2>3, <2>4 DEF InPhase, Sees, Cares, Commanded
  <2>6. e.conn <= dn[e.dst].alive /\ AddEvent(e)
    BY <1>3, <2>1, <2>2, <2>3
  <2>7. QED
    BY <1>1, <1>3, <2>3, <2>5, <2>6, AddSafe
<1>4. QED
  <2>1. \/ UNCHANGED <<ev, inMap>> /\ ptView.status = "Online"
        \/ /\ UNCHANGED <<ev, inMap>>
           /\ failed' = (failed \ {t}) \cup {[t EXCEPT !.retry = TRUE]}
        \/ \E n \in TakeOverNodes(t) :
              /\ inMap = 0 /\ ptView.status # "Online"
              /\ AddEvent(NewEvent("Assign", NoNode, n, dn[n].alive, t.pt, 0))
    BY <1>1 DEF ProcessFailedDbPt
  <2>2. QED
    BY <1>2, <1>3, <2>1

\* A move begins.
LEMMA StartMoveSafe == ASSUME Parts, SInv, NEW n \in Nodes, StartMove(n) PROVE SInv'
<1>1. /\ UNCHANGED <<ptView, dn, handler, failed, reqs, up, conn>> /\ inMap = 0
      /\ ptView.status = "Online"
  BY DEF StartMove, metaVars, storeVars, cmVars
<1>2. SteadyStep
  <2>1. budget'["leader"] = budget["leader"]
    BY SpendSteady DEF StartMove, Parts, Kinds
  <2>2. QED
    BY <2>1 DEF SteadyStep, StartMove, cmVars
<1>3. PICK e : e = NewEvent("Move", ptView.owner, n, dn[n].alive, ptView, 0)
  OBVIOUS
<1>4. ptView \in PtType /\ ptView.owner \in Nodes /\ dn[n].alive \in Nat
  BY DEF Parts, MetaTyped, PtType
<1>5. /\ GoodEvent(e) /\ e.mode = "run" /\ e.cur = "Init" /\ ~e.persist /\ e.type = "Move"
      /\ e.dst = n /\ e.conn = dn[n].alive /\ e.src = ptView.owner /\ e.pt = ptView
  <2>1. GoodEvent(e) /\ e.mode # "wait"
    BY <1>3, <1>4, NewEventGood
  <2>2. QED
    BY <1>3, <2>1 DEF NewEvent
<1>6. InPhase(e) /\ Sees(e, ptView)
  BY <1>5 DEF InPhase, Sees, Commanded, LateStates
<1>7. AddEvent(e) /\ e.conn <= dn[e.dst].alive
  BY <1>3, <1>4, <1>5 DEF StartMove
<1>8. QED
  BY <1>1, <1>2, <1>5, <1>6, <1>7, AddSafe

\* A store dies.
LEMMA CrashSafe == ASSUME Parts, SInv, NEW n \in Nodes, Crash(n) PROVE SInv'
<1> DEFINE l(r) == [r EXCEPT !.kind = "lost", !.exec = FALSE]
           W == {q \in reqs : q.node = n /\ q.tag = 0}
<1>1. /\ UNCHANGED <<ptView, dn, handler, failed, conn, ev, inMap, leader, msm, cm>>
      /\ up' = [up EXCEPT ![n] = FALSE]
      /\ reqs' = {r \in reqs : r.node # n} \cup {l(r) : r \in W}
  BY DEF Crash, metaVars, msmVars, cmVars
<1>2. SteadyStep
  <2>1. budget'["leader"] = budget["leader"]
    BY SpendSteady DEF Crash, Parts, Kinds
  <2>2. QED
    BY <1>1, <2>1 DEF SteadyStep
<1>3. up'[n] = FALSE /\ \A m \in Nodes \ {n} : up'[m] = up[m]
  BY <1>1 DEF Parts, StoreTyped
<1>4. \A r \in W : /\ l(r).kind = "lost" /\ l(r).exec = FALSE /\ l(r).id = r.id
                   /\ l(r).node = r.node /\ l(r).conn = r.conn
  BY DEF Parts, ReqTyped, RequestType
<1>5. \A r \in reqs : r.node \in Nodes
  BY DEF Parts, ReqTyped, RequestType
<1> HIDE DEF l
<1>6. ReqInv'
  <2>1. \A r \in reqs' : \/ r \in reqs /\ r.node # n
                         \/ \E q \in W : r = l(q)
    BY <1>1
  <2>2. QED
    BY <1>1, <1>3, <1>4, <1>5, <2>1 DEF SInv, ReqInv
<1>7. Steady' /\ OneActive' /\ PhaseInv' /\ SeesInv' /\ NoticedInv'
  BY <1>1, <1>2 DEF SInv, Steady, SteadyStep, Running, OneActive, PhaseInv, SeesInv, NoticedInv,
                    Active
<1>8. RegInv'
  BY <1>1, <1>3 DEF SInv, RegInv
<1>9. Handled'
  <2>1. ptView.owner \in Nodes
    BY DEF Parts, MetaTyped, PtType
  <2>2. QED
    BY <1>1, <1>3, <2>1 DEF SInv, Handled, Pending
<1>10. QED
  BY <1>6, <1>7, <1>8, <1>9 DEF SInv

\* A store comes back with a new registration.
LEMMA RestartSafe == ASSUME Parts, SInv, NEW n \in Nodes, Restart(n) PROVE SInv'
<1>1. /\ UNCHANGED <<ptView, dn, handler, failed, ev, inMap, leader, msm, cm, reqs>>
      /\ ~up[n] /\ up' = [up EXCEPT ![n] = TRUE] /\ conn' = [conn EXCEPT ![n] = @ + 1]
  BY DEF Restart, metaVars, msmVars, cmVars
<1>2. SteadyStep
  <2>1. budget'["leader"] = budget["leader"]
    BY SpendSteady DEF Restart, Parts, Kinds
  <2>2. QED
    BY <1>1, <2>1 DEF SteadyStep
<1>3. /\ \A m \in Nodes \ {n} : up'[m] = up[m] /\ conn'[m] = conn[m]
      /\ conn'[n] = conn[n] + 1
  BY <1>1 DEF Parts, StoreTyped
<1>4. \A m \in Nodes : dn[m].alive \in Nat /\ conn[m] \in Nat /\ dn[m].alive <= conn[m]
  BY DEF SInv, RegInv, Parts, MetaTyped, StoreTyped
<1>5. \A r \in reqs : r.node \in Nodes
  BY DEF Parts, ReqTyped, RequestType
<1>6. ReqInv'
  BY <1>1, <1>3, <1>5 DEF SInv, ReqInv
<1>7. Steady' /\ OneActive' /\ PhaseInv' /\ SeesInv' /\ NoticedInv'
  BY <1>1, <1>2 DEF SInv, Steady, SteadyStep, Running, OneActive, PhaseInv, SeesInv, NoticedInv,
                    Active
<1>8. RegInv'
  BY <1>1, <1>3, <1>4 DEF SInv, RegInv
<1>9. Handled'
  <2>1. ptView.owner \in Nodes
    BY DEF Parts, MetaTyped, PtType
  <2>2. QED
    BY <1>1, <1>3, <1>4, <2>1 DEF SInv, Handled, Pending
<1>10. QED
  BY <1>6, <1>7, <1>8, <1>9 DEF SInv

-----------------------------------------------------------------------------
\* At first no event is active and the PT is Online.
LEMMA InitSafe == ASSUME StableLeader, Init PROVE SInv
<1>1. PICK o \in Nodes : ptView = [owner |-> o, status |-> "Online", ver |-> 1]
  BY DEF Init
<1>2. /\ reqs = {} /\ leader = TRUE /\ msm = "Running" /\ cm = TRUE
      /\ dn = [n \in Nodes |-> [status |-> "Alive", alive |-> 1]]
      /\ ev = [i \in EvIds |-> NoEvent]
      /\ up = [n \in Nodes |-> TRUE] /\ conn = [n \in Nodes |-> 1] /\ budget = Budget
  BY DEF Init
<1>3. Steady
  BY <1>2 DEF Steady, Running, StableLeader
<1>4. \A i \in EvIds : ~Active(i)
  BY <1>2 DEF Active
<1>5. OneActive /\ PhaseInv /\ SeesInv /\ NoticedInv
  BY <1>4 DEF OneActive, PhaseInv, SeesInv, NoticedInv
<1>6. RegInv /\ ReqInv /\ Handled
  BY <1>1, <1>2 DEF RegInv, ReqInv, Handled
<1>7. QED
  BY <1>3, <1>5, <1>6 DEF SInv

\* A leader that is not deposed takes none of the steps of a change of leader.
LEMMA NoLeaderChange ==
    ASSUME Parts, SInv
    PROVE  /\ ~LeaderStep /\ ~LoseLeadership
           /\ \A n \in Nodes : ~GossipWhileStopped(n)
           /\ \A i \in EvIds : ~NotRunning(i)
BY DEF SInv, Steady, LeaderStep, StepDown, LeadAgain, OtherLeads, Recover, LoseLeadership, Spend,
       GossipWhileStopped, NotRunning

\* A step of an event.
LEMMA EventSafe == ASSUME Parts, SInv, NEW i \in EvIds, EventStep(i) PROVE SInv'
BY NoLeaderChange, ResendSafe, StoreTransitionSafe, AssignInitSafe, MoveCreateSafe, MoveInitSafe,
   MoveOffloadedSafe, AssignHandlerSafe, AssignedHandlerSafe, LastHandlerSafe, DeleteSafe
   DEF EventStep

\* A fault, or a move that starts.
LEMMA EnvironmentSafe == ASSUME Parts, SInv, Environment PROVE SInv'
BY NoLeaderChange, StartMoveSafe, CrashSafe, RestartSafe, TimeoutSafe, RequestSafe DEF Environment

\* Every step.
LEMMA StepSafe == ASSUME Parts, SInv, [Next]_vars PROVE SInv'
<1>1. CASE UNCHANGED vars
  <2>1. ReqInv' /\ SteadyStep /\ UNCHANGED <<ptView, dn, handler, failed, up, conn, inMap, ev>>
    BY <1>1 DEF vars, metaVars, msmVars, cmVars, storeVars, SInv, ReqInv, SteadyStep
  <2>2. QED
    BY <2>1, RequestsOnly
<1>2. CASE Next
  BY <1>2, NoLeaderChange, EventSafe, RequestSafe, MemberSafe, TakeoverSafe, ProcessFailedSafe,
     EnvironmentSafe DEF Next, MemberStep
<1>3. QED
  BY <1>1, <1>2

\* While the leader is not deposed: one event in eventMap, which sees the PT as it is,
\* requests that are its commands, and an Offline PT that is handled.
THEOREM StableInvariant == ASSUME StableLeader PROVE Spec => [](IInv /\ SInv)
<1>1. Init => Parts /\ SInv
  BY InitIInv, InitSafe
<1>2. Parts /\ SInv /\ [Next]_vars => (Parts /\ SInv)'
  BY StepIInv, StepSafe
<1>3. Parts /\ SInv => IInv /\ SInv
  BY PartsAreIInv
<1>4. QED
  BY <1>1, <1>2, <1>3, PTL DEF Spec

\* While the leader is not deposed, a PT that updatePtInfo or the cluster manager took
\* Offline is never forgotten: a takeover of it is queued, a member event of its owner is
\* being handled or is to come, or there is an event.
THEOREM OfflineHandled == ASSUME StableLeader PROVE Spec => []OfflineIsHandled
<1>1. SInv => OfflineIsHandled
  BY DEF SInv, Handled, OfflineIsHandled, Pending, MetaKnows
<1>2. QED
  BY <1>1, StableInvariant, PTL

\* The steps that write the PT in the meta data.
LEMMA OwnerKept ==
    ASSUME Parts, SInv, [Next]_vars, ptView.status = "Online"
    PROVE  ptView'.owner = ptView.owner
<1>1. ptView \in PtType
  BY DEF Parts, MetaTyped
<1>2. ASSUME NEW i \in EvIds, MoveInit(i) PROVE ptView'.owner = ptView.owner
  BY <1>1, <1>2 DEF MoveInit, PtType
<1>3. ASSUME NEW i \in EvIds, MoveOffloaded(i) PROVE ptView'.owner = ptView.owner
  <2>1. /\ ev[i] # NoEvent /\ ev[i].mode # "del" /\ ev[i].cur = "Offloaded"
        /\ ptView' # ptView => /\ ptView.owner = ev[i].pt.owner
                               /\ ptView' = UpdatePtInfo(ev[i].src, "Offline")
    BY <1>3 DEF MoveOffloaded, AtHandler, PtUnchanged
  <2>2. ev[i].type = "Move"
    BY <2>1, EvGood DEF Parts, GoodEvent, WellFormed, EventType, AssignStates
  <2>3. ev[i].pt.owner = ev[i].src
    BY <2>1, <2>2 DEF SInv, SeesInv, Active, Sees, LateStates
  <2>4. QED
    BY <1>1, <2>1, <2>3 DEF UpdatePtInfo, PtType
<1>4. ASSUME NEW i \in EvIds, AssignHandler(i) PROVE ptView'.owner = ptView.owner
  <2>1. ev[i] # NoEvent /\ ev[i].mode # "del" /\ ev[i].cur = "Assign"
    BY <1>4 DEF AssignHandler, AssignTo, AtHandler
  <2>2. ev[i].type \in {"Assign", "Move"}
    BY <2>1, EvGood DEF Parts, GoodEvent, EventType
  <2>3. QED
    BY <2>1, <2>2 DEF SInv, SeesInv, Active, Sees, LateStates
<1>5. ASSUME NEW i \in EvIds, AssignedHandler(i) PROVE ptView'.owner = ptView.owner
  BY <1>1, <1>5 DEF AssignedHandler, UpdatePtInfo, PtUnchanged, PtType
<1>6. ASSUME NEW n \in Nodes, MemberFailed(n) \/ MemberJoin(n) PROVE ptView'.owner = ptView.owner
  BY <1>1, <1>6 DEF MemberFailed, MemberJoin, UpdatePtViewStatus, PtType
<1>7. ASSUME NEW i \in EvIds, EventStep(i) PROVE ptView'.owner = ptView.owner
  <2>1. CASE \/ Retry(i) \/ NotRunning(i) \/ StoreTransitionState(i) \/ AssignInit(i)
             \/ MoveCreate(i) \/ MoveSend(i) \/ LastHandler(i) \/ DeleteEvent(i)
    BY <2>1 DEF Retry, NotRunning, StoreTransitionState, AssignInit, MoveCreate, MoveSend,
                LastHandler, DeleteEvent, metaVars
  <2>2. QED
    BY <1>2, <1>3, <1>4, <1>5, <1>7, <2>1 DEF EventStep
<1>8. ASSUME NEW r \in reqs, RequestStep(r) \/ MemUsageExceeded(r) \/ Refuse(r) \/ Timeout(r) \/ TimeoutLate(r)
      PROVE  ptView' = ptView
  BY <1>8 DEF RequestStep, ConnectionLost, Deliver, Execute, MemUsageExceeded, Refuse, Timeout,
              TimeoutLate, metaVars
<1>9. ASSUME NEW n \in Nodes, TakeoverDbPts(n) \/ StartMove(n) \/ Crash(n) \/ Restart(n)
      PROVE  ptView' = ptView
  BY <1>9 DEF TakeoverDbPts, StartMove, Crash, Restart, metaVars
<1>10. ASSUME NEW t \in failed, ProcessFailedDbPt(t) PROVE ptView' = ptView
  BY <1>10 DEF ProcessFailedDbPt, metaVars
<1>11. CASE Environment
  BY <1>8, <1>9, <1>11, NoLeaderChange DEF Environment
<1>12. CASE Next
  BY <1>6, <1>7, <1>8, <1>9, <1>10, <1>11, <1>12, NoLeaderChange DEF Next, MemberStep
<1>13. CASE UNCHANGED vars
  BY <1>13 DEF vars, metaVars
<1>14. QED
  BY <1>12, <1>13

\* While the leader is not deposed, updatePtInfo gives the PT to another store only when it
\* is Offline, whatever assign and move events, timeouts and crashes do meanwhile.
THEOREM OwnerOfOnline == ASSUME StableLeader PROVE Spec => OnlineKeepsOwner
<1>1. Init => Parts /\ SInv
  BY InitIInv, InitSafe
<1>2. Parts /\ SInv /\ [Next]_vars => (Parts /\ SInv)'
  BY StepIInv, StepSafe
<1>3. Parts /\ SInv /\ [Next]_vars
      => [ptView.status = "Online" => ptView'.owner = ptView.owner]_vars
  BY OwnerKept
<1>4. QED
  BY <1>1, <1>2, <1>3, PTL DEF Spec, OnlineKeepsOwner

-----------------------------------------------------------------------------
(* Stores that do not come back: who may load the PT.                      *)

\* The leader stays; a store that died stays down; no request outlives its session on
\* the way, and a store that is up can be reached.
NoReturn == /\ Budget["leader"] = 0 /\ Budget["restart"] = 0
            /\ Budget["late"] = 0 /\ Budget["noconn"] = 0

\* None of these faults is left.
NoneBack == budget["restart"] = 0 /\ budget["late"] = 0 /\ budget["noconn"] = 0

\* Every store has registered once; only a dead one is Failed, is being handled, or is
\* not a member.
StoresInv == \A n \in Nodes :
    /\ conn[n] = 1 /\ dn[n].alive = 1
    /\ handler[n] # "none" => handler[n] = "failed" /\ ~up[n]
    /\ dn[n].status = "Failed" => ~up[n]
    /\ up[n] => n \in members

\* An event names the only registration of its store.
FirstConn == \A i \in EvIds : Active(i) => ev[i].conn = 1

\* r is a command of e.
OfEvent(r, e) == Commanded(e) /\ r.kind \in {e.cur, "lost"} /\ r.node = Target(e)

\* Every request, waited for or not, is a command of the active event in its present
\* state; one that nobody waits for is being carried out.
OfActive == \A r \in reqs :
    /\ \E i \in EvIds : Active(i) /\ OfEvent(r, ev[i])
    /\ r.tag # 0 => r.exec

\* Stores carry out one command at a time.
OneRuns == \A r, q \in reqs : r.exec /\ q.exec => r = q

\* The invariant while stores do not come back.
QInv == NoneBack /\ StoresInv /\ FirstConn /\ OfActive /\ OneRuns

\* What no step does.
LEMMA NoneReturns ==
    ASSUME Parts, SInv, QInv
    PROVE  /\ \A n \in Nodes : ~Restart(n) /\ ~MemberJoin(n)
           /\ \A r \in reqs : ~TimeoutLate(r)
           /\ ~Spend("noconn")
<1>1. \A n \in Nodes : ~MemberJoin(n)
  BY DEF QInv, StoresInv, MemberJoin
<1>2. QED
  BY <1>1 DEF QInv, NoneBack, Restart, TimeoutLate, Spend

\* A budget is never filled up.
BudgetFalls == \A k \in Kinds : budget'[k] <= budget[k]

\* A fault uses its budget.
LEMMA SpendFalls == ASSUME BudgetTyped, NEW k \in Kinds, Spend(k) PROVE BudgetFalls
BY DEF BudgetTyped, Spend, BudgetFalls

\* Other steps do not.
LEMMA SameFalls == ASSUME BudgetTyped, budget' = budget PROVE BudgetFalls
BY DEF BudgetTyped, BudgetFalls

\* Every step.
LEMMA StepFalls == ASSUME Parts, SInv, [Next]_vars PROVE BudgetFalls
<1> USE DEF Parts
<1>1. ASSUME NEW i \in EvIds, EventStep(i) PROVE BudgetFalls
  <2>1. budget' = budget \/ Spend("noconn")
    BY <1>1 DEF EventStep, Retry, NotRunning, StoreTransitionState, AssignInit, MoveCreate, MoveInit,
                MoveSend, MoveOffloaded, AssignHandler, AssignTo, AssignedHandler, LastHandler,
                DeleteEvent, SendMigrateCommand
  <2>2. QED
    BY <2>1, SpendFalls, SameFalls DEF Kinds
<1>2. ASSUME NEW r \in reqs, RequestStep(r) PROVE BudgetFalls
  BY <1>2, SameFalls DEF RequestStep, ConnectionLost, Deliver, Execute
<1>3. ASSUME NEW n \in Nodes, MemberStep(n) PROVE BudgetFalls
  BY <1>3, SameFalls DEF MemberStep, MemberFailed, MemberJoin, TakeoverDbPts
<1>4. ASSUME NEW t \in failed, ProcessFailedDbPt(t) PROVE BudgetFalls
  BY <1>4, SameFalls DEF ProcessFailedDbPt
<1>5. ASSUME Environment PROVE BudgetFalls
  <2>1. \E k \in {"move", "crash", "restart", "timeout", "late", "memfull", "refuse"} : Spend(k)
    BY <1>5, NoLeaderChange DEF Environment, StartMove, Crash, Restart, Timeout, TimeoutLate,
                                MemUsageExceeded, Refuse
  <2>2. QED
    BY <2>1, SpendFalls DEF Kinds
<1>6. CASE Next
  BY <1>1, <1>2, <1>3, <1>4, <1>5, <1>6, NoLeaderChange DEF Next
<1>7. CASE UNCHANGED vars
  BY <1>7, SameFalls DEF vars
<1>8. QED
  BY <1>6, <1>7

\* A budget that is used up stays so.
LEMMA NoneBackStep == ASSUME Parts, SInv, QInv, Parts', [Next]_vars PROVE NoneBack'
BY StepFalls DEF QInv, NoneBack, BudgetFalls, Parts, BudgetTyped, Kinds

\* Only a crash and what is noticed of it change a store.
LEMMA StoresStep == ASSUME Parts, SInv, QInv, [Next]_vars PROVE StoresInv'
<1>1. CASE UNCHANGED <<conn, dn, handler, up, members>>
  BY <1>1 DEF QInv, StoresInv
<1>2. ASSUME NEW n \in Nodes, MemberFailed(n) PROVE StoresInv'
  <2>1. /\ dn' = [dn EXCEPT ![n].status = "Failed"] /\ handler' = [handler EXCEPT ![n] = "failed"]
        /\ UNCHANGED <<conn, up, members>> /\ ~up[n]
    BY <1>2 DEF MemberFailed, storeVars
  <2>2. \A m \in Nodes : dn'[m].alive = dn[m].alive /\ (m # n => dn'[m] = dn[m])
    BY <2>1 DEF Parts, MetaTyped
  <2>3. \A m \in Nodes : handler'[m] = IF m = n THEN "failed" ELSE handler[m]
    BY <2>1 DEF Parts, LeaderTyped
  <2>4. QED
    BY <2>1, <2>2, <2>3 DEF QInv, StoresInv
<1>3. ASSUME NEW n \in Nodes, TakeoverDbPts(n) PROVE StoresInv'
  <2>1. /\ handler[n] = "failed" /\ ~up[n]
        /\ handler' = [handler EXCEPT ![n] = "none"] /\ members' = members \ {n}
        /\ UNCHANGED <<conn, up, dn>>
    BY <1>3 DEF TakeoverDbPts, HandleClusterMember, storeVars, metaVars, QInv, StoresInv
  <2>2. \A m \in Nodes : handler'[m] = IF m = n THEN "none" ELSE handler[m]
    BY <2>1 DEF Parts, LeaderTyped
  <2>3. QED
    BY <2>1, <2>2 DEF QInv, StoresInv
<1>4. ASSUME NEW n \in Nodes, Crash(n) PROVE StoresInv'
  <2>1. up' = [up EXCEPT ![n] = FALSE] /\ UNCHANGED <<conn, dn, handler, members>>
    BY <1>4 DEF Crash, metaVars, cmVars
  <2>2. \A m \in Nodes : up'[m] => up[m]
    BY <2>1 DEF Parts, StoreTyped
  <2>3. QED
    BY <2>1, <2>2 DEF QInv, StoresInv
<1>5. ASSUME NEW i \in EvIds, EventStep(i) PROVE UNCHANGED <<conn, dn, handler, up, members>>
  BY <1>5 DEF EventStep, Retry, NotRunning, StoreTransitionState, AssignInit, MoveCreate, MoveInit,
              MoveSend, MoveOffloaded, AssignHandler, AssignTo, AssignedHandler, LastHandler,
              DeleteEvent, metaVars, cmVars, storeVars
<1>6. ASSUME NEW r \in reqs, RequestStep(r) \/ Timeout(r) \/ MemUsageExceeded(r) \/ Refuse(r)
      PROVE  UNCHANGED <<conn, dn, handler, up, members>>
  BY <1>6 DEF RequestStep, ConnectionLost, Deliver, Execute, Timeout, MemUsageExceeded, Refuse,
              metaVars, cmVars, storeVars
<1>7. ASSUME \/ \E t \in failed : ProcessFailedDbPt(t)
             \/ \E n \in Nodes : StartMove(n)
      PROVE  UNCHANGED <<conn, dn, handler, up, members>>
  BY <1>7 DEF ProcessFailedDbPt, StartMove, metaVars, cmVars, storeVars
<1>8. CASE Environment
  BY <1>1, <1>4, <1>6, <1>7, <1>8, NoneReturns, NoLeaderChange DEF Environment
<1>9. CASE Next
  BY <1>1, <1>2, <1>3, <1>5, <1>6, <1>7, <1>8, <1>9, NoneReturns, NoLeaderChange
     DEF Next, MemberStep
<1>10. CASE UNCHANGED vars
  BY <1>1, <1>10 DEF vars, metaVars, cmVars, storeVars
<1>11. QED
  BY <1>9, <1>10

\* What sendMigrateCommand makes of the event.
LEMMA SendShape ==
    ASSUME Running, NEW i \in EvIds, NEW e, GoodEvent(e), SendMigrateCommand(i, e)
    PROVE  \E d : /\ ev' = [ev EXCEPT ![i] = d] /\ GoodEvent(d) /\ SameEvent(e, d)
                  /\ \/ /\ d = [e EXCEPT !.mode = "wait"]
                        /\ d.mode = "wait" /\ d.cur = e.cur /\ d.pre = e.pre
                        /\ d.persist = e.persist /\ d.err = e.err
                        /\ reqs' = reqs \cup {Request(i, e)}
                     \/ /\ Transits(e, d, FALSE) /\ reqs' = reqs
                        /\ up[Target(e)] => Spend("noconn")
<1>1. CASE reqs' = reqs \cup {Request(i, e)} /\ ev' = [ev EXCEPT ![i] = [e EXCEPT !.mode = "wait"]]
  <2>1. PICK d : d = [e EXCEPT !.mode = "wait"]
    OBVIOUS
  <2>2. /\ GoodEvent(d) /\ SameEvent(e, d)
        /\ d.mode = "wait" /\ d.cur = e.cur /\ d.pre = e.pre /\ d.persist = e.persist
        /\ d.err = e.err
    BY <2>1 DEF GoodEvent, WellFormed, EventType, SameEvent
  <2>3. QED
    BY <1>1, <2>1, <2>2
<1>2. CASE /\ IF up[Target(e)] THEN Spend("noconn") ELSE UNCHANGED budget
           /\ ev' = [ev EXCEPT ![i] = Answered(e, "noconn")] /\ UNCHANGED reqs
  <2>1. PICK d : d = Answered(e, "noconn")
    OBVIOUS
  <2>2. GoodEvent(d) /\ SameEvent(e, d) /\ Transits(e, d, FALSE)
    BY <2>1, AnsweredCases DEF FinalAnswers
  <2>3. QED
    BY <1>2, <2>1, <2>2
<1>3. QED
  BY <1>1, <1>2 DEF SendMigrateCommand

-----------------------------------------------------------------------------
(* Registrations.                                                          *)

\* The event i keeps its registration, is removed, or leaves.
ConnKept(i) == \E d : /\ ev' = [ev EXCEPT ![i] = d]
                      /\ d = NoEvent \/ d.mode = "del" \/ d.conn = ev[i].conn

\* An event whose store is kept names its only registration.
LEMMA ConnSame ==
    ASSUME Parts, FirstConn, NEW i \in EvIds, Active(i), ConnKept(i)
    PROVE  FirstConn'
<1>1. PICK d : /\ ev' = [ev EXCEPT ![i] = d]
               /\ d = NoEvent \/ d.mode = "del" \/ d.conn = ev[i].conn
  BY DEF ConnKept
<1>2. \A j \in EvIds : ev'[j] = IF j = i THEN d ELSE ev[j]
  BY <1>1 DEF Parts, EvTyped
<1>3. QED
  BY <1>1, <1>2 DEF FirstConn, Active

\* sendMigrateCommand.
LEMMA ConnSend ==
    ASSUME Running, NEW i \in EvIds, NEW e, GoodEvent(e), e.conn = ev[i].conn,
           SendMigrateCommand(i, e)
    PROVE  ConnKept(i)
<1>1. PICK d : ev' = [ev EXCEPT ![i] = d] /\ SameEvent(e, d)
  BY SendShape
<1>2. QED
  BY <1>1 DEF ConnKept, SameEvent

\* An event that leaves eventMap.
LEMMA ConnLeave == ASSUME NEW i \in EvIds, NEW e, GoodEvent(e), Leave(i, e) PROVE ConnKept(i)
<1>1. PICK d : d = [e EXCEPT !.mode = "del"]
  OBVIOUS
<1>2. d.mode = "del"
  BY <1>1 DEF GoodEvent, EventType
<1>3. QED
  BY <1>1, <1>2 DEF Leave, ConnKept

\* An event that fails.
LEMMA ConnFail == ASSUME NEW i \in EvIds, NEW e, GoodEvent(e), Fail(i, e) PROVE ConnKept(i)
<1>1. PICK d : d = [e EXCEPT !.err = TRUE]
  OBVIOUS
<1>2. GoodEvent(d)
  BY <1>1 DEF GoodEvent, WellFormed, EventType
<1>3. QED
  BY <1>1, <1>2, ConnLeave DEF Fail

\* updatePtInfo refused.
LEMMA ConnPtFails ==
    ASSUME NEW i \in EvIds, NEW e, GoodEvent(e), Parts, PtInfoFails(i, e) PROVE ConnKept(i)
<1>1. RefreshDbPt(e.pt) \in PtType
  BY DEF RefreshDbPt, Parts, MetaTyped, GoodEvent, EventType, PtType
<1>2. GoodEvent([e EXCEPT !.pt = RefreshDbPt(e.pt)])
  BY <1>1 DEF GoodEvent, WellFormed, EventType
<1>3. QED
  BY <1>2, ConnFail DEF PtInfoFails

\* A step of an event.
LEMMA FirstConnEvent ==
    ASSUME Parts, SInv, FirstConn, NEW i \in EvIds, EventStep(i) PROVE FirstConn'
<1> DEFINE e == ev[i]
<1>0. Running
  BY DEF SInv, Steady
<1>1. CASE DeleteEvent(i)
  <2>1. \A j \in EvIds : ev'[j] = IF j = i THEN NoEvent ELSE ev[j]
    BY <1>1 DEF DeleteEvent, Parts, EvTyped
  <2>2. QED
    BY <2>1 DEF FirstConn, Active
<1>2. CASE ~DeleteEvent(i)
  <2>1. e # NoEvent /\ e.mode # "del"
    BY <1>2 DEF EventStep, Retry, NotRunning, StoreTransitionState, AssignInit, MoveCreate,
                MoveInit, MoveSend, MoveOffloaded, AssignHandler, AssignTo, AssignedHandler,
                LastHandler, AtHandler
  <2>2. Active(i) /\ GoodEvent(e)
    BY <2>1, EvGood DEF Active, Parts
  <2>3. ASSUME StoreTransitionState(i) PROVE ConnKept(i)
    <3>1. GoodEvent([e EXCEPT !.cur = e.pre])
      BY <2>2 DEF GoodEvent, WellFormed, EventType
    <3>2. CASE ev' = [ev EXCEPT ![i].persist = FALSE]
      <4>1. ev' = [ev EXCEPT ![i] = [e EXCEPT !.persist = FALSE]]
        BY <3>2
      <4>2. [e EXCEPT !.persist = FALSE].conn = e.conn
        BY <2>2 DEF GoodEvent, EventType
      <4>3. QED
        BY <4>1, <4>2 DEF ConnKept
    <3>3. CASE Fail(i, [e EXCEPT !.cur = e.pre])
      BY <3>1, <3>3, ConnFail
    <3>4. QED
      BY <2>3, <3>2, <3>3 DEF StoreTransitionState
  <2>4. ASSUME NEW o, ev' = [ev EXCEPT ![i].cur = "Assign", ![i].op = o] PROVE ConnKept(i)
    <3>1. ev' = [ev EXCEPT ![i] = [e EXCEPT !.cur = "Assign", !.op = o]]
      BY <2>4
    <3>2. [e EXCEPT !.cur = "Assign", !.op = o].conn = e.conn
      BY <2>2 DEF GoodEvent, EventType
    <3>3. QED
      BY <3>1, <3>2 DEF ConnKept
  <2>5. ASSUME NEW o, ev' = [ev EXCEPT ![i].op = o] PROVE ConnKept(i)
    <3>1. ev' = [ev EXCEPT ![i] = [e EXCEPT !.op = o]]
      BY <2>5
    <3>2. [e EXCEPT !.op = o].conn = e.conn
      BY <2>2 DEF GoodEvent, EventType
    <3>3. QED
      BY <3>1, <3>2 DEF ConnKept
  <2>6. ASSUME MoveInit(i) PROVE ConnKept(i)
    <3>1. PICK d : d = [e EXCEPT !.cur = "PreOffload", !.pt.ver = ptView.ver + 1]
      OBVIOUS
    <3>2. d.conn = e.conn
      BY <2>2, <3>1 DEF GoodEvent, EventType
    <3>3. leader
      BY DEF SInv, Steady
    <3>4. QED
      BY <2>6, <3>1, <3>2, <3>3 DEF MoveInit, ConnKept
  <2>7. ASSUME MoveOffloaded(i) PROVE ConnKept(i)
    <3>1. PICK c : c = [e EXCEPT !.pt.status = "Offline"]
      OBVIOUS
    <3>2. [e.pt EXCEPT !.status = "Offline"] \in PtType
      BY <2>2 DEF GoodEvent, EventType, PtType
    <3>3. GoodEvent(c) /\ c.conn = e.conn
      BY <2>2, <3>1, <3>2 DEF GoodEvent, WellFormed, EventType
    <3>4. StateTransition(c, TRUE).conn = e.conn
      BY <3>3 DEF StateTransition, GoodEvent, EventType
    <3>5. QED
      BY <2>2, <2>7, <3>1, <3>4, ConnPtFails DEF MoveOffloaded, ConnKept
  <2>8. ASSUME AssignHandler(i) PROVE ConnKept(i)
    <3>1. PICK d : d = [e EXCEPT !.pt.owner = e.dst]
      OBVIOUS
    <3>2. [e.pt EXCEPT !.owner = e.dst] \in PtType
      BY <2>2 DEF GoodEvent, EventType, PtType
    <3>3. GoodEvent(d) /\ d.conn = e.conn
      BY <2>2, <3>1, <3>2 DEF GoodEvent, WellFormed, EventType
    <3>4. SendMigrateCommand(i, d) \/ PtInfoFails(i, e)
      BY <2>8, <3>1 DEF AssignHandler, AssignTo
    <3>5. QED
      BY <1>0, <2>2, <3>3, <3>4, ConnSend, ConnPtFails
  <2>9. ASSUME Retry(i) \/ MoveSend(i) PROVE ConnKept(i)
    BY <1>0, <2>2, <2>9, ConnSend DEF Retry, MoveSend
  <2>10. ASSUME Leave(i, e) \/ Fail(i, e) PROVE ConnKept(i)
    BY <2>2, <2>10, ConnLeave, ConnFail
  <2>11. ASSUME AssignInit(i) PROVE ConnKept(i)
    BY <2>4, <2>10, <2>11 DEF AssignInit
  <2>12. ASSUME MoveCreate(i) PROVE ConnKept(i)
    BY <2>5, <2>10, <2>12 DEF MoveCreate
  <2>13. ASSUME AssignedHandler(i) \/ LastHandler(i) PROVE ConnKept(i)
    BY <2>10, <2>13 DEF AssignedHandler, LastHandler
  <2>14. ConnKept(i)
    BY <1>2, <2>3, <2>6, <2>7, <2>8, <2>9, <2>11, <2>12, <2>13, NoLeaderChange DEF EventStep
  <2>15. QED
    BY <2>2, <2>14, ConnSame
<1>3. QED
  BY <1>1, <1>2

\* A new event takes the first registration of its store.
LEMMA FirstConnAdd ==
    ASSUME Parts, FirstConn, NEW e, e.conn = 1, AddEvent(e) PROVE FirstConn'
<1>1. PICK i \in EvIds : ev' = [ev EXCEPT ![i] = e]
  BY DEF AddEvent
<1>2. \A j \in EvIds : ev'[j] = IF j = i THEN e ELSE ev[j]
  BY <1>1 DEF Parts, EvTyped
<1>3. QED
  BY <1>2 DEF FirstConn, Active

\* An answer, or its timeout.
LEMMA FirstConnReply ==
    ASSUME Parts, SInv, FirstConn, NEW r \in reqs, r.tag = 0, NEW res,
           ev' = [ev EXCEPT ![r.id] = Answered(@, res)]
    PROVE  FirstConn'
<1>1. r.id \in EvIds /\ ev[r.id] # NoEvent /\ ev[r.id].mode = "wait"
  BY DEF Parts, ReqTyped, RequestType, OneCommand
<1>2. GoodEvent(ev[r.id]) /\ Active(r.id) /\ Running
  BY <1>1, EvGood DEF Parts, Active, SInv, Steady
<1>3. Answered(ev[r.id], res).conn = ev[r.id].conn
  BY <1>2, AnsweredKeeps
<1>4. ConnKept(r.id)
  BY <1>3 DEF ConnKept
<1>5. QED
  BY <1>1, <1>2, <1>4, ConnSame

\* Every step.
LEMMA FirstConnStep == ASSUME Parts, SInv, QInv, [Next]_vars PROVE FirstConn'
<1>0. FirstConn /\ \A n \in Nodes : dn[n].alive = 1
  BY DEF QInv, StoresInv
<1>1. CASE ev' = ev
  BY <1>0, <1>1 DEF FirstConn, Active
<1>2. ASSUME NEW r \in reqs, RequestStep(r) \/ Timeout(r) \/ MemUsageExceeded(r) \/ Refuse(r)
      PROVE  FirstConn'
  <2>1. \/ ev' = ev
        \/ r.tag = 0 /\ \E res : ev' = [ev EXCEPT ![r.id] = Answered(@, res)]
    <3>1. ASSUME NEW res, Reply(r, res)
          PROVE  ev' = ev \/ (r.tag = 0 /\ ev' = [ev EXCEPT ![r.id] = Answered(@, res)])
      BY <3>1 DEF Reply
    <3>2. CASE RequestStep(r)
      BY <3>1, <3>2 DEF RequestStep, ConnectionLost, Deliver, Execute
    <3>3. CASE Timeout(r) \/ MemUsageExceeded(r) \/ Refuse(r)
      BY <3>1, <3>3 DEF Timeout, MemUsageExceeded, Refuse
    <3>4. QED
      BY <1>2, <3>2, <3>3
  <2>2. QED
    BY <1>0, <1>1, <2>1, FirstConnReply
<1>3. ASSUME NEW t \in failed, ProcessFailedDbPt(t) PROVE FirstConn'
  <2>1. \/ ev' = ev
        \/ \E n \in TakeOverNodes(t) :
                AddEvent(NewEvent("Assign", NoNode, n, dn[n].alive, t.pt, 0))
    BY <1>3 DEF ProcessFailedDbPt
  <2>2. ASSUME NEW n \in TakeOverNodes(t),
               AddEvent(NewEvent("Assign", NoNode, n, dn[n].alive, t.pt, 0))
        PROVE  FirstConn'
    <3>1. n \in Nodes
      BY DEF TakeOverNodes, Parts, LeaderTyped
    <3>2. NewEvent("Assign", NoNode, n, dn[n].alive, t.pt, 0).conn = 1
      BY <1>0, <3>1 DEF NewEvent
    <3>3. QED
      BY <1>0, <2>2, <3>2, FirstConnAdd
  <2>3. QED
    BY <1>1, <2>1, <2>2
<1>4. ASSUME NEW n \in Nodes, StartMove(n) PROVE FirstConn'
  <2>1. NewEvent("Move", ptView.owner, n, dn[n].alive, ptView, 0).conn = 1
    BY <1>0 DEF NewEvent
  <2>2. QED
    BY <1>0, <1>4, <2>1, FirstConnAdd DEF StartMove
<1>5. ASSUME NEW n \in Nodes, MemberStep(n) \/ Crash(n) PROVE ev' = ev
  BY <1>5 DEF MemberStep, MemberFailed, MemberJoin, TakeoverDbPts, Crash, msmVars
<1>6. CASE Environment
  BY <1>1, <1>2, <1>4, <1>5, <1>6, NoneReturns, NoLeaderChange DEF Environment
<1>7. CASE Next
  BY <1>0, <1>1, <1>2, <1>3, <1>5, <1>6, <1>7, FirstConnEvent, NoLeaderChange DEF Next
<1>8. CASE UNCHANGED vars
  BY <1>1, <1>8 DEF vars, msmVars
<1>9. QED
  BY <1>7, <1>8

-----------------------------------------------------------------------------
(* Commands.                                                               *)

\* The parts of QInv about commands.
ReqsInv == OfActive /\ OneRuns

\* While the active event has no command at a store, nobody has.
LEMMA NoRequests ==
    ASSUME OneActive, OfActive, NEW i \in EvIds, Active(i), ~Commanded(ev[i]) PROVE reqs = {}
BY DEF OneActive, OfActive, OfEvent

\* ... and while no event is active.
LEMMA NoRequestsIdle ==
    ASSUME OneActive, OfActive, inMap = 0 PROVE reqs = {}
BY EvIdsAssumption DEF OneActive, OfActive

\* No commands, nothing to show.
LEMMA Cleared == ASSUME reqs' = {} PROVE ReqsInv'
BY DEF ReqsInv, OfActive, OneRuns

\* Every request is of the active event.
LEMMA OfTheActive ==
    ASSUME OneActive, OfActive, NEW i \in EvIds, Active(i), NEW r \in reqs
    PROVE  OfEvent(r, ev[i])
BY DEF OneActive, OfActive

\* sendMigrateCommand: an event without commands, or with the same ones.
LEMMA SendReqs ==
    ASSUME Parts, SInv, QInv, NEW i \in EvIds, Active(i), ev[i].mode # "wait",
           NEW e, GoodEvent(e), SendMigrateCommand(i, e), up' = up,
           e.cur = ev[i].cur, e.type = ev[i].type, e.dst = ev[i].dst, e.src = ev[i].src
    PROVE  ReqsInv'
<1>1. Running /\ OneActive /\ OfActive /\ OneRuns
  BY DEF SInv, Steady, QInv
<1>2. PICK d : /\ ev' = [ev EXCEPT ![i] = d] /\ GoodEvent(d) /\ SameEvent(e, d)
               /\ \/ /\ d.mode = "wait" /\ d.cur = e.cur
                     /\ reqs' = reqs \cup {Request(i, e)}
                  \/ /\ Transits(e, d, FALSE) /\ reqs' = reqs
                     /\ up[Target(e)] => Spend("noconn")
  BY <1>1, SendShape
<1>3. ev'[i] = d /\ d # NoEvent /\ Target(e) = Target(ev[i])
  BY <1>2, GoodIsEvent DEF Parts, EvTyped, Target
<1>4. \A r \in reqs : r.exec /\ OfEvent(r, ev[i])
  <2>1. \A r \in reqs : r.tag # 0
    <3>1. \A r \in reqs : r.tag = 0 => /\ ev[r.id].mode = "wait" /\ r.id \in EvIds
                                       /\ ev[r.id] # NoEvent
      BY DEF Parts, OneCommand, ReqTyped, RequestType
    <3>2. \A j \in EvIds : Active(j) => j = i
      BY <1>1 DEF OneActive
    <3>3. QED
      BY <3>1, <3>2 DEF Active
  <2>2. QED
    BY <1>1, <2>1, OfTheActive DEF OfActive
<1>5. CASE d.mode = "wait" /\ d.cur = e.cur /\ reqs' = reqs \cup {Request(i, e)}
  <2>1. PICK q : q = Request(i, e)
    OBVIOUS
  <2>2. /\ q.tag = 0 /\ q.exec = FALSE /\ q.kind \in {e.cur, "lost"} /\ q.node = Target(e)
    BY <2>1 DEF Request
  <2>3. Target(d) = Target(e)
    BY <1>2, <1>5 DEF Target, SameEvent
  <2>4. Active(i)' /\ \A r \in reqs' : OfEvent(r, ev'[i])
    BY <1>3, <1>4, <1>5, <2>1, <2>2, <2>3 DEF Active, OfEvent, Commanded
  <2>5. OfActive'
    BY <1>4, <1>5, <2>1, <2>2, <2>4 DEF OfActive
  <2>6. OneRuns'
    BY <1>1, <1>5, <2>1, <2>2 DEF OneRuns
  <2>7. QED
    BY <2>5, <2>6 DEF ReqsInv
<1>6. CASE Transits(e, d, FALSE) /\ reqs' = reqs /\ (up[Target(e)] => Spend("noconn"))
  <2>1. ~up[Target(e)]
    BY <1>6, NoneReturns
  <2>2. reqs = {}
    BY <1>3, <1>4, <2>1 DEF OfEvent, SInv, ReqInv
  <2>3. QED
    BY <1>6, <2>2, Cleared
<1>7. QED
  BY <1>2, <1>5, <1>6

\* A step of an event.
LEMMA EventReqs ==
    ASSUME Parts, SInv, QInv, NEW i \in EvIds, EventStep(i) PROVE ReqsInv'
<1> DEFINE e == ev[i]
<1>0. OneActive /\ OfActive /\ OneRuns
  BY DEF SInv, QInv
<1>1. CASE DeleteEvent(i)
  <2>1. /\ e.mode = "del" /\ ev' = [ev EXCEPT ![i] = NoEvent] /\ reqs' = reqs
    BY <1>1 DEF DeleteEvent
  <2>2. \A j \in EvIds : Active(j) => Active(j)' /\ ev'[j] = ev[j]
    BY <2>1 DEF Parts, EvTyped, Active
  <2>3. OfActive'
    BY <1>0, <2>1, <2>2 DEF OfActive
  <2>4. QED
    BY <1>0, <2>1, <2>3 DEF ReqsInv, OneRuns
<1>2. CASE \/ StoreTransitionState(i) \/ AssignInit(i) \/ MoveCreate(i) \/ MoveInit(i)
           \/ MoveOffloaded(i) \/ AssignedHandler(i) \/ LastHandler(i)
  <2>1. e # NoEvent /\ e.mode = "run" /\ reqs' = reqs
    BY <1>2 DEF StoreTransitionState, AssignInit, MoveCreate, MoveInit, MoveOffloaded,
                AssignedHandler, LastHandler, AtHandler
  <2>2. reqs = {}
    BY <1>0, <2>1, NoRequests DEF Active, Commanded
  <2>3. QED
    BY <2>1, <2>2, Cleared
<1>3. CASE Retry(i) \/ MoveSend(i)
  <2>1. e # NoEvent /\ e.mode \in {"run", "retry"} /\ SendMigrateCommand(i, e) /\ up' = up
    BY <1>3 DEF Retry, MoveSend, AtHandler, storeVars
  <2>2. Active(i) /\ GoodEvent(e)
    BY <2>1, EvGood DEF Active, Parts
  <2>3. QED
    BY <2>1, <2>2, SendReqs
<1>4. CASE AssignHandler(i)
  <2>1. e # NoEvent /\ e.mode = "run" /\ up' = up
    BY <1>4 DEF AssignHandler, AssignTo, AtHandler, storeVars
  <2>2. Active(i) /\ GoodEvent(e)
    BY <2>1, EvGood DEF Active, Parts
  <2>3. PICK d : d = [e EXCEPT !.pt.owner = e.dst]
    OBVIOUS
  <2>4. [e.pt EXCEPT !.owner = e.dst] \in PtType
    BY <2>2 DEF GoodEvent, EventType, PtType
  <2>5. GoodEvent(d) /\ d.cur = e.cur /\ d.type = e.type /\ d.dst = e.dst /\ d.src = e.src
    BY <2>2, <2>3, <2>4 DEF GoodEvent, WellFormed, EventType
  <2>6. SendMigrateCommand(i, d) \/ reqs' = reqs
    BY <1>4, <2>3 DEF AssignHandler, AssignTo
  <2>7. CASE reqs' = reqs
    BY <1>0, <2>1, <2>2, <2>7, NoRequests, Cleared DEF Commanded
  <2>8. QED
    BY <2>1, <2>2, <2>5, <2>6, <2>7, SendReqs
<1>5. QED
  BY <1>1, <1>2, <1>3, <1>4, NoLeaderChange DEF EventStep

\* The requests do not change, and neither does an active event.
LEMMA SameReqs ==
    ASSUME QInv, reqs' = reqs, ev' = ev PROVE ReqsInv'
BY DEF QInv, ReqsInv, OfActive, OneRuns, Active

\* A new event.
LEMMA AddReqs ==
    ASSUME SInv, QInv, inMap = 0, reqs' = reqs PROVE ReqsInv'
BY NoRequestsIdle, Cleared DEF SInv, QInv

\* The leader stops waiting for r, and r may go on alone.
LEMMA AnswerReqs ==
    ASSUME Parts, SInv, QInv, NEW r \in reqs, r.tag = 0, NEW res,
           ev' = [ev EXCEPT ![r.id] = Answered(@, res)],
           NEW S, reqs' = (reqs \ {r}) \cup S,
           \A q \in S : /\ q.kind = r.kind /\ q.node = r.node /\ q.exec /\ r.exec,
           \A p, q \in S : p = q,
           res \in FinalAnswers => r.exec /\ S = {},
           S # {} => up[r.node]
    PROVE  ReqsInv'
<1> DEFINE e == ev[r.id]
<1>1. r.id \in EvIds /\ e # NoEvent /\ e.mode = "wait"
  BY DEF Parts, ReqTyped, RequestType, OneCommand
<1>2. GoodEvent(e) /\ Active(r.id) /\ Running /\ OneActive /\ OfActive /\ OneRuns
  BY <1>1, EvGood DEF Parts, Active, SInv, Steady, QInv
<1>3. PICK d : d = Answered(e, res)
  OBVIOUS
<1>4. /\ GoodEvent(d) /\ d # NoEvent /\ SameEvent(e, d)
      /\ \/ /\ Transits(e, d, res = "ok")
            /\ res \in FinalAnswers \/ Target(e) \notin members
         \/ Requeued(e, d)
  BY <1>2, <1>3, AnsweredCases
<1>5. ev'[r.id] = d
  BY <1>1, <1>3 DEF Parts, EvTyped
<1>6. \A q \in reqs : OfEvent(q, e)
  BY <1>1, <1>2, OfTheActive
<1>7. \A q \in reqs \ {r} : q.exec
  <2>1. \A q \in reqs \ {r} : q.tag # 0
    <3>1. \A q \in reqs : q.tag = 0 => /\ ev[q.id].mode = "wait" /\ q.id \in EvIds
                                       /\ ev[q.id] # NoEvent
      BY DEF Parts, OneCommand, ReqTyped, RequestType
    <3>2. \A j \in EvIds : Active(j) => j = r.id
      BY <1>1, <1>2 DEF OneActive
    <3>3. QED
      BY <3>1, <3>2 DEF Active, Parts, OneCommand
  <2>2. QED
    BY <1>2, <2>1 DEF OfActive
<1>8. CASE Requeued(e, d)
  <2>1. d.cur = e.cur /\ d.mode = "retry" /\ Target(d) = Target(e)
    BY <1>4, <1>8 DEF Requeued, SameEvent, Target
  <2>2. \A q \in reqs' : q.exec /\ OfEvent(q, d)
    BY <1>6, <1>7, <2>1 DEF OfEvent, Commanded
  <2>3. OfActive'
    BY <1>1, <1>4, <1>5, <2>1, <2>2 DEF OfActive, Active
  <2>4. OneRuns'
    BY <1>2, <1>7 DEF OneRuns
  <2>5. QED
    BY <2>3, <2>4 DEF ReqsInv
<1>9. CASE res \in FinalAnswers
  <2>1. reqs' = {}
    BY <1>2, <1>7, <1>9 DEF OneRuns
  <2>2. QED
    BY <2>1, Cleared
<1>10. CASE Target(e) \notin members
  <2>1. Target(e) \in Nodes
    BY <1>2, TargetType
  <2>2. ~up[Target(e)]
    BY <1>10, <2>1 DEF QInv, StoresInv
  <2>3. reqs \ {r} = {} /\ S = {}
    BY <1>6, <1>7, <2>2 DEF OfEvent, SInv, ReqInv
  <2>4. QED
    BY <2>3, Cleared
<1>11. QED
  BY <1>4, <1>8, <1>9, <1>10

\* A store answers.
LEMMA ReplyReqs ==
    ASSUME Parts, SInv, QInv, NEW r \in reqs, NEW res, Reply(r, res),
           res \in FinalAnswers => r.exec
    PROVE  ReqsInv'
<1>1. CASE r.tag = 0
  <2>1. reqs' = reqs \ {r} /\ ev' = [ev EXCEPT ![r.id] = Answered(@, res)]
    BY <1>1 DEF Reply
  <2>2. PICK S : S = {}
    OBVIOUS
  <2>3. reqs' = (reqs \ {r}) \cup S
    BY <2>1, <2>2
  <2>4. /\ \A q \in S : /\ q.kind = r.kind /\ q.node = r.node /\ q.exec /\ r.exec
        /\ \A p, q \in S : p = q
    BY <2>2
  <2>5. QED
    BY <1>1, <2>1, <2>2, <2>3, <2>4, AnswerReqs
<1>2. CASE r.tag # 0
  <2>1. reqs' = reqs \ {r} /\ ev' = ev
    BY <1>2 DEF Reply
  <2>2. QED
    BY <2>1 DEF QInv, ReqsInv, OfActive, OneRuns, Active
<1>3. QED
  BY <1>1, <1>2

\* The store takes a command up while it carries no other one out.
LEMMA DeliverReqs == ASSUME Parts, SInv, QInv, NEW r \in reqs, Deliver(r) PROVE ReqsInv'
<1>1. r.node \in Nodes /\ r.id \in EvIds /\ r.kind # "lost" /\ ~r.exec
  BY DEF Parts, ReqTyped, RequestType, Deliver
<1>2. CASE r.kind \in {"PreAssign", "Assign"} /\ r.conn # conn[r.node]
  <2>1. r.tag = 0
    BY <1>1 DEF QInv, OfActive
  <2>2. Active(r.id)
    BY <1>1, <2>1 DEF Active, Parts, OneCommand
  <2>3. r.conn = 1 /\ conn[r.node] = 1
    BY <1>1, <2>1, <2>2 DEF SInv, ReqInv, QInv, FirstConn, StoresInv
  <2>4. QED
    BY <1>2, <2>3
<1>3. CASE Reply(r, "migrating")
  BY <1>3, ReplyReqs DEF FinalAnswers
<1>4. CASE /\ ~Migrating(r.node) /\ ev' = ev
           /\ reqs' = (reqs \ {r}) \cup {[r EXCEPT !.exec = TRUE]}
  <2>1. PICK q : q = [r EXCEPT !.exec = TRUE]
    OBVIOUS
  <2>2. /\ q.kind = r.kind /\ q.node = r.node /\ q.exec
    BY <2>1 DEF Parts, ReqTyped, RequestType
  <2>3. PICK i \in EvIds : Active(i) /\ OfEvent(r, ev[i])
    BY DEF QInv, OfActive
  <2>4. OfEvent(q, ev[i])
    BY <2>2, <2>3 DEF OfEvent
  <2>5. \A p \in reqs : ~p.exec
    <3>1. \A p \in reqs : p.node = r.node
      BY <2>3, OfTheActive DEF SInv, QInv, OfEvent
    <3>2. QED
      BY <1>4, <3>1 DEF Migrating
  <2>6. OfActive'
    BY <1>4, <2>1, <2>2, <2>3, <2>4 DEF QInv, OfActive, Active
  <2>7. OneRuns'
    BY <1>4, <2>1, <2>5 DEF OneRuns
  <2>8. QED
    BY <2>6, <2>7 DEF ReqsInv
<1>5. QED
  BY <1>2, <1>3, <1>4 DEF Deliver

\* The store goes on with a command whose answer is late.
LEMMA TimeoutReqs == ASSUME Parts, SInv, QInv, NEW r \in reqs, Timeout(r) PROVE ReqsInv'
<1> DEFINE q == [r EXCEPT !.tag = OrphanTag]
<1>1. /\ r.tag = 0 /\ r.kind # "lost" /\ ev' = [ev EXCEPT ![r.id] = Answered(@, "timeout")]
      /\ reqs' = (reqs \ {r}) \cup (IF r.exec THEN {q} ELSE {})
  BY DEF Timeout
<1>2. q.kind = r.kind /\ q.node = r.node /\ q.exec = r.exec
  BY DEF Parts, ReqTyped, RequestType
<1>3. up[r.node]
  BY <1>1 DEF SInv, ReqInv
<1> HIDE DEF q
<1>4. PICK S : S = IF r.exec THEN {q} ELSE {}
  OBVIOUS
<1>5. reqs' = (reqs \ {r}) \cup S
  BY <1>1, <1>4
<1>6. /\ \A p \in S : /\ p.kind = r.kind /\ p.node = r.node /\ p.exec /\ r.exec
      /\ \A o, p \in S : o = p
  BY <1>2, <1>4
<1>7. "timeout" \notin FinalAnswers
  BY DEF FinalAnswers
<1>8. QED
  BY <1>1, <1>3, <1>5, <1>6, <1>7, AnswerReqs

\* A store dies with its commands.
LEMMA CrashReqs == ASSUME Parts, SInv, QInv, NEW n \in Nodes, Crash(n) PROVE ReqsInv'
<1> DEFINE l(r) == [r EXCEPT !.kind = "lost", !.exec = FALSE]
           W == {q \in reqs : q.node = n /\ q.tag = 0}
<1>1. ev' = ev /\ reqs' = {r \in reqs : r.node # n} \cup {l(r) : r \in W}
  BY DEF Crash, msmVars
<1>2. \A r \in W : l(r).kind = "lost" /\ l(r).exec = FALSE /\ l(r).node = r.node /\ l(r).tag = r.tag
  BY DEF Parts, ReqTyped, RequestType
<1> HIDE DEF l
<1>3. \A r \in reqs' : \/ r \in reqs
                       \/ \E q \in W : r = l(q)
  BY <1>1
<1>4. \A r \in reqs' : (r.tag # 0 => r.exec) /\ (r.exec => r \in reqs)
  BY <1>2, <1>3 DEF QInv, OfActive
<1>5. ASSUME NEW r \in reqs' PROVE \E i \in EvIds : Active(i) /\ OfEvent(r, ev[i])
  <2>1. CASE r \in reqs
    BY <2>1 DEF QInv, OfActive
  <2>2. CASE \E q \in W : r = l(q)
    <3>1. PICK q \in W : r = l(q)
      BY <2>2
    <3>2. PICK i \in EvIds : Active(i) /\ OfEvent(q, ev[i])
      BY DEF QInv, OfActive
    <3>3. OfEvent(r, ev[i])
      BY <1>2, <3>1, <3>2 DEF OfEvent
    <3>4. QED
      BY <3>2, <3>3
  <2>3. QED
    BY <1>3, <2>1, <2>2
<1>6. OfActive'
  BY <1>1, <1>4, <1>5 DEF OfActive, Active
<1>7. OneRuns'
  BY <1>4 DEF QInv, OneRuns
<1>8. QED
  BY <1>6, <1>7 DEF ReqsInv

\* Every step.
LEMMA ReqsStep == ASSUME Parts, SInv, QInv, [Next]_vars PROVE ReqsInv'
<1>1. ASSUME NEW r \in reqs, RequestStep(r) \/ Timeout(r) \/ MemUsageExceeded(r) \/ Refuse(r)
      PROVE  ReqsInv'
  <2>1. ASSUME ConnectionLost(r) \/ Execute(r) \/ MemUsageExceeded(r) \/ Refuse(r) PROVE ReqsInv'
    <3>1. \E res : Reply(r, res) /\ (res \in FinalAnswers => r.exec)
      BY <2>1 DEF ConnectionLost, Execute, MemUsageExceeded, Refuse, FinalAnswers
    <3>2. QED
      BY <3>1, ReplyReqs
  <2>2. QED
    BY <1>1, <2>1, DeliverReqs, TimeoutReqs DEF RequestStep
<1>2. ASSUME NEW t \in failed, ProcessFailedDbPt(t) PROVE ReqsInv'
  BY <1>2, SameReqs, AddReqs DEF ProcessFailedDbPt
<1>3. ASSUME NEW n \in Nodes, StartMove(n) PROVE ReqsInv'
  BY <1>3, AddReqs DEF StartMove
<1>4. ASSUME NEW n \in Nodes, MemberStep(n) PROVE ReqsInv'
  BY <1>4, SameReqs DEF MemberStep, MemberFailed, MemberJoin, TakeoverDbPts, msmVars
<1>5. CASE Environment
  BY <1>1, <1>3, <1>5, CrashReqs, NoneReturns, NoLeaderChange DEF Environment
<1>6. CASE Next
  BY <1>1, <1>2, <1>4, <1>5, <1>6, EventReqs, NoLeaderChange DEF Next
<1>7. CASE UNCHANGED vars
  BY <1>7, SameReqs DEF vars, msmVars
<1>8. QED
  BY <1>6, <1>7

-----------------------------------------------------------------------------
\* At first every store is up and has registered once.
LEMMA InitQInv == ASSUME NoReturn, Init PROVE QInv
<1>1. /\ reqs = {} /\ members = Nodes /\ handler = [n \in Nodes |-> "none"]
      /\ dn = [n \in Nodes |-> [status |-> "Alive", alive |-> 1]]
      /\ ev = [i \in EvIds |-> NoEvent]
      /\ up = [n \in Nodes |-> TRUE] /\ conn = [n \in Nodes |-> 1] /\ budget = Budget
  BY DEF Init
<1>2. NoneBack /\ StoresInv
  BY <1>1 DEF NoneBack, NoReturn, StoresInv
<1>3. FirstConn /\ OfActive /\ OneRuns
  BY <1>1 DEF FirstConn, Active, OfActive, OneRuns
<1>4. QED
  BY <1>2, <1>3 DEF QInv

\* Every step.
LEMMA StepQInv == ASSUME Parts, SInv, QInv, Parts', [Next]_vars PROVE QInv'
BY NoneBackStep, StoresStep, FirstConnStep, ReqsStep DEF QInv, ReqsInv

\* Stores that do not come back: all requests are commands of the active event in its
\* present state, and at most one is being carried out.
THEOREM NoReturnInvariant == ASSUME NoReturn PROVE Spec => [](IInv /\ SInv /\ QInv)
<1>1. Init => Parts /\ SInv /\ QInv
  BY InitIInv, InitSafe, InitQInv DEF NoReturn, StableLeader
<1>2. Parts /\ SInv /\ QInv /\ [Next]_vars => (Parts /\ SInv /\ QInv)'
  BY StepIInv, StepSafe, StepQInv
<1>3. Parts /\ SInv /\ QInv => IInv /\ SInv /\ QInv
  BY PartsAreIInv
<1>4. QED
  BY <1>1, <1>2, <1>3, PTL DEF Spec

\* The store that loads the PT is given it, Offline.
LEMMA LoadsGiven ==
    ASSUME Parts, SInv, QInv, NEW r \in reqs, r.exec, r.kind = "Assign"
    PROVE  ptView.owner = r.node /\ ptView.status = "Offline"
<1>1. PICK i \in EvIds : Active(i) /\ OfEvent(r, ev[i])
  BY DEF QInv, OfActive
<1>2. ev[i].cur = "Assign" /\ Commanded(ev[i]) /\ r.node = ev[i].dst
  BY <1>1 DEF OfEvent, Target
<1>3. QED
  BY <1>1, <1>2 DEF SInv, SeesInv, Sees, GivenTo

\* A store that loads the PT carries out the assign command of the active event.
LEMMA LoadStep ==
    ASSUME Parts, SInv, QInv, [Next]_vars, NEW n \in Nodes, ~Loaded(n), Loaded(n)'
    PROVE  ptView.owner = n /\ ptView.status = "Offline"
<1>1. CASE eng' = eng
  BY <1>1 DEF Loaded
<1>2. ASSUME NEW r \in reqs, Execute(r) PROVE ptView.owner = n /\ ptView.status = "Offline"
  <2>1. eng' = [eng EXCEPT ![r.node] = Executed(r, @)] /\ r.exec
    BY <1>2 DEF Execute
  <2>2. n = r.node /\ Executed(r, eng[n]).st = "loaded"
    BY <2>1 DEF Loaded, Parts, StoreTyped, ReqTyped, RequestType
  <2>3. r.kind = "Assign"
    BY <2>2 DEF Executed, Loaded, NoPt, Parts, StoreTyped
  <2>4. QED
    BY <2>1, <2>2, <2>3, LoadsGiven
<1>3. ASSUME \/ \E r \in reqs : Refuse(r)
             \/ \E m \in Nodes : Crash(m)
      PROVE  FALSE
  <2>1. eng' = eng \/ \E m \in Nodes : eng' = [eng EXCEPT ![m] = NoPt]
    BY <1>3 DEF Refuse, Crash, Parts, ReqTyped, RequestType
  <2>2. QED
    BY <2>1 DEF Loaded, NoPt, Parts, StoreTyped
<1>4. ASSUME NEW i \in EvIds, EventStep(i) PROVE eng' = eng
  BY <1>4 DEF EventStep, Retry, NotRunning, StoreTransitionState, AssignInit, MoveCreate, MoveInit,
              MoveSend, MoveOffloaded, AssignHandler, AssignTo, AssignedHandler, LastHandler,
              DeleteEvent, storeVars
<1>5. ASSUME NEW r \in reqs, ConnectionLost(r) \/ Deliver(r) \/ Timeout(r) \/ MemUsageExceeded(r)
      PROVE  eng' = eng
  BY <1>5 DEF ConnectionLost, Deliver, Timeout, MemUsageExceeded, storeVars
<1>6. ASSUME \/ \E t \in failed : ProcessFailedDbPt(t)
             \/ \E m \in Nodes : StartMove(m) \/ MemberStep(m)
      PROVE  eng' = eng
  BY <1>6 DEF ProcessFailedDbPt, StartMove, MemberStep, MemberFailed, MemberJoin, TakeoverDbPts,
              storeVars
<1>7. CASE Environment
  BY <1>1, <1>3, <1>5, <1>6, <1>7, NoneReturns, NoLeaderChange DEF Environment
<1>8. CASE Next
  BY <1>1, <1>2, <1>4, <1>5, <1>6, <1>7, <1>8, NoLeaderChange DEF Next, RequestStep
<1>9. CASE UNCHANGED vars
  BY <1>1, <1>9 DEF vars, storeVars
<1>10. QED
  BY <1>8, <1>9

\* Stores that do not come back: a store loads the PT in its Assign handler only while the
\* meta data says that it owns the PT and that the PT is Offline, however many answers were
\* late and however many stores died.
THEOREM LoadsOwnPt == ASSUME NoReturn PROVE Spec => LoadedByOwner
<1>1. Init => Parts /\ SInv /\ QInv
  BY InitIInv, InitSafe, InitQInv DEF NoReturn, StableLeader
<1>2. Parts /\ SInv /\ QInv /\ [Next]_vars => (Parts /\ SInv /\ QInv)'
  BY StepIInv, StepSafe, StepQInv
<1>3. Parts /\ SInv /\ QInv /\ [Next]_vars
      => [\A n \in Nodes : ~Loaded(n) /\ Loaded(n)' =>
            ptView.owner = n /\ ptView.status = "Offline"]_vars
  BY LoadStep
<1>4. QED
  BY <1>1, <1>2, <1>3, PTL DEF Spec, LoadedByOwner

-----------------------------------------------------------------------------
(* One store dies: who has the PT loaded.                                  *)

\* Stores never run out of memory and only one of them dies.
OneCrash == Budget["crash"] <= 1 /\ Budget["memfull"] = 0

\* pt is what the meta data said of a PT whose owner has died.
LostPt(pt, u) == ~u[pt.owner] /\ pt.status = "Offline"

\* Store n has the PT loaded.
LoadedIn(g, n) == g[n].st = "loaded"

\* At most one store is down, and then no other will die.
OneDown ==
    /\ \A m, n \in Nodes : ~up[m] /\ ~up[n] => m = n
    /\ \A n \in Nodes : ~up[n] => budget["crash"] = 0
    /\ budget["crash"] <= 1 /\ budget["memfull"] = 0

\* What is persisted of the active event e: nothing before its initial state is done,
\* and then a state beyond it once e has transited.
Recorded(e, s) ==
    /\ e.op = 0 => e.cur = "Init" /\ ~e.persist
    /\ e.type = "Assign" /\ e.cur = "Init" => e.op = 0
    /\ e.persist => e.cur # "Init"
    /\ e.op # 0 /\ ~e.persist /\ s.cur = "Init" =>
            e.cur \in IF e.type = "Assign" THEN {"Assign"} ELSE {"Init", "PreOffload"}

\* The event has been persisted.
HasOp(i) == ev[i] # NoEvent /\ ev[i].op # 0

\* At most one event has an opId, that of the persisted event, and when it leaves no
\* other event can be mistaken for the persisted one.
OpsInv ==
    /\ \A i \in EvIds : HasOp(i) => stored # NoEvent /\ stored.op = ev[i].op
    /\ \A i, j \in EvIds : HasOp(i) /\ HasOp(j) => i = j
    /\ \A i \in EvIds : Active(i) => Recorded(ev[i], stored)
    /\ \A i \in EvIds : HasOp(i) /\ ev[i].mode = "del" => stored.cur # "Init"

\* A takeover, and an event that will ask for one, are about the store that died.
TasksInv ==
    /\ \A t \in failed : LostPt(t.pt, up)
    /\ \A i \in EvIds : ev[i] # NoEvent /\ ev[i].mode = "del" /\ Cares(ev[i])
            => LostPt(ev[i].pt, up)

\* What an event knows of the PT v, the stores u and their engines g.
AssignKnows(e, v, u) ==
    /\ e.type = "Assign" /\ e.cur \in {"Init", "Assign"} /\ ~Commanded(e)
            => ~u[v.owner] /\ LostPt(e.pt, u)
    /\ e.cur = "AssignFailed" => ~u[e.dst] /\ GivenTo(e, v)

\* A move, until it took the PT Offline, finds it with src; then src has let go of it.
MoveKnows(e, v, u, g) == e.type = "Move" =>
    /\ e.cur \notin LateStates => /\ v.owner = e.src /\ e.pt.status = "Online"
                                  /\ v.status = "Offline" => ~u[e.src]
    /\ e.cur = "Offloaded" => ~LoadedIn(g, e.src)
    /\ e.cur = "Assign" /\ ~Commanded(e)
            => v.owner = e.src /\ e.pt.owner = e.src /\ ~LoadedIn(g, e.src)

\* An Online PT is loaded by its owner, but for the end of a move.
Served(e, v, u, g) ==
    v.status = "Online" => \/ LoadedIn(g, v.owner) \/ ~u[v.owner]
                           \/ e.type = "Move" /\ e.cur \in {"Offload", "Offloaded"}

\* A PT whose background tasks are disabled is being moved away.
Disabled(e, g) == \A n \in Nodes : LoadedIn(g, n) /\ ~g[n].bgr =>
    /\ e.type = "Move" /\ e.src = n
    /\ e.cur \in {"PreOffload", "PreAssign", "Offload", "RollbackPreOffload"}

\* All that holds while e is the active event.
Busy(e, v, u, g) ==
    /\ AssignKnows(e, v, u) /\ MoveKnows(e, v, u, g)
    /\ e.cur = "Assigned" => LoadedIn(g, e.dst) \/ ~u[e.dst]
    /\ Served(e, v, u, g) /\ Disabled(e, g)

\* ... and while there is no event.
Idle(v, u, g) ==
    /\ u[v.owner] => v.status = "Online" /\ LoadedIn(g, v.owner)
    /\ \A n \in Nodes : LoadedIn(g, n) => g[n].bgr

\* Only the owner has the PT loaded, and the owner of an Online PT counts as alive.
OneOwner ==
    /\ \A n \in Nodes : LoadedIn(eng, n) => n = ptView.owner /\ up[n]
    /\ ptView.status = "Online" => dn[ptView.owner].status = "Alive"

\* Where the PT is, with an event and without one.
PlaceInv ==
    /\ \A i \in EvIds : Active(i) => Busy(ev[i], ptView, up, eng)
    /\ (\A i \in EvIds : ~Active(i)) => Idle(ptView, up, eng)
    /\ OneOwner

\* The invariant while one store dies and does not come back.
WInv == OneDown /\ OpsInv /\ TasksInv /\ PlaceInv

-----------------------------------------------------------------------------
\* A crash uses up the budget of crashes.
LEMMA OneDownStep ==
    ASSUME Parts, SInv, QInv, OneDown, Parts', [Next]_vars PROVE OneDown'
<1>1. BudgetFalls
  BY StepFalls
<1>2. /\ budget["crash"] \in Nat /\ budget'["crash"] \in Nat /\ budget'["crash"] <= budget["crash"]
      /\ budget'["memfull"] \in Nat /\ budget'["memfull"] <= budget["memfull"]
  BY <1>1 DEF BudgetFalls, Parts, BudgetTyped, Kinds
<1>3. CASE up' = up
  BY <1>2, <1>3 DEF OneDown
<1>4. ASSUME NEW n \in Nodes, Crash(n) PROVE OneDown'
  <2>1. budget["crash"] > 0 /\ budget'["crash"] = budget["crash"] - 1
    BY <1>4 DEF Crash, Spend, Parts, BudgetTyped, Kinds
  <2>2. budget["crash"] = 1 /\ budget'["crash"] = 0 /\ \A m \in Nodes : up[m]
    BY <1>2, <2>1 DEF OneDown
  <2>3. \A m \in Nodes : ~up'[m] => m = n
    BY <1>4, <2>2 DEF Crash, Parts, StoreTyped
  <2>4. QED
    BY <1>2, <2>2, <2>3 DEF OneDown
<1>5. ASSUME NEW i \in EvIds, EventStep(i) PROVE up' = up
  BY <1>5 DEF EventStep, Retry, NotRunning, StoreTransitionState, AssignInit, MoveCreate, MoveInit,
              MoveSend, MoveOffloaded, AssignHandler, AssignTo, AssignedHandler, LastHandler,
              DeleteEvent, storeVars
<1>6. ASSUME NEW r \in reqs, RequestStep(r) \/ Timeout(r) \/ MemUsageExceeded(r) \/ Refuse(r)
      PROVE  up' = up
  BY <1>6 DEF RequestStep, ConnectionLost, Deliver, Execute, Timeout, MemUsageExceeded, Refuse,
              storeVars
<1>7. ASSUME \/ \E t \in failed : ProcessFailedDbPt(t)
             \/ \E m \in Nodes : StartMove(m) \/ MemberStep(m)
      PROVE  up' = up
  BY <1>7 DEF ProcessFailedDbPt, StartMove, MemberStep, MemberFailed, MemberJoin, TakeoverDbPts,
              storeVars
<1>8. CASE Environment
  BY <1>3, <1>4, <1>6, <1>7, <1>8, NoneReturns, NoLeaderChange DEF Environment
<1>9. CASE Next
  BY <1>3, <1>5, <1>6, <1>7, <1>8, <1>9, NoLeaderChange DEF Next
<1>10. CASE UNCHANGED vars
  BY <1>3, <1>10 DEF vars, storeVars
<1>11. QED
  BY <1>9, <1>10

-----------------------------------------------------------------------------
(* Events and what they know.                                              *)

\* What an event that is sending its command knows.
Sending(e, v, u, g) ==
    /\ Ready(e, v)
    /\ e.type = "Move" /\ e.cur # "Assign" => /\ v.owner = e.src /\ e.pt.status = "Online"
                                              /\ v.status = "Offline" => ~u[e.src]
    /\ Served(e, v, u, g) /\ Disabled(e, g)

\* What the active event knows is enough for its command.
LEMMA BusySends ==
    ASSUME NEW e, GoodEvent(e), NEW v, NEW u, NEW g, Ready(e, v), Busy(e, v, u, g)
    PROVE  Sending(e, v, u, g)
BY DEF Sending, Busy, MoveKnows, Ready, SendStates, LateStates

\* ... and what it knows after the command was sent.
LEMMA SendsBusy ==
    ASSUME NEW e, GoodEvent(e), Commanded(e), NEW v, NEW u, NEW g, Sending(e, v, u, g)
    PROVE  Busy(e, v, u, g)
<1>1. e.cur \in SendStates /\ e.type \in {"Assign", "Move"} /\ (e.type = "Assign" => e.cur = "Assign")
  BY DEF Sending, Ready, GoodEvent, EventType, WellFormed, SendStates, AssignStates
<1>2. AssignKnows(e, v, u)
  BY <1>1 DEF AssignKnows, SendStates
<1>3. MoveKnows(e, v, u, g)
  BY <1>1 DEF MoveKnows, Sending, SendStates, LateStates
<1>4. QED
  BY <1>1, <1>2, <1>3 DEF Busy, Sending, SendStates

\* The next state of an event whose command was carried out, or whose store is dead.
LEMMA TransitBusy ==
    ASSUME NEW e, GoodEvent(e), NEW v, NEW u, NEW g, Sending(e, v, u, g),
           NEW d, SameEvent(e, d), NEW ok \in BOOLEAN, Transits(e, d, ok),
           ~ok => ~u[Target(e)],
           \A n \in Nodes : LoadedIn(g, n) => u[n],
           ok /\ e.cur = "Assign" => LoadedIn(g, e.dst),
           ok /\ e.cur = "Offload" => ~LoadedIn(g, e.src),
           ok /\ e.cur = "RollbackPreOffload" => (LoadedIn(g, e.src) => g[e.src].bgr)
    PROVE  Busy(d, v, u, g)
<1>1. e.cur \in SendStates /\ e.type \in {"Assign", "Move"} /\ (e.type = "Assign" => e.cur = "Assign")
  BY DEF Sending, Ready, GoodEvent, EventType, WellFormed, SendStates, AssignStates
<1>2. /\ d.mode = "run" /\ d.type = e.type /\ d.src = e.src /\ d.dst = e.dst /\ d.pt = e.pt
      /\ ~Commanded(d)
  BY DEF Transits, SameEvent, Commanded
<1>3. CASE e.cur = "Assign"
  <2>1. d.cur = IF ok THEN "Assigned" ELSE "AssignFailed"
    BY <1>3 DEF Transits, AssignTransition, MoveTransition
  <2>2. GivenTo(e, v)
    BY <1>3 DEF Sending, Ready
  <2>3. GivenTo(d, v)
    BY <1>2, <2>2 DEF GivenTo
  <2>4. ~ok => ~u[e.dst]
    BY <1>3 DEF Target
  <2>5. Disabled(d, g)
    BY <1>3 DEF Sending, Disabled
  <2>6. AssignKnows(d, v, u)
    BY <1>2, <2>1, <2>3, <2>4 DEF AssignKnows
  <2>7. MoveKnows(d, v, u, g)
    BY <2>1 DEF MoveKnows, LateStates
  <2>8. Served(d, v, u, g)
    BY <2>3 DEF Served, GivenTo
  <2>9. QED
    BY <1>2, <1>3, <2>1, <2>5, <2>6, <2>7, <2>8 DEF Busy
<1>4. CASE e.cur # "Assign"
  <2>1. e.type = "Move" /\ e.src \in Nodes
    BY <1>1, <1>4 DEF GoodEvent, WellFormed
  <2>2. /\ v.owner = e.src /\ e.pt.status = "Online" /\ (v.status = "Offline" => ~u[e.src])
    BY <1>4, <2>1 DEF Sending
  <2>3. d.cur = MoveTransition(e.cur, ok)
    BY <2>1 DEF Transits
  <2>4. d.cur \in {"PreAssign", "Offload", "RollbackPreOffload", "Offloaded", "Final"}
    BY <1>1, <1>4, <2>3 DEF MoveTransition, SendStates
  <2>5. d.cur = "Offloaded" => ~LoadedIn(g, e.src)
    <3>1. CASE e.cur = "Offload" /\ ok
      BY <3>1
    <3>2. CASE ~ok /\ e.cur \in {"PreOffload", "RollbackPreOffload", "Offload"}
      <4>1. Target(e) = e.src
        BY <2>1, <3>2 DEF Target
      <4>2. QED
        BY <2>1, <3>2, <4>1
    <3>3. QED
      BY <1>1, <1>4, <2>3, <3>1, <3>2 DEF MoveTransition, SendStates
  <2>6. MoveKnows(d, v, u, g)
    BY <1>2, <2>2, <2>4, <2>5 DEF MoveKnows, LateStates
  <2>7. AssignKnows(d, v, u)
    BY <1>2, <2>1, <2>4 DEF AssignKnows
  <2>8. Served(d, v, u, g)
    <3>1. e.cur = "Offload" => d.cur = "Offloaded"
      BY <2>3 DEF MoveTransition
    <3>2. e.cur # "Offloaded"
      BY <1>1 DEF SendStates
    <3>3. QED
      BY <1>2, <2>1, <3>1, <3>2 DEF Sending, Served
  <2>9. Disabled(d, g)
    <3>1. d.cur = "Final" => e.cur = "RollbackPreOffload" /\ ok
      BY <1>1, <1>4, <2>3 DEF MoveTransition, SendStates
    <3>2. QED
      BY <1>2, <2>1, <2>4, <2>5, <3>1 DEF Sending, Disabled
  <2>10. QED
    BY <2>4, <2>6, <2>7, <2>8, <2>9 DEF Busy
<1>5. QED
  BY <1>3, <1>4

\* All but OneDown, which is about the stores alone.
EventsInv == OpsInv /\ TasksInv /\ PlaceInv

\* The active event goes on.
LEMMA ActiveTasks ==
    ASSUME Parts, TasksInv, NEW i \in EvIds, NEW d, d.mode # "del",
           ev' = [ev EXCEPT ![i] = d], failed' = failed, up' = up
    PROVE  TasksInv'
<1>1. \A j \in EvIds : ev'[j] = IF j = i THEN d ELSE ev[j]
  BY DEF Parts, EvTyped
<1>2. QED
  BY <1>1 DEF TasksInv

\* The active event takes a step.
LEMMA ActivePlace ==
    ASSUME Parts, OneActive, NEW i \in EvIds, Active(i), NEW d, d # NoEvent, d.mode # "del",
           ev' = [ev EXCEPT ![i] = d], Busy(d, ptView', up', eng'), OneOwner'
    PROVE  PlaceInv'
<1>1. \A j \in EvIds : Active(j)' => j = i /\ ev'[j] = d
  BY OnlyActive DEF Parts
<1>2. Active(i)'
  BY DEF Parts, EvTyped, Active
<1>3. QED
  BY <1>1, <1>2 DEF PlaceInv

\* Its opId and what is persisted under it stay, but for a later state.
LEMMA ActiveOps ==
    ASSUME Parts, OpsInv, OneActive, NEW i \in EvIds, Active(i), NEW d, d # NoEvent, d.mode # "del",
           ev' = [ev EXCEPT ![i] = d], d.op = ev[i].op, Recorded(d, stored'),
           \/ stored' = stored
           \/ d.op # 0 /\ stored' # NoEvent /\ stored'.op = stored.op
    PROVE  OpsInv'
<1>1. \A j \in EvIds : ev'[j] = IF j = i THEN d ELSE ev[j]
  BY DEF Parts, EvTyped
<1>2. \A j \in EvIds : HasOp(j)' => HasOp(j) /\ ev'[j].op = ev[j].op
  BY <1>1 DEF HasOp, Active
<1>3. \A j \in EvIds : Active(j)' => j = i
  BY OnlyActive DEF Parts
<1>4. \A j \in EvIds : HasOp(j)' => stored' # NoEvent /\ stored'.op = ev'[j].op
  BY <1>2 DEF OpsInv
<1>5. \A j, k \in EvIds : HasOp(j)' /\ HasOp(k)' => j = k
  BY <1>2 DEF OpsInv
<1>6. \A j \in EvIds : Active(j)' => Recorded(ev'[j], stored')
  BY <1>1, <1>3
<1>7. ASSUME NEW j \in EvIds, HasOp(j)', ev'[j].mode = "del" PROVE stored'.cur # "Init"
  <2>1. j # i /\ ev'[j] = ev[j] /\ HasOp(j)
    BY <1>1, <1>2, <1>7
  <2>2. d.op = 0
    BY <1>1, <1>5, <1>7, <2>1 DEF HasOp
  <2>3. QED
    BY <2>1, <2>2, <1>7 DEF OpsInv
<1>8. QED
  BY <1>4, <1>5, <1>6, <1>7 DEF OpsInv

\* The active event leaves its loop.
LEMMA LeaveEvents ==
    ASSUME Parts, OneActive, OpsInv, TasksInv, NEW i \in EvIds, Active(i),
           NEW e, GoodEvent(e), Leave(i, e), e.op = ev[i].op,
           stored' = stored, failed' = failed, up' = up,
           e.op # 0 => stored.cur # "Init",
           e.err /\ IsReassignNeeded(e) => LostPt(e.pt, up),
           Idle(ptView', up', eng'), OneOwner'
    PROVE  EventsInv'
<1>1. PICK d : d = [e EXCEPT !.mode = "del"]
  OBVIOUS
<1>2. /\ GoodEvent(d) /\ d.mode = "del" /\ d.op = e.op /\ d.err = e.err /\ d.pt = e.pt
      /\ d.type = e.type /\ d.cur = e.cur
  BY <1>1 DEF GoodEvent, WellFormed, EventType
<1>3. ev' = [ev EXCEPT ![i] = d] /\ d # NoEvent
  BY <1>1, <1>2, GoodIsEvent DEF Leave
<1>4. \A j \in EvIds : ev'[j] = IF j = i THEN d ELSE ev[j]
  BY <1>3 DEF Parts, EvTyped
<1>5. \A j \in EvIds : ~Active(j)'
  BY <1>2, <1>3, OnlyActive DEF Parts
<1>6. \A j \in EvIds : HasOp(j)' => HasOp(j) /\ ev'[j].op = ev[j].op
  BY <1>2, <1>4 DEF HasOp, Active
<1>7. OpsInv'
  BY <1>2, <1>4, <1>5, <1>6 DEF OpsInv, HasOp
<1>8. TasksInv'
  <2>1. Cares(d) => LostPt(d.pt, up)
    BY <1>2 DEF Cares, IsReassignNeeded
  <2>2. QED
    BY <1>4, <2>1 DEF TasksInv
<1>9. PlaceInv'
  BY <1>5 DEF PlaceInv
<1>10. QED
  BY <1>7, <1>8, <1>9 DEF EventsInv

\* The active event fails: it may ask for a takeover only of a PT that was lost.
LEMMA FailEvents ==
    ASSUME Parts, OneActive, OpsInv, TasksInv, NEW i \in EvIds, Active(i),
           NEW e, GoodEvent(e), Fail(i, e), e.op = ev[i].op,
           stored' = stored, failed' = failed, up' = up,
           e.op # 0 => stored.cur # "Init",
           IsReassignNeeded(e) => LostPt(e.pt, up),
           Idle(ptView', up', eng'), OneOwner'
    PROVE  EventsInv'
<1>1. PICK d : d = [e EXCEPT !.err = TRUE]
  OBVIOUS
<1>2. /\ GoodEvent(d) /\ d.op = e.op /\ d.type = e.type /\ d.cur = e.cur /\ d.pt = e.pt
  BY <1>1 DEF GoodEvent, WellFormed, EventType
<1>3. Leave(i, d)
  BY <1>1 DEF Fail
<1>4. IsReassignNeeded(d) => LostPt(d.pt, up)
  BY <1>2 DEF IsReassignNeeded
<1>5. QED
  BY <1>2, <1>3, <1>4, LeaveEvents

\* sendMigrateCommand.
LEMMA SendEvents ==
    ASSUME Parts, SInv, QInv, EventsInv, NEW i \in EvIds, Active(i),
           NEW e, GoodEvent(e), SendMigrateCommand(i, e), e.op = ev[i].op,
           Recorded(e, stored), Sending(e, ptView', up, eng), OneOwner',
           stored' = stored, failed' = failed, UNCHANGED <<up, eng>>
    PROVE  EventsInv'
<1>1. Running /\ OneActive /\ OpsInv /\ TasksInv /\ e.cur # "Init"
  BY DEF SInv, Steady, EventsInv, Sending, Ready, SendStates
<1>2. PICK d : /\ ev' = [ev EXCEPT ![i] = d] /\ GoodEvent(d) /\ SameEvent(e, d)
               /\ \/ /\ d.mode = "wait" /\ d.cur = e.cur /\ d.persist = e.persist
                  \/ /\ Transits(e, d, FALSE)
                     /\ up[Target(e)] => Spend("noconn")
  BY <1>1, SendShape
<1>3. d # NoEvent /\ d.op = ev[i].op /\ d.type = e.type /\ d.src = e.src /\ d.dst = e.dst
      /\ d.pt = e.pt
  BY <1>2, GoodIsEvent DEF SameEvent
<1>4. CASE d.mode = "wait" /\ d.cur = e.cur /\ d.persist = e.persist
  <2>1. Recorded(d, stored')
    BY <1>3, <1>4 DEF Recorded
  <2>2. Sending(d, ptView', up, eng)
    BY <1>3, <1>4 DEF Sending, Ready, Served, Disabled, GivenTo
  <2>3. Busy(d, ptView', up', eng')
    BY <1>2, <1>4, <2>2, SendsBusy DEF Commanded
  <2>4. QED
    BY <1>1, <1>2, <1>3, <1>4, <2>1, <2>3, ActiveOps, ActiveTasks, ActivePlace DEF EventsInv
<1>5. CASE Transits(e, d, FALSE) /\ (up[Target(e)] => Spend("noconn"))
  <2>1. ~up[Target(e)]
    BY <1>5, NoneReturns
  <2>2. \A n \in Nodes : LoadedIn(eng, n) => up[n]
    BY DEF EventsInv, PlaceInv, OneOwner
  <2>3. Busy(d, ptView', up', eng')
    BY <1>2, <1>5, <2>1, <2>2, TransitBusy
  <2>4. d.mode = "run" /\ d.persist = TRUE /\ d.cur # "Init"
    <3>1. d.mode = "run" /\ d.persist = TRUE
          /\ d.cur = IF e.type = "Assign" THEN AssignTransition(e.cur, FALSE)
                     ELSE MoveTransition(e.cur, FALSE)
      BY <1>5 DEF Transits
    <3>2. e.cur \in SendStates
      BY DEF Sending, Ready
    <3>3. QED
      BY <3>1, <3>2 DEF AssignTransition, MoveTransition, SendStates
  <2>5. d.op # 0
    BY <1>1, <1>3 DEF Recorded
  <2>6. Recorded(d, stored')
    BY <2>4, <2>5 DEF Recorded
  <2>7. QED
    BY <1>1, <1>2, <1>3, <2>3, <2>4, <2>6, ActiveOps, ActiveTasks, ActivePlace DEF EventsInv
<1>6. QED
  BY <1>2, <1>4, <1>5

-----------------------------------------------------------------------------
(* The steps of an event.                                                  *)

\* What is known at the beginning of a step of the active event i.
LEMMA AtEvent ==
    ASSUME Parts, SInv, EventsInv, NEW i \in EvIds, ev[i] # NoEvent, ev[i].mode # "del"
    PROVE  /\ Active(i) /\ GoodEvent(ev[i]) /\ InPhase(ev[i]) /\ Sees(ev[i], ptView)
           /\ Recorded(ev[i], stored) /\ Busy(ev[i], ptView, up, eng)
           /\ OneActive /\ OpsInv /\ TasksInv /\ OneOwner /\ leader /\ Running
BY EvGood DEF Parts, Active, SInv, Steady, PhaseInv, SeesInv, EventsInv, OpsInv, PlaceInv

\* A command is sent, or sent again.
LEMMA ResendEvents ==
    ASSUME Parts, SInv, QInv, EventsInv, NEW i \in EvIds, Retry(i) \/ MoveSend(i)
    PROVE  EventsInv'
<1> DEFINE e == ev[i]
<1>1. /\ e # NoEvent /\ e.mode \in {"retry", "run"} /\ SendMigrateCommand(i, e)
      /\ ptView' = ptView /\ stored' = stored /\ failed' = failed /\ dn' = dn
      /\ UNCHANGED <<up, eng>>
  BY DEF Retry, MoveSend, AtHandler, metaVars, cmVars, storeVars
<1>2. /\ Active(i) /\ GoodEvent(e) /\ InPhase(e) /\ Sees(e, ptView)
      /\ Recorded(e, stored) /\ Busy(e, ptView, up, eng) /\ OneOwner
  BY <1>1, AtEvent
<1>3. Ready(e, ptView)
  <2>1. CASE Retry(i)
    BY <1>2, <2>1, CommandedReady DEF Retry, Commanded
  <2>2. CASE MoveSend(i)
    <3>1. /\ e.cur \in {"PreOffload", "RollbackPreOffload", "PreAssign", "Offload"}
          /\ ~e.persist
      BY <2>2 DEF MoveSend, AtHandler
    <3>2. e.type # "Assign"
      BY <1>2, <3>1 DEF GoodEvent, WellFormed, AssignStates
    <3>3. QED
      BY <1>2, <3>1, <3>2 DEF Sees, Ready, SendStates, LateStates
  <2>3. QED
    BY <2>1, <2>2
<1>4. Sending(e, ptView', up, eng) /\ OneOwner'
  BY <1>1, <1>2, <1>3, BusySends DEF OneOwner
<1>5. QED
  BY <1>1, <1>2, <1>4, SendEvents

\* storeTransitionState always finds the persisted event.
LEMMA StoreTransitionEvents ==
    ASSUME Parts, SInv, QInv, EventsInv, NEW i \in EvIds, StoreTransitionState(i)
    PROVE  EventsInv'
<1> DEFINE e == ev[i]
<1>1. /\ e # NoEvent /\ e.mode = "run" /\ e.persist
      /\ UNCHANGED <<ptView, dn, failed, up, eng>>
  BY DEF StoreTransitionState, cmVars, storeVars
<1>2. /\ Active(i) /\ GoodEvent(e) /\ Recorded(e, stored) /\ Busy(e, ptView, up, eng)
      /\ OneActive /\ OpsInv /\ TasksInv /\ OneOwner /\ leader
  BY <1>1, AtEvent
<1>3. e.op # 0 /\ e.cur # "Init"
  BY <1>1, <1>2 DEF Recorded
<1>4. stored # NoEvent /\ stored.op = e.op
  BY <1>1, <1>2, <1>3 DEF OpsInv, HasOp
<1>5. PICK d : d = [e EXCEPT !.persist = FALSE]
  OBVIOUS
<1>6. ev' = [ev EXCEPT ![i] = d] /\ stored' = [stored EXCEPT !.cur = e.cur]
  BY <1>2, <1>4, <1>5 DEF StoreTransitionState
<1>7. /\ GoodEvent(d) /\ d.mode = "run" /\ d.persist = FALSE /\ d.cur = e.cur
      /\ d.type = e.type /\ d.src = e.src /\ d.dst = e.dst /\ d.pt = e.pt /\ d.op = e.op
  BY <1>1, <1>2, <1>5 DEF GoodEvent, WellFormed, EventType
<1>8. d # NoEvent
  BY <1>7, GoodIsEvent
<1>9. stored' # NoEvent /\ stored'.op = stored.op /\ stored'.cur = e.cur
  <2>1. stored \in StoredType
    BY <1>4 DEF Parts, MetaTyped
  <2>2. e.cur \in States
    BY <1>2 DEF GoodEvent, EventType
  <2>3. stored' \in StoredType /\ stored'.op = stored.op /\ stored'.cur = e.cur
    BY <1>6, <2>1, <2>2 DEF StoredType
  <2>4. QED
    BY <2>3, NoEventAssumption
<1>10. Recorded(d, stored')
  BY <1>3, <1>7, <1>9 DEF Recorded
<1>11. OpsInv'
  BY <1>2, <1>3, <1>6, <1>7, <1>8, <1>9, <1>10, ActiveOps
<1>12. TasksInv'
  BY <1>1, <1>2, <1>6, <1>7, ActiveTasks
<1>13. Busy(d, ptView', up', eng') /\ OneOwner'
  BY <1>1, <1>2, <1>7 DEF Busy, AssignKnows, MoveKnows, Served, Disabled, OneOwner, Commanded,
                          GivenTo, LostPt
<1>14. QED
  BY <1>2, <1>6, <1>7, <1>8, <1>11, <1>12, <1>13, ActivePlace DEF EventsInv

\* CreateMigrateEvent never takes the event that another one has persisted for its own.
LEMMA CreatesNew ==
    ASSUME SInv, EventsInv, DriveInv, NEW i \in EvIds, Active(i), ev[i].op = 0,
           ev[i].cur = "Init", CanCreate(ev[i])
    PROVE  stored = NoEvent
<1> SUFFICES ASSUME stored # NoEvent PROVE FALSE
  OBVIOUS
<1>1. stored.cur = "Init"
  BY DEF CanCreate
<1>2. PICK j \in EvIds : ev[j] # NoEvent /\ ev[j].op = stored.op
  BY DEF DriveInv, StoredIsDriven, SInv, Steady
<1>3. HasOp(j)
  BY <1>2 DEF HasOp, DriveInv
<1>4. j # i
  BY <1>2, <1>3 DEF HasOp
<1>5. ev[j].mode = "del"
  BY <1>2, <1>4 DEF SInv, OneActive, Active
<1>6. QED
  BY <1>1, <1>3, <1>5 DEF EventsInv, OpsInv

\* createMigrateEvent when nothing is persisted: the opId is new.
LEMMA CreateOps ==
    ASSUME Parts, SInv, EventsInv, NEW i \in EvIds, Active(i), ev[i].op = 0, stored = NoEvent,
           ev[i].cur = "Init", NEW d, d # NoEvent, d.mode # "del", ev' = [ev EXCEPT ![i] = d],
           stored' = Created(ev[i]), d.op = Created(ev[i]).op, ~d.persist,
           d.cur = IF d.type = "Assign" THEN "Assign" ELSE "Init"
    PROVE  OpsInv'
<1>1. stored'.op = FreshOp /\ stored' # NoEvent
  <2>1. Created(ev[i]) \in StoredType
    BY EvGood, CreatedType DEF Parts, Active
  <2>2. Created(ev[i]).op = FreshOp
    BY DEF Created
  <2>3. QED
    BY <2>1, <2>2, NoEventAssumption
<1>2. d.op # 0 /\ d.op = stored'.op
  <2>1. FreshOp # 0
    BY FreshOpType, PartsAreIInv
  <2>2. QED
    BY <1>1, <2>1
<1>3. \A j \in EvIds : ev'[j] = IF j = i THEN d ELSE ev[j]
  BY DEF Parts, EvTyped
<1>4. \A j \in EvIds : HasOp(j)' => j = i
  BY <1>3 DEF EventsInv, OpsInv, HasOp
<1>5. \A j \in EvIds : Active(j)' => j = i
  BY OnlyActive DEF Parts, SInv
<1>6. Recorded(d, stored')
  BY <1>2 DEF Recorded
<1>7. QED
  BY <1>1, <1>2, <1>3, <1>4, <1>5, <1>6 DEF OpsInv

\* createMigrateEvent of an assign.
LEMMA AssignInitEvents ==
    ASSUME Parts, SInv, QInv, EventsInv, DriveInv, NEW i \in EvIds, AssignInit(i)
    PROVE  EventsInv'
<1> DEFINE e == ev[i]
<1>1. /\ e # NoEvent /\ e.mode = "run" /\ ~e.persist /\ e.type = "Assign" /\ e.cur = "Init"
      /\ UNCHANGED <<ptView, dn, failed, up, eng>>
  BY DEF AssignInit, AtHandler, cmVars, storeVars
<1>2. /\ Active(i) /\ GoodEvent(e) /\ Recorded(e, stored) /\ Busy(e, ptView, up, eng)
      /\ OneActive /\ OpsInv /\ TasksInv /\ OneOwner /\ leader
  BY <1>1, AtEvent
<1>3. e.op = 0 /\ OneOwner'
  BY <1>1, <1>2 DEF Recorded, OneOwner
<1>4. CASE CanCreate(e)
  <2>1. stored = NoEvent
    BY <1>1, <1>2, <1>3, <1>4, CreatesNew
  <2>2. PICK d : d = [e EXCEPT !.cur = "Assign", !.op = Created(e).op]
    OBVIOUS
  <2>3. Created(e).op \in Nat
    BY <1>2, CreatedType DEF StoredType, Parts
  <2>4. /\ GoodEvent(d) /\ d.mode = "run" /\ ~d.persist /\ d.cur = "Assign" /\ d.type = "Assign"
        /\ d.op = Created(e).op /\ d.pt = e.pt /\ d.dst = e.dst
    BY <1>1, <1>2, <2>2, <2>3 DEF GoodEvent, WellFormed, EventType, AssignStates, States
  <2>5. d # NoEvent
    BY <2>4, GoodIsEvent
  <2>6. ev' = [ev EXCEPT ![i] = d] /\ stored' = Created(e)
    BY <1>2, <1>3, <1>4, <2>2 DEF AssignInit
  <2>7. OpsInv'
    BY <1>1, <1>2, <1>3, <2>1, <2>4, <2>5, <2>6, CreateOps
  <2>8. TasksInv'
    BY <1>1, <1>2, <2>4, <2>6, ActiveTasks
  <2>9. Busy(d, ptView', up', eng')
    BY <1>1, <1>2, <2>4 DEF Busy, AssignKnows, MoveKnows, Served, Disabled, Commanded
  <2>10. QED
    BY <1>2, <1>3, <2>4, <2>5, <2>6, <2>7, <2>8, <2>9, ActivePlace DEF EventsInv
<1>5. CASE ~CanCreate(e)
  <2>1. Fail(i, e) /\ stored' = stored
    BY <1>3, <1>5 DEF AssignInit
  <2>2. ~up[ptView.owner] /\ LostPt(e.pt, up)
    BY <1>1, <1>2 DEF Busy, AssignKnows, Commanded
  <2>3. Idle(ptView', up', eng')
    BY <1>1, <1>2, <2>2 DEF Busy, Disabled, Idle
  <2>4. QED
    BY <1>1, <1>2, <1>3, <2>1, <2>2, <2>3, FailEvents
<1>6. QED
  BY <1>4, <1>5

\* A move that ends in its initial or final state leaves the PT where it is.
LEMMA MoveIdle ==
    ASSUME NEW e, NEW v, NEW u, NEW g, Busy(e, v, u, g), e.type = "Move",
           v.status \in {"Online", "Offline"}, e.cur \in {"Init", "Final"}
    PROVE  Idle(v, u, g)
BY DEF Busy, MoveKnows, Served, Disabled, Idle, LateStates

\* createMigrateEvent of a move.
LEMMA MoveCreateEvents ==
    ASSUME Parts, SInv, QInv, EventsInv, DriveInv, NEW i \in EvIds, MoveCreate(i)
    PROVE  EventsInv'
<1> DEFINE e == ev[i]
<1>1. /\ e # NoEvent /\ e.mode = "run" /\ ~e.persist /\ e.type = "Move" /\ e.cur = "Init"
      /\ e.op = 0 /\ UNCHANGED <<ptView, dn, failed, up, eng>>
  BY DEF MoveCreate, AtHandler, cmVars, storeVars
<1>2. /\ Active(i) /\ GoodEvent(e) /\ Recorded(e, stored) /\ Busy(e, ptView, up, eng)
      /\ OneActive /\ OpsInv /\ TasksInv /\ OneOwner /\ leader
  BY <1>1, AtEvent
<1>3. OneOwner'
  BY <1>1, <1>2 DEF OneOwner
<1>4. CASE CanCreate(e)
  <2>1. stored = NoEvent
    BY <1>1, <1>2, <1>4, CreatesNew
  <2>2. PICK d : d = [e EXCEPT !.op = Created(e).op]
    OBVIOUS
  <2>3. Created(e).op \in Nat
    BY <1>2, CreatedType DEF StoredType, Parts
  <2>4. /\ GoodEvent(d) /\ d.mode = "run" /\ ~d.persist /\ d.cur = "Init" /\ d.type = "Move"
        /\ d.op = Created(e).op /\ d.pt = e.pt /\ d.dst = e.dst /\ d.src = e.src
    BY <1>1, <1>2, <2>2, <2>3 DEF GoodEvent, WellFormed, EventType
  <2>5. d # NoEvent
    BY <2>4, GoodIsEvent
  <2>6. ev' = [ev EXCEPT ![i] = d] /\ stored' = Created(e)
    BY <1>2, <1>4, <2>2 DEF MoveCreate
  <2>7. OpsInv'
    BY <1>1, <1>2, <2>1, <2>4, <2>5, <2>6, CreateOps
  <2>8. TasksInv'
    BY <1>1, <1>2, <2>4, <2>6, ActiveTasks
  <2>9. Busy(d, ptView', up', eng')
    BY <1>1, <1>2, <2>4 DEF Busy, AssignKnows, MoveKnows, Served, Disabled, Commanded
  <2>10. QED
    BY <1>2, <1>3, <2>4, <2>5, <2>6, <2>7, <2>8, <2>9, ActivePlace DEF EventsInv
<1>5. CASE ~CanCreate(e)
  <2>1. Fail(i, e) /\ stored' = stored
    BY <1>5 DEF MoveCreate
  <2>2. ~IsReassignNeeded(e)
    BY <1>1 DEF IsReassignNeeded
  <2>3. Idle(ptView', up', eng')
    BY <1>1, <1>2, MoveIdle DEF Parts, MetaTyped, PtType
  <2>4. QED
    BY <1>1, <1>2, <1>3, <2>1, <2>2, <2>3, FailEvents
<1>6. QED
  BY <1>4, <1>5

\* updatePtVersion, then the first command of a move.
LEMMA MoveInitEvents ==
    ASSUME Parts, SInv, QInv, EventsInv, NEW i \in EvIds, MoveInit(i) PROVE EventsInv'
<1> DEFINE e == ev[i]
<1>1. /\ e # NoEvent /\ e.mode = "run" /\ ~e.persist /\ e.type = "Move" /\ e.cur = "Init"
      /\ e.op # 0 /\ UNCHANGED <<stored, dn, failed, up, eng>>
  BY DEF MoveInit, AtHandler, cmVars, storeVars
<1>2. /\ Active(i) /\ GoodEvent(e) /\ Recorded(e, stored) /\ Busy(e, ptView, up, eng)
      /\ OneActive /\ OpsInv /\ TasksInv /\ OneOwner /\ leader
  BY <1>1, AtEvent
<1>3. PICK d : d = [e EXCEPT !.cur = "PreOffload", !.pt.ver = ptView.ver + 1]
  OBVIOUS
<1>4. [e.pt EXCEPT !.ver = ptView.ver + 1] \in PtType
  BY <1>2 DEF GoodEvent, EventType, PtType, Parts, MetaTyped
<1>5. /\ GoodEvent(d) /\ d.mode = "run" /\ ~d.persist /\ d.cur = "PreOffload"
      /\ d.type = "Move" /\ d.dst = e.dst /\ d.src = e.src /\ d.op = e.op
      /\ d.pt.status = e.pt.status
  BY <1>1, <1>2, <1>3, <1>4 DEF GoodEvent, WellFormed, EventType, States, PtType
<1>6. d # NoEvent
  BY <1>5, GoodIsEvent
<1>7. ev' = [ev EXCEPT ![i] = d]
  BY <1>2, <1>3 DEF MoveInit
<1>8. ptView'.status = ptView.status /\ ptView'.owner = ptView.owner
  BY <1>2 DEF MoveInit, Parts, MetaTyped, PtType
<1>9. Recorded(d, stored')
  BY <1>1, <1>5 DEF Recorded
<1>10. OpsInv' /\ TasksInv'
  BY <1>1, <1>2, <1>5, <1>6, <1>7, <1>9, ActiveOps, ActiveTasks
<1>11. OneOwner'
  BY <1>1, <1>2, <1>8 DEF OneOwner
<1>12. Busy(d, ptView', up', eng')
  BY <1>1, <1>2, <1>5, <1>8 DEF Busy, AssignKnows, MoveKnows, Served, Disabled, LateStates
<1>13. QED
  BY <1>2, <1>5, <1>6, <1>7, <1>10, <1>11, <1>12, ActivePlace DEF EventsInv

\* moveOffloadedHandler: the PT goes Offline with its source, or its source has died.
LEMMA MoveOffloadedEvents ==
    ASSUME Parts, SInv, QInv, EventsInv, NEW i \in EvIds, MoveOffloaded(i) PROVE EventsInv'
<1> DEFINE e == ev[i]
<1>1. /\ e # NoEvent /\ e.mode = "run" /\ ~e.persist /\ e.cur = "Offloaded"
      /\ UNCHANGED <<stored, dn, failed, up, eng>>
  BY DEF MoveOffloaded, AtHandler, cmVars, storeVars
<1>2. /\ Active(i) /\ GoodEvent(e) /\ Recorded(e, stored) /\ Busy(e, ptView, up, eng)
      /\ OneActive /\ OpsInv /\ TasksInv /\ OneOwner /\ leader /\ Sees(e, ptView)
  BY <1>1, AtEvent
<1>3. e.type = "Move" /\ e.op # 0 /\ e.src \in Nodes
  BY <1>1, <1>2 DEF GoodEvent, WellFormed, EventType, AssignStates, Recorded
<1>4. /\ ptView.owner = e.src /\ e.pt.owner = e.src /\ e.pt.status = "Online"
      /\ ptView.status = "Offline" => ~up[e.src]
      /\ ~LoadedIn(eng, e.src)
  BY <1>1, <1>2, <1>3 DEF Busy, MoveKnows, Sees, LateStates
<1>5. CASE PtUnchanged(e.pt)
  <2>1. PICK c : c = [e EXCEPT !.pt.status = "Offline"]
    OBVIOUS
  <2>2. [e.pt EXCEPT !.status = "Offline"] \in PtType
    BY <1>2 DEF GoodEvent, EventType, PtType
  <2>3. /\ GoodEvent(c) /\ c.type = e.type /\ c.cur = e.cur /\ c.mode = e.mode /\ c.src = e.src
        /\ c.op = e.op /\ c.pt.owner = e.pt.owner
    BY <1>2, <2>1, <2>2 DEF GoodEvent, WellFormed, EventType, PtType
  <2>4. PICK d : d = StateTransition(c, TRUE)
    OBVIOUS
  <2>5. GoodEvent(d) /\ d # NoEvent
    BY <2>3, <2>4, TransitionGood, GoodIsEvent
  <2>6. /\ d.mode = "run" /\ d.type = "Move" /\ d.pt.owner = e.src /\ d.op = e.op
        /\ d.persist = TRUE /\ d.src = e.src
        /\ d.cur = IF c.type = "Assign" THEN AssignTransition(c.cur, TRUE)
                   ELSE MoveTransition(c.cur, TRUE)
    BY <1>1, <1>3, <1>4, <2>3, <2>4 DEF StateTransition, GoodEvent, EventType
  <2>7. d.cur = "Assign"
    BY <1>1, <1>3, <2>3, <2>6 DEF MoveTransition
  <2>8. ev' = [ev EXCEPT ![i] = d]
    BY <1>2, <1>5, <2>1, <2>4 DEF MoveOffloaded
  <2>9. ptView' = [ptView EXCEPT !.owner = e.src, !.status = "Offline"]
    BY <1>2, <1>5 DEF MoveOffloaded, UpdatePtInfo
  <2>10. ptView'.status = "Offline" /\ ptView'.owner = e.src
    BY <2>9 DEF Parts, MetaTyped, PtType
  <2>11. Recorded(d, stored')
    BY <1>3, <2>6, <2>7 DEF Recorded
  <2>12. OpsInv' /\ TasksInv'
    BY <1>1, <1>2, <2>5, <2>6, <2>8, <2>11, ActiveOps, ActiveTasks
  <2>13. OneOwner'
    BY <1>1, <1>2, <1>4, <2>10 DEF OneOwner
  <2>14. Disabled(d, eng')
    BY <1>1, <1>2, <1>4 DEF Busy, Disabled
  <2>15. Busy(d, ptView', up', eng')
    BY <1>1, <1>4, <2>6, <2>7, <2>10, <2>14 DEF Busy, AssignKnows, MoveKnows, Served, Commanded,
                                                LateStates
  <2>16. QED
    BY <1>2, <2>5, <2>6, <2>8, <2>12, <2>13, <2>15, ActivePlace DEF EventsInv
<1>6. CASE ~PtUnchanged(e.pt)
  <2>1. ptView.status = "Offline"
    BY <1>4, <1>6 DEF PtUnchanged, Parts, MetaTyped, PtType
  <2>2. PICK d : d = [e EXCEPT !.pt = RefreshDbPt(e.pt)]
    OBVIOUS
  <2>3. /\ RefreshDbPt(e.pt) \in PtType
        /\ RefreshDbPt(e.pt).owner = ptView.owner /\ RefreshDbPt(e.pt).status = ptView.status
    BY <1>2 DEF RefreshDbPt, Parts, MetaTyped, GoodEvent, EventType, PtType
  <2>4. /\ GoodEvent(d) /\ d.type = e.type /\ d.cur = e.cur /\ d.op = e.op
        /\ d.pt = RefreshDbPt(e.pt)
    BY <1>2, <2>2, <2>3 DEF GoodEvent, WellFormed, EventType
  <2>5. Fail(i, d) /\ ptView' = ptView
    BY <1>2, <1>6, <2>2 DEF MoveOffloaded, PtInfoFails
  <2>6. LostPt(d.pt, up)
    BY <1>4, <2>1, <2>3, <2>4 DEF LostPt
  <2>7. stored.cur # "Init"
    BY <1>1, <1>2, <1>3 DEF Recorded
  <2>8. Idle(ptView', up', eng') /\ OneOwner'
    BY <1>1, <1>2, <1>4, <2>1, <2>5 DEF Busy, Disabled, Idle, OneOwner
  <2>9. QED
    BY <1>1, <1>2, <2>4, <2>5, <2>6, <2>7, <2>8, FailEvents
<1>7. QED
  BY <1>5, <1>6

\* The PT is assigned while nobody has it loaded.
LEMMA AssignHandlerEvents ==
    ASSUME Parts, SInv, QInv, EventsInv, OneDown, NEW i \in EvIds, AssignHandler(i)
    PROVE  EventsInv'
<1> DEFINE e == ev[i]
<1>1. /\ e # NoEvent /\ e.mode = "run" /\ ~e.persist /\ e.cur = "Assign"
      /\ UNCHANGED <<stored, dn, failed, up, eng>>
  BY DEF AssignHandler, AssignTo, AtHandler, cmVars, storeVars
<1>2. /\ Active(i) /\ GoodEvent(e) /\ Recorded(e, stored) /\ Busy(e, ptView, up, eng)
      /\ OneOwner /\ leader /\ Sees(e, ptView)
  BY <1>1, AtEvent
<1>3. /\ e.type \in {"Assign", "Move"} /\ ~Commanded(e) /\ ptView.owner \in Nodes
      /\ e.pt.owner \in Nodes
  BY <1>1, <1>2 DEF GoodEvent, EventType, PtType, Commanded, Parts, MetaTyped
<1>4. ptView.status = "Offline" /\ e.pt.status = "Offline"
  BY <1>1, <1>2, <1>3 DEF Sees, LateStates, Busy, AssignKnows, LostPt
<1>5. ptView.owner = e.pt.owner /\ ~LoadedIn(eng, ptView.owner)
  <2>1. CASE e.type = "Assign"
    <3>1. ~up[ptView.owner] /\ ~up[e.pt.owner]
      BY <1>1, <1>2, <1>3, <2>1 DEF Busy, AssignKnows, LostPt
    <3>2. QED
      BY <1>2, <1>3, <3>1 DEF OneDown, OneOwner
  <2>2. CASE e.type = "Move"
    BY <1>1, <1>2, <1>3, <2>2 DEF Busy, MoveKnows
  <2>3. QED
    BY <1>3, <2>1, <2>2
<1>6. \A n \in Nodes : ~LoadedIn(eng, n)
  BY <1>2, <1>5 DEF OneOwner
<1>7. PtUnchanged(e.pt)
  BY <1>4, <1>5 DEF PtUnchanged
<1>8. PICK d : d = [e EXCEPT !.pt.owner = e.dst]
  OBVIOUS
<1>9. [e.pt EXCEPT !.owner = e.dst] \in PtType
  BY <1>2 DEF GoodEvent, EventType, PtType
<1>10. /\ GoodEvent(d) /\ d.type = e.type /\ d.dst = e.dst /\ d.cur = "Assign" /\ ~d.persist
       /\ d.pt.owner = e.dst /\ d.pt.status = "Offline" /\ d.op = e.op
  BY <1>1, <1>2, <1>4, <1>8, <1>9 DEF GoodEvent, WellFormed, EventType, PtType
<1>11. SendMigrateCommand(i, d) /\ ptView' = UpdatePtInfo(e.dst, e.pt.status)
  BY <1>2, <1>7, <1>8 DEF AssignHandler, AssignTo
<1>12. ptView'.owner = e.dst /\ ptView'.status = "Offline"
  BY <1>4, <1>11 DEF UpdatePtInfo, Parts, MetaTyped, PtType
<1>13. Sending(d, ptView', up, eng)
  BY <1>6, <1>10, <1>12 DEF Sending, Ready, GivenTo, SendStates, Served, Disabled
<1>14. OneOwner' /\ Recorded(d, stored)
  BY <1>1, <1>2, <1>6, <1>10, <1>12 DEF OneOwner, Recorded
<1>15. QED
  BY <1>1, <1>2, <1>10, <1>11, <1>13, <1>14, SendEvents

\* The PT goes Online on the store that has loaded it, unless that store has died.
LEMMA AssignedHandlerEvents ==
    ASSUME Parts, SInv, QInv, EventsInv, NEW i \in EvIds, AssignedHandler(i) PROVE EventsInv'
<1> DEFINE e == ev[i]
<1>1. /\ e # NoEvent /\ e.mode = "run" /\ ~e.persist /\ e.cur = "Assigned"
      /\ UNCHANGED <<stored, dn, failed, up, eng>>
  BY DEF AssignedHandler, AtHandler, cmVars, storeVars
<1>2. /\ Active(i) /\ GoodEvent(e) /\ Recorded(e, stored) /\ Busy(e, ptView, up, eng)
      /\ OneActive /\ OpsInv /\ TasksInv /\ OneOwner /\ leader /\ Sees(e, ptView)
  BY <1>1, AtEvent
<1>3. GivenTo(e, ptView)
  BY <1>1, <1>2 DEF Sees
<1>4. Leave(i, e) /\ ptView' = UpdatePtInfo(e.pt.owner, "Online")
  BY <1>2, <1>3 DEF AssignedHandler, PtUnchanged, GivenTo
<1>5. e.op # 0 /\ stored.cur # "Init"
  BY <1>1, <1>2 DEF Recorded
<1>6. ~IsReassignNeeded(e)
  BY <1>1 DEF IsReassignNeeded
<1>7. e.dst \in Nodes /\ dn[e.dst].status \in {"Alive", "Failed"}
  BY <1>2 DEF GoodEvent, EventType, Parts, MetaTyped
<1>8. \A n \in Nodes : LoadedIn(eng, n) => eng[n].bgr
  BY <1>1, <1>2 DEF Busy, Disabled
<1>9. CASE dn[e.dst].status = "Alive"
  <2>1. ptView'.status = "Online" /\ ptView'.owner = e.dst
    BY <1>3, <1>4, <1>9 DEF UpdatePtInfo, GivenTo, Parts, MetaTyped, PtType
  <2>2. Idle(ptView', up', eng') /\ OneOwner'
    BY <1>1, <1>2, <1>3, <1>8, <1>9, <2>1 DEF Busy, Idle, OneOwner, GivenTo
  <2>3. QED
    BY <1>1, <1>2, <1>4, <1>5, <1>6, <2>2, LeaveEvents
<1>10. CASE dn[e.dst].status = "Failed"
  <2>1. ptView' = ptView
    BY <1>3, <1>4, <1>10 DEF UpdatePtInfo, GivenTo
  <2>2. ~up[ptView.owner]
    BY <1>3, <1>7, <1>10 DEF QInv, StoresInv, GivenTo
  <2>3. Idle(ptView', up', eng') /\ OneOwner'
    BY <1>1, <1>2, <1>8, <2>1, <2>2 DEF Idle, OneOwner
  <2>4. QED
    BY <1>1, <1>2, <1>4, <1>5, <1>6, <2>3, LeaveEvents
<1>11. QED
  BY <1>7, <1>9, <1>10

\* An event ends: AssignFailed with its store dead, or a move that is final.
LEMMA LastHandlerEvents ==
    ASSUME Parts, SInv, QInv, EventsInv, NEW i \in EvIds, LastHandler(i) PROVE EventsInv'
<1> DEFINE e == ev[i]
<1>1. /\ e # NoEvent /\ e.mode = "run" /\ ~e.persist /\ e.cur \in {"AssignFailed", "Final"}
      /\ Leave(i, e) /\ UNCHANGED <<ptView, stored, dn, failed, up, eng>>
  BY DEF LastHandler, AtHandler, cmVars, storeVars, metaVars
<1>2. /\ Active(i) /\ GoodEvent(e) /\ Recorded(e, stored) /\ Busy(e, ptView, up, eng)
      /\ OneActive /\ OpsInv /\ TasksInv /\ OneOwner
  BY <1>1, AtEvent
<1>3. stored.cur # "Init" /\ OneOwner'
  BY <1>1, <1>2 DEF Recorded, OneOwner
<1>4. CASE e.cur = "AssignFailed"
  <2>1. ~up[e.dst] /\ GivenTo(e, ptView)
    BY <1>2, <1>4 DEF Busy, AssignKnows
  <2>2. LostPt(e.pt, up)
    BY <2>1 DEF LostPt, GivenTo
  <2>3. Idle(ptView', up', eng')
    BY <1>1, <1>2, <1>4, <2>1 DEF Idle, Busy, Disabled, GivenTo
  <2>4. QED
    BY <1>1, <1>2, <1>3, <2>2, <2>3, LeaveEvents
<1>5. CASE e.cur = "Final"
  <2>1. e.type = "Move" /\ ~IsReassignNeeded(e)
    BY <1>2, <1>5 DEF GoodEvent, WellFormed, EventType, AssignStates, IsReassignNeeded
  <2>2. Idle(ptView', up', eng')
    BY <1>1, <1>2, <1>5, <2>1, MoveIdle DEF Parts, MetaTyped, PtType
  <2>3. QED
    BY <1>1, <1>2, <1>3, <2>1, <2>2, LeaveEvents
<1>6. QED
  BY <1>1, <1>4, <1>5

\* DeleteEvent removes what is persisted of the event, and of no other.
LEMMA DeleteEvents ==
    ASSUME Parts, SInv, QInv, EventsInv, NEW i \in EvIds, DeleteEvent(i) PROVE EventsInv'
<1> DEFINE e == ev[i]
<1>1. /\ e # NoEvent /\ e.mode = "del" /\ ev' = [ev EXCEPT ![i] = NoEvent]
      /\ stored' = IF e.op # 0 THEN NoEvent ELSE stored
      /\ failed' = IF e.err /\ IsReassignNeeded(e) THEN failed \cup {[pt |-> e.pt, retry |-> TRUE]}
                   ELSE failed
      /\ UNCHANGED <<ptView, dn, up, eng>>
  BY DEF DeleteEvent, storeVars, SInv, Steady
<1>2. \A j \in EvIds : ev'[j] = IF j = i THEN NoEvent ELSE ev[j]
  BY <1>1 DEF Parts, EvTyped
<1>3. \A j \in EvIds : Active(j)' <=> Active(j)
  BY <1>1, <1>2 DEF Active
<1>4. \A j \in EvIds : Active(j) => ev'[j] = ev[j]
  BY <1>1, <1>2 DEF Active
<1>5. OpsInv'
  <2>1. CASE e.op # 0
    <3>1. HasOp(i)
      BY <1>1, <2>1 DEF HasOp
    <3>2. \A j \in EvIds : ~HasOp(j)'
      BY <1>2, <3>1 DEF EventsInv, OpsInv, HasOp
    <3>3. ASSUME NEW j \in EvIds, Active(j)' PROVE Recorded(ev'[j], stored')
      <4>1. Recorded(ev[j], stored) /\ ev'[j] = ev[j]
        BY <1>3, <1>4, <3>3 DEF EventsInv, OpsInv
      <4>2. ev[j].op = 0
        BY <3>2, <3>3, <4>1 DEF HasOp, Active
      <4>3. QED
        BY <4>1, <4>2 DEF Recorded
    <3>4. QED
      BY <3>2, <3>3 DEF OpsInv
  <2>2. CASE e.op = 0
    <3>1. \A j \in EvIds : HasOp(j)' => HasOp(j) /\ ev'[j] = ev[j]
      BY <1>2 DEF HasOp
    <3>2. QED
      BY <1>1, <1>3, <1>4, <2>2, <3>1 DEF EventsInv, OpsInv
  <2>3. QED
    BY <2>1, <2>2
<1>6. TasksInv'
  <2>1. e.err /\ IsReassignNeeded(e) => LostPt(e.pt, up)
    BY <1>1 DEF EventsInv, TasksInv, Cares
  <2>2. QED
    BY <1>1, <1>2, <2>1 DEF EventsInv, TasksInv
<1>7. PlaceInv'
  BY <1>1, <1>3, <1>4 DEF EventsInv, PlaceInv, OneOwner
<1>8. QED
  BY <1>5, <1>6, <1>7 DEF EventsInv

\* A step of an event.
LEMMA EventEvents ==
    ASSUME Parts, SInv, QInv, EventsInv, OneDown, DriveInv, NEW i \in EvIds, EventStep(i)
    PROVE  EventsInv'
BY NoLeaderChange, ResendEvents, StoreTransitionEvents, AssignInitEvents, MoveCreateEvents,
   MoveInitEvents, MoveOffloadedEvents, AssignHandlerEvents, AssignedHandlerEvents,
   LastHandlerEvents, DeleteEvents DEF EventStep

-----------------------------------------------------------------------------
(* The stores carry the commands out.                                      *)

\* An event with a command at a store is sending it.
LEMMA RequestSending ==
    ASSUME Parts, SInv, QInv, EventsInv, NEW i \in EvIds, Active(i), Commanded(ev[i])
    PROVE  /\ GoodEvent(ev[i]) /\ Sending(ev[i], ptView, up, eng)
           /\ ev[i].op # 0 /\ ev[i].cur \in SendStates
<1>1. /\ GoodEvent(ev[i]) /\ InPhase(ev[i]) /\ Sees(ev[i], ptView) /\ Recorded(ev[i], stored)
      /\ Busy(ev[i], ptView, up, eng)
  BY AtEvent DEF Active
<1>2. Ready(ev[i], ptView)
  BY <1>1, CommandedReady
<1>3. ev[i].cur \in SendStates
  BY <1>2 DEF Ready
<1>4. ev[i].op # 0
  BY <1>1, <1>3 DEF Recorded, SendStates
<1>5. QED
  BY <1>1, <1>2, <1>3, <1>4, BusySends

\* Nothing but the engines changes.
LEMMA EnginesOnly ==
    ASSUME EventsInv, ev' = ev, UNCHANGED <<stored, failed, up, ptView>>, OneOwner',
           NEW i \in EvIds, Active(i), OneActive, Busy(ev[i], ptView, up, eng')
    PROVE  EventsInv'
<1>1. \A j \in EvIds : Active(j)' <=> j = i
  BY DEF OneActive, Active
<1>2. OpsInv' /\ TasksInv'
  BY DEF EventsInv, OpsInv, TasksInv, HasOp, Active
<1>3. PlaceInv'
  BY <1>1 DEF PlaceInv
<1>4. QED
  BY <1>2, <1>3 DEF EventsInv

\* The active event gets an answer.
LEMMA AnswerEvents ==
    ASSUME Parts, SInv, QInv, EventsInv, NEW r \in reqs, r.tag = 0, NEW res,
           ev' = [ev EXCEPT ![r.id] = Answered(@, res)],
           UNCHANGED <<stored, failed, up, ptView>>, OneOwner',
           Sending(ev[r.id], ptView, up, eng'),
           res \in FinalAnswers =>
                /\ res = "ok"
                /\ ev[r.id].cur = "Assign" => LoadedIn(eng', ev[r.id].dst)
                /\ ev[r.id].cur = "Offload" => ~LoadedIn(eng', ev[r.id].src)
                /\ ev[r.id].cur = "RollbackPreOffload" =>
                        (LoadedIn(eng', ev[r.id].src) => eng'[ev[r.id].src].bgr)
    PROVE  EventsInv'
<1> DEFINE e == ev[r.id]
<1>1. r.id \in EvIds /\ e # NoEvent /\ e.mode = "wait"
  BY DEF Parts, ReqTyped, RequestType, OneCommand
<1>2. /\ GoodEvent(e) /\ Active(r.id) /\ Running /\ OneActive /\ OpsInv /\ TasksInv
  BY <1>1, AtEvent
<1>3. e.op # 0 /\ e.cur \in SendStates
  BY <1>1, <1>2, RequestSending DEF Commanded
<1>4. PICK d : d = Answered(e, res)
  OBVIOUS
<1>5. /\ GoodEvent(d) /\ d # NoEvent /\ SameEvent(e, d)
      /\ \/ /\ Transits(e, d, res = "ok")
            /\ res \in FinalAnswers \/ Target(e) \notin members
         \/ Requeued(e, d)
  BY <1>2, <1>4, AnsweredCases
<1>6. ev' = [ev EXCEPT ![r.id] = d]
  BY <1>4
<1>7. /\ d.op = e.op /\ d.type = e.type /\ d.src = e.src /\ d.dst = e.dst /\ d.pt = e.pt
  BY <1>5 DEF SameEvent
<1>8. CASE Requeued(e, d)
  <2>1. d.mode = "retry" /\ d.cur = e.cur /\ d.persist = e.persist
    BY <1>8 DEF Requeued
  <2>2. Sending(d, ptView', up', eng')
    BY <1>7, <2>1 DEF Sending, Ready, Served, Disabled, GivenTo
  <2>3. Busy(d, ptView', up', eng')
    BY <1>5, <2>1, <2>2, SendsBusy DEF Commanded
  <2>4. Recorded(d, stored')
    BY <1>1, <1>2, <1>7, <2>1 DEF OpsInv, Recorded
  <2>5. QED
    BY <1>1, <1>2, <1>5, <1>6, <1>7, <2>1, <2>3, <2>4, ActiveOps, ActiveTasks, ActivePlace
       DEF EventsInv
<1>9. CASE /\ Transits(e, d, res = "ok")
           /\ res \in FinalAnswers \/ Target(e) \notin members
  <2>1. PICK ok \in BOOLEAN : ok = (res = "ok")
    OBVIOUS
  <2>2. Transits(e, d, ok)
    BY <1>9, <2>1
  <2>3. ~ok => ~up[Target(e)]
    BY <1>2, <1>9, <2>1, TargetType DEF QInv, StoresInv
  <2>4. \A n \in Nodes : LoadedIn(eng', n) => up[n]
    BY DEF OneOwner
  <2>5. ok => /\ e.cur = "Assign" => LoadedIn(eng', e.dst)
              /\ e.cur = "Offload" => ~LoadedIn(eng', e.src)
              /\ e.cur = "RollbackPreOffload" => (LoadedIn(eng', e.src) => eng'[e.src].bgr)
    BY <2>1 DEF FinalAnswers
  <2>6. Busy(d, ptView, up, eng')
    BY <1>2, <1>5, <2>2, <2>3, <2>4, <2>5, TransitBusy
  <2>7. d.mode = "run" /\ d.persist = TRUE /\ d.cur # "Init"
    <3>1. d.mode = "run" /\ d.persist = TRUE
          /\ d.cur = IF e.type = "Assign" THEN AssignTransition(e.cur, ok)
                     ELSE MoveTransition(e.cur, ok)
      BY <2>2 DEF Transits
    <3>2. QED
      BY <1>3, <3>1 DEF AssignTransition, MoveTransition, SendStates
  <2>8. Recorded(d, stored')
    BY <1>3, <1>7, <2>7 DEF Recorded
  <2>9. QED
    BY <1>1, <1>2, <1>5, <1>6, <1>7, <2>6, <2>7, <2>8, ActiveOps, ActiveTasks, ActivePlace
       DEF EventsInv
<1>10. QED
  BY <1>5, <1>8, <1>9

\* An answer that changes nothing in the stores: the command has to be sent again.
LEMMA ReplyEvents ==
    ASSUME Parts, SInv, QInv, EventsInv, NEW r \in reqs, NEW res, res \notin FinalAnswers,
           \/ ev' = ev
           \/ r.tag = 0 /\ ev' = [ev EXCEPT ![r.id] = Answered(@, res)],
           UNCHANGED <<stored, failed, up, ptView, dn, eng>>
    PROVE  EventsInv'
<1>1. OneOwner'
  BY DEF EventsInv, PlaceInv, OneOwner
<1>2. CASE ev' = ev
  BY <1>1, <1>2 DEF EventsInv, OpsInv, TasksInv, PlaceInv, HasOp, Active
<1>3. CASE r.tag = 0 /\ ev' = [ev EXCEPT ![r.id] = Answered(@, res)]
  <2>1. r.id \in EvIds /\ ev[r.id] # NoEvent /\ ev[r.id].mode = "wait"
    BY <1>3 DEF Parts, ReqTyped, RequestType, OneCommand
  <2>2. Sending(ev[r.id], ptView, up, eng')
    BY <2>1, RequestSending DEF Active, Commanded
  <2>3. QED
    BY <1>1, <1>3, <2>2, AnswerEvents
<1>4. QED
  BY <1>2, <1>3

\* A command of the active event e is carried out, or a load fails.
LEMMA EngineSending ==
    ASSUME Parts, OneOwner, NEW e, GoodEvent(e), Sending(e, ptView, up, eng),
           NEW r \in reqs, r.kind = e.cur, r.node = Target(e), up[r.node],
           UNCHANGED <<ptView, up, dn>>,
           \/ eng' = [eng EXCEPT ![r.node] = Executed(r, @)]
           \/ r.kind = "Assign" /\ eng' = [eng EXCEPT ![r.node] = NoPt]
    PROVE  Sending(e, ptView, up, eng') /\ OneOwner'
<1> DEFINE n == r.node
<1>1. /\ n \in Nodes /\ eng[n].st \in {"none", "preload", "loaded"} /\ eng[n].bgr \in BOOLEAN
      /\ \A m \in Nodes : m # n => eng'[m] = eng[m]
      /\ \/ eng'[n] = Executed(r, eng[n])
         \/ r.kind = "Assign" /\ eng'[n] = NoPt
  BY DEF Parts, ReqTyped, RequestType, StoreTyped
<1>2. e.cur \in SendStates /\ e.type \in {"Assign", "Move"} /\ (e.type = "Assign" => e.cur = "Assign")
  BY DEF Sending, Ready, GoodEvent, EventType, WellFormed, SendStates, AssignStates
<1>3. CASE e.cur = "Assign"
  <2>1. ptView.owner = n /\ ptView.status = "Offline"
    BY <1>3 DEF Target, Sending, Ready, GivenTo
  <2>2. eng'[n] \in {eng[n], NoPt, [st |-> "loaded", bgr |-> TRUE]}
    BY <1>1, <1>3 DEF Executed
  <2>3. \A m \in Nodes : LoadedIn(eng', m) /\ ~eng'[m].bgr => LoadedIn(eng, m) /\ ~eng[m].bgr
    BY <1>1, <2>2 DEF LoadedIn, NoPt
  <2>4. Served(e, ptView, up, eng') /\ Disabled(e, eng')
    BY <2>1, <2>3 DEF Sending, Served, Disabled
  <2>5. OneOwner'
    BY <1>1, <2>1 DEF OneOwner, LoadedIn
  <2>6. QED
    BY <2>4, <2>5 DEF Sending
<1>4. CASE e.cur # "Assign"
  <2>1. e.type = "Move" /\ eng'[n] = Executed(r, eng[n]) /\ ptView.owner = e.src
    BY <1>1, <1>2, <1>4 DEF Sending
  <2>2. \/ eng'[n] = eng[n]
        \/ e.cur = "PreOffload" /\ eng[n].st = "loaded" /\ eng'[n] = [eng[n] EXCEPT !.bgr = FALSE]
        \/ e.cur = "RollbackPreOffload" /\ eng'[n] = [eng[n] EXCEPT !.bgr = TRUE]
        \/ e.cur = "PreAssign" /\ eng[n].st = "none" /\ eng'[n] = [st |-> "preload", bgr |-> TRUE]
        \/ e.cur = "Offload" /\ eng'[n] = NoPt
    BY <1>2, <1>4, <2>1 DEF Executed, SendStates
  <2>3. n = IF e.cur = "PreAssign" THEN e.dst ELSE e.src
    BY <1>4, <2>1 DEF Target
  <2>4. eng[n] \in [st : {"none", "preload", "loaded"}, bgr : BOOLEAN]
    BY <1>1 DEF Parts, StoreTyped
  <2>5. \A m \in Nodes : /\ LoadedIn(eng', m) => LoadedIn(eng, m)
                         /\ LoadedIn(eng, m) /\ e.cur # "Offload" => LoadedIn(eng', m)
                         /\ LoadedIn(eng', m) /\ ~eng'[m].bgr =>
                                \/ LoadedIn(eng, m) /\ ~eng[m].bgr
                                \/ m = e.src /\ e.cur = "PreOffload"
    BY <1>1, <2>2, <2>3, <2>4 DEF LoadedIn, NoPt
  <2>6. OneOwner'
    BY <2>5 DEF OneOwner
  <2>7. Served(e, ptView, up, eng')
    <3>1. ptView.owner \in Nodes
      BY DEF Parts, MetaTyped, PtType
    <3>2. QED
      BY <2>1, <2>5, <3>1 DEF Sending, Served
  <2>8. Disabled(e, eng')
    BY <2>1, <2>5 DEF Sending, Disabled
  <2>9. QED
    BY <2>6, <2>7, <2>8 DEF Sending
<1>5. QED
  BY <1>3, <1>4

\* What a command that ends well has done to its store.
LEMMA ExecutedWell ==
    ASSUME Parts, NEW r \in reqs, eng' = [eng EXCEPT ![r.node] = Executed(r, @)],
           ~CannotRef(r, eng[r.node])
    PROVE  /\ r.kind = "Assign" => LoadedIn(eng', r.node)
           /\ r.kind = "Offload" => ~LoadedIn(eng', r.node)
           /\ r.kind = "RollbackPreOffload" => (LoadedIn(eng', r.node) => eng'[r.node].bgr)
<1>1. /\ eng'[r.node] = Executed(r, eng[r.node])
      /\ eng[r.node] \in [st : {"none", "preload", "loaded"}, bgr : BOOLEAN]
  BY DEF Parts, ReqTyped, RequestType, StoreTyped
<1>2. CASE r.kind = "Assign"
  BY <1>1, <1>2 DEF Executed, LoadedIn
<1>3. CASE r.kind = "Offload"
  BY <1>1, <1>3 DEF Executed, LoadedIn, NoPt
<1>4. CASE r.kind = "RollbackPreOffload"
  BY <1>1, <1>4 DEF Executed, LoadedIn, CannotRef
<1>5. QED
  BY <1>2, <1>3, <1>4

\* A store loads the PT, lets go of it, or disables and enables its background tasks.
LEMMA EngineEvents ==
    ASSUME Parts, SInv, QInv, EventsInv, NEW r \in reqs, Execute(r) \/ (Refuse(r) /\ Loads(r))
    PROVE  EventsInv'
<1>1. /\ r.exec /\ UNCHANGED <<stored, failed, up, ptView, dn>>
      /\ \/ eng' = [eng EXCEPT ![r.node] = Executed(r, @)]
         \/ r.kind = "Assign" /\ eng' = [eng EXCEPT ![r.node] = NoPt]
  BY DEF Execute, Refuse, Loads, metaVars, cmVars, storeVars
<1>2. PICK i \in EvIds : Active(i) /\ OfEvent(r, ev[i])
  BY DEF QInv, OfActive
<1>3. r.kind # "lost" /\ up[r.node]
  BY <1>1 DEF SInv, ReqInv
<1>4. r.kind = ev[i].cur /\ r.node = Target(ev[i]) /\ Commanded(ev[i])
  BY <1>2, <1>3 DEF OfEvent
<1>5. GoodEvent(ev[i]) /\ Sending(ev[i], ptView, up, eng) /\ OneActive /\ OneOwner
  BY <1>2, <1>4, RequestSending DEF SInv, EventsInv, PlaceInv
<1>6. Sending(ev[i], ptView, up, eng') /\ OneOwner'
  BY <1>1, <1>3, <1>4, <1>5, EngineSending
<1>7. CASE r.tag # 0
  <2>1. ev' = ev
    BY <1>7 DEF Execute, Refuse, Reply
  <2>2. Busy(ev[i], ptView, up, eng')
    BY <1>4, <1>5, <1>6, SendsBusy
  <2>3. QED
    BY <1>1, <1>2, <1>5, <1>6, <2>1, <2>2, EnginesOnly
<1>8. CASE r.tag = 0
  <2>1. r.id = i
    BY <1>2, <1>5, <1>8 DEF Parts, ReqTyped, RequestType, OneCommand, OneActive, Active
  <2>2. CASE Execute(r) /\ ~CannotRef(r, eng[r.node])
    <3>1. /\ eng' = [eng EXCEPT ![r.node] = Executed(r, @)]
          /\ ev' = [ev EXCEPT ![r.id] = Answered(@, "ok")]
      BY <1>8, <2>2 DEF Execute, Reply
    <3>2. /\ r.kind = "Assign" => LoadedIn(eng', r.node)
          /\ r.kind = "Offload" => ~LoadedIn(eng', r.node)
          /\ r.kind = "RollbackPreOffload" => (LoadedIn(eng', r.node) => eng'[r.node].bgr)
      BY <2>2, <3>1, ExecutedWell
    <3>3. /\ ev[i].cur = "Assign" => r.node = ev[i].dst
          /\ ev[i].cur \in {"Offload", "RollbackPreOffload"} => r.node = ev[i].src
      BY <1>4, <1>5 DEF Target, GoodEvent, WellFormed, EventType, AssignStates
    <3>4. QED
      BY <1>1, <1>4, <1>6, <1>8, <2>1, <3>1, <3>2, <3>3, AnswerEvents
  <2>3. CASE (Execute(r) /\ CannotRef(r, eng[r.node])) \/ Refuse(r)
    <3>1. PICK res \in {"closed", "refused"} : ev' = [ev EXCEPT ![r.id] = Answered(@, res)]
      BY <1>8, <2>3 DEF Execute, Refuse, Reply
    <3>2. res \notin FinalAnswers
      BY <3>1 DEF FinalAnswers
    <3>3. QED
      BY <1>1, <1>6, <1>8, <2>1, <3>1, <3>2, AnswerEvents
  <2>4. QED
    BY <2>2, <2>3
<1>9. QED
  BY <1>7, <1>8

\* A step of a command.
LEMMA RequestEvents ==
    ASSUME Parts, SInv, QInv, EventsInv, OneDown, NEW r \in reqs,
           RequestStep(r) \/ Timeout(r) \/ MemUsageExceeded(r) \/ Refuse(r)
    PROVE  EventsInv'
<1>1. CASE Execute(r) \/ (Refuse(r) /\ Loads(r))
  BY <1>1, EngineEvents
<1>2. CASE MemUsageExceeded(r)
  BY <1>2 DEF MemUsageExceeded, Spend, OneDown
<1>3. CASE ConnectionLost(r) \/ Timeout(r) \/ (Refuse(r) /\ ~Loads(r)) \/ Deliver(r)
  <2>1. UNCHANGED <<stored, failed, up, ptView, dn, eng>>
    BY <1>3 DEF ConnectionLost, Timeout, Refuse, Deliver, metaVars, cmVars, storeVars
  <2>2. ~(r.kind \in {"PreAssign", "Assign"} /\ r.conn # conn[r.node] /\ Deliver(r))
    <3>1. SUFFICES ASSUME r.kind \in {"PreAssign", "Assign"}, r.conn # conn[r.node], Deliver(r)
                   PROVE  FALSE
      OBVIOUS
    <3>2. r.node \in Nodes /\ r.id \in EvIds /\ ~r.exec /\ r.kind # "lost"
      BY <3>1 DEF Deliver, Parts, ReqTyped, RequestType
    <3>3. r.tag = 0
      BY <3>2 DEF QInv, OfActive
    <3>4. Active(r.id)
      BY <3>2, <3>3 DEF Active, Parts, OneCommand
    <3>5. r.conn = 1 /\ conn[r.node] = 1
      BY <3>2, <3>3, <3>4 DEF SInv, ReqInv, QInv, FirstConn, StoresInv
    <3>6. QED
      BY <3>1, <3>5
  <2>3. PICK res \in {"closed", "timeout", "refused", "migrating"} :
            \/ ev' = ev
            \/ r.tag = 0 /\ ev' = [ev EXCEPT ![r.id] = Answered(@, res)]
    <3>1. CASE ConnectionLost(r)
      BY <3>1 DEF ConnectionLost, Reply
    <3>2. CASE Timeout(r)
      BY <3>2 DEF Timeout
    <3>3. CASE Refuse(r)
      BY <3>3 DEF Refuse, Reply
    <3>4. CASE Deliver(r)
      BY <2>2, <3>4 DEF Deliver, Reply
    <3>5. QED
      BY <1>3, <3>1, <3>2, <3>3, <3>4
  <2>4. res \notin FinalAnswers
    BY <2>3 DEF FinalAnswers
  <2>5. QED
    BY <2>1, <2>3, <2>4, ReplyEvents
<1>4. QED
  BY <1>1, <1>2, <1>3 DEF RequestStep

-----------------------------------------------------------------------------
(* Member events, takeovers, moves and the crash.                          *)

\* A store fails in the meta data; its PT goes Offline under the active event.
LEMMA MemberEvents ==
    ASSUME Parts, SInv, QInv, EventsInv, NEW n \in Nodes, MemberFailed(n) PROVE EventsInv'
<1>1. /\ ~up[n] /\ dn' = [dn EXCEPT ![n].status = "Failed"] /\ ptView' = UpdatePtViewStatus(n)
      /\ UNCHANGED <<stored, failed, ev, up, eng>>
  BY DEF MemberFailed, msmVars, storeVars
<1>2. /\ ptView'.owner = ptView.owner
      /\ \/ ptView' = ptView /\ ptView.owner # n
         \/ ptView.owner = n /\ ptView'.status = "Offline"
  BY <1>1 DEF UpdatePtViewStatus, Parts, MetaTyped, PtType
<1>3. \A m \in Nodes : m # n => dn'[m] = dn[m]
  BY <1>1 DEF Parts, MetaTyped
<1>4. OneOwner'
  BY <1>1, <1>2, <1>3 DEF EventsInv, PlaceInv, OneOwner, Parts, MetaTyped, PtType
<1>5. ASSUME NEW e, Busy(e, ptView, up, eng) PROVE Busy(e, ptView', up', eng')
  <2>1. AssignKnows(e, ptView', up)
    BY <1>2, <1>5 DEF Busy, AssignKnows, GivenTo
  <2>2. MoveKnows(e, ptView', up, eng)
    BY <1>1, <1>2, <1>5 DEF Busy, MoveKnows
  <2>3. Served(e, ptView', up, eng)
    BY <1>2, <1>5 DEF Busy, Served
  <2>4. QED
    BY <1>1, <1>5, <2>1, <2>2, <2>3 DEF Busy
<1>6. Idle(ptView, up, eng) => Idle(ptView', up', eng')
  BY <1>1, <1>2 DEF Idle
<1>7. PlaceInv'
  BY <1>1, <1>4, <1>5, <1>6 DEF EventsInv, PlaceInv, Active
<1>8. OpsInv' /\ TasksInv'
  BY <1>1 DEF EventsInv, OpsInv, TasksInv, HasOp, Active
<1>9. QED
  BY <1>7, <1>8 DEF EventsInv

\* The takeover of the dead store's PT.
LEMMA TakeoverEvents ==
    ASSUME Parts, SInv, QInv, EventsInv, NEW n \in Nodes, TakeoverDbPts(n) PROVE EventsInv'
<1>1. /\ ~up[n] /\ UNCHANGED <<ptView, stored, dn, ev, up, eng>>
      /\ \/ failed' = failed
         \/ /\ failed' = failed \cup {[pt |-> ptView, retry |-> FALSE]}
            /\ ptView.owner = n /\ ptView.status = "Offline"
  BY DEF TakeoverDbPts, HandleClusterMember, metaVars, msmVars, storeVars, QInv, StoresInv
<1>2. TasksInv'
  <2>1. \A t \in failed' : LostPt(t.pt, up)
    BY <1>1 DEF EventsInv, TasksInv, LostPt
  <2>2. QED
    BY <1>1, <2>1 DEF EventsInv, TasksInv
<1>3. OpsInv' /\ PlaceInv'
  BY <1>1 DEF EventsInv, OpsInv, PlaceInv, OneOwner, HasOp, Active
<1>4. QED
  BY <1>2, <1>3 DEF EventsInv

\* A new event.
LEMMA AddEvents ==
    ASSUME Parts, SInv, EventsInv, inMap = 0, NEW e, GoodEvent(e), e.mode = "run", e.cur = "Init",
           ~e.persist, e.op = 0, AddEvent(e), Busy(e, ptView, up, eng),
           UNCHANGED <<ptView, stored, dn, up, eng>>, failed' \subseteq failed
    PROVE  EventsInv'
<1>1. PICK i \in EvIds : ev[i] = NoEvent /\ ev' = [ev EXCEPT ![i] = e]
  BY DEF AddEvent
<1>2. \A j \in EvIds : ev'[j] = IF j = i THEN e ELSE ev[j]
  BY <1>1 DEF Parts, EvTyped
<1>3. \A j \in EvIds : ~Active(j)
  BY EvIdsAssumption DEF SInv, OneActive
<1>4. e # NoEvent
  BY GoodIsEvent
<1>5. \A j \in EvIds : Active(j)' <=> j = i
  BY <1>2, <1>3, <1>4 DEF Active
<1>6. \A j \in EvIds : HasOp(j)' => HasOp(j) /\ ev'[j] = ev[j]
  BY <1>2 DEF HasOp
<1>7. Recorded(e, stored)
  BY DEF Recorded
<1>8. OpsInv'
  BY <1>2, <1>5, <1>6, <1>7 DEF EventsInv, OpsInv
<1>9. TasksInv'
  BY <1>2 DEF EventsInv, TasksInv
<1>10. PlaceInv'
  BY <1>2, <1>5 DEF EventsInv, PlaceInv, OneOwner
<1>11. QED
  BY <1>8, <1>9, <1>10 DEF EventsInv

\* An event that begins while there is none.
LEMMA BeginBusy ==
    ASSUME NEW e, e.cur = "Init", e.mode = "run", NEW v, NEW u, NEW g, Idle(v, u, g),
           \/ e.type = "Assign" /\ ~u[v.owner] /\ LostPt(e.pt, u)
           \/ e.type = "Move" /\ v.owner = e.src /\ v.status = "Online" /\ e.pt.status = "Online"
    PROVE  Busy(e, v, u, g)
BY DEF Idle, Busy, AssignKnows, MoveKnows, Served, Disabled, LateStates

\* No event in eventMap.
LEMMA NoneIdle == ASSUME SInv, EventsInv, inMap = 0 PROVE Idle(ptView, up, eng)
<1>1. \A j \in EvIds : ~Active(j)
  BY EvIdsAssumption DEF SInv, OneActive
<1>2. QED
  BY <1>1 DEF EventsInv, PlaceInv

\* The cluster manager assigns a PT that was lost, or tries later.
LEMMA ProcessFailedEvents ==
    ASSUME Parts, SInv, QInv, EventsInv, NEW t \in failed, ProcessFailedDbPt(t) PROVE EventsInv'
<1>1. UNCHANGED <<ptView, stored, dn, up, eng>>
  BY DEF ProcessFailedDbPt, metaVars, storeVars
<1>2. LostPt(t.pt, up) /\ t.pt \in PtType
  BY DEF EventsInv, TasksInv, Parts, LeaderTyped
<1>3. CASE ev' = ev /\ failed' \subseteq failed \cup {[t EXCEPT !.retry = TRUE]}
  <2>1. [t EXCEPT !.retry = TRUE].pt = t.pt
    BY DEF Parts, LeaderTyped
  <2>2. TasksInv'
    <3>1. \A s \in failed' : LostPt(s.pt, up)
      BY <1>2, <1>3, <2>1 DEF EventsInv, TasksInv
    <3>2. QED
      BY <1>1, <1>3, <3>1 DEF EventsInv, TasksInv
  <2>3. OpsInv' /\ PlaceInv'
    BY <1>1, <1>3 DEF EventsInv, OpsInv, PlaceInv, OneOwner, HasOp, Active
  <2>4. QED
    BY <2>2, <2>3 DEF EventsInv
<1>4. ASSUME NEW n \in TakeOverNodes(t), inMap = 0, ptView.status # "Online",
             AddEvent(NewEvent("Assign", NoNode, n, dn[n].alive, t.pt, 0)), failed' = failed \ {t}
      PROVE  EventsInv'
  <2>1. PICK e : e = NewEvent("Assign", NoNode, n, dn[n].alive, t.pt, 0)
    OBVIOUS
  <2>2. n \in Nodes /\ dn[n].alive \in Nat
    BY <1>4 DEF TakeOverNodes, Parts, LeaderTyped, MetaTyped
  <2>3. /\ GoodEvent(e) /\ e.mode = "run" /\ e.cur = "Init" /\ ~e.persist /\ e.type = "Assign"
        /\ e.pt = t.pt /\ e.op = 0
    <3>1. GoodEvent(e) /\ e.mode # "wait"
      BY <1>2, <2>1, <2>2, NewEventGood
    <3>2. QED
      BY <2>1, <3>1 DEF NewEvent
  <2>4. Idle(ptView, up, eng) /\ ~up[ptView.owner]
    BY <1>4, NoneIdle DEF Idle
  <2>5. Busy(e, ptView, up, eng)
    BY <1>2, <2>3, <2>4, BeginBusy
  <2>6. AddEvent(e) /\ failed' \subseteq failed
    BY <1>4, <2>1
  <2>7. QED
    BY <1>1, <1>4, <2>3, <2>5, <2>6, AddEvents
<1>5. QED
  <2>1. \/ ev' = ev /\ failed' = failed \ {t}
        \/ ev' = ev /\ failed' = (failed \ {t}) \cup {[t EXCEPT !.retry = TRUE]}
        \/ \E n \in TakeOverNodes(t) :
              /\ inMap = 0 /\ ptView.status # "Online" /\ failed' = failed \ {t}
              /\ AddEvent(NewEvent("Assign", NoNode, n, dn[n].alive, t.pt, 0))
    BY DEF ProcessFailedDbPt
  <2>2. QED
    BY <1>3, <1>4, <2>1

\* The balancer moves a PT that is Online.
LEMMA StartMoveEvents ==
    ASSUME Parts, SInv, QInv, EventsInv, NEW n \in Nodes, StartMove(n) PROVE EventsInv'
<1>1. /\ UNCHANGED <<ptView, stored, dn, up, eng>> /\ failed' = failed /\ inMap = 0
      /\ ptView.status = "Online"
  BY DEF StartMove, metaVars, storeVars, cmVars
<1>2. PICK e : e = NewEvent("Move", ptView.owner, n, dn[n].alive, ptView, 0)
  OBVIOUS
<1>3. ptView \in PtType /\ ptView.owner \in Nodes /\ dn[n].alive \in Nat
  BY DEF Parts, MetaTyped, PtType
<1>4. /\ GoodEvent(e) /\ e.mode = "run" /\ e.cur = "Init" /\ ~e.persist /\ e.type = "Move"
      /\ e.src = ptView.owner /\ e.pt = ptView /\ e.op = 0
  <2>1. GoodEvent(e) /\ e.mode # "wait"
    BY <1>2, <1>3, NewEventGood
  <2>2. QED
    BY <1>2, <2>1 DEF NewEvent
<1>5. Busy(e, ptView, up, eng)
  BY <1>1, <1>4, NoneIdle, BeginBusy
<1>6. AddEvent(e)
  BY <1>2 DEF StartMove
<1>7. QED
  BY <1>1, <1>4, <1>5, <1>6, AddEvents

\* A store dies with what it has loaded.
LEMMA CrashEvents ==
    ASSUME Parts, SInv, QInv, EventsInv, NEW n \in Nodes, Crash(n) PROVE EventsInv'
<1>1. /\ up' = [up EXCEPT ![n] = FALSE] /\ eng' = [eng EXCEPT ![n] = NoPt]
      /\ UNCHANGED <<ptView, stored, dn, failed, ev>>
  BY DEF Crash, metaVars, msmVars, cmVars
<1>2. \A m \in Nodes : /\ up'[m] <=> up[m] /\ m # n
                       /\ LoadedIn(eng', m) => m # n
                       /\ m # n => eng'[m] = eng[m]
  BY <1>1 DEF Parts, StoreTyped, LoadedIn, NoPt
<1>3. OpsInv'
  BY <1>1 DEF EventsInv, OpsInv, HasOp, Active
<1>4. TasksInv'
  <2>1. ASSUME NEW pt \in PtType, LostPt(pt, up) PROVE LostPt(pt, up')
    BY <1>2, <2>1 DEF LostPt, PtType
  <2>2. \A t \in failed : t.pt \in PtType
    BY DEF Parts, LeaderTyped
  <2>3. \A i \in EvIds : ev[i] # NoEvent => ev[i].pt \in PtType
    BY EvGood DEF Parts, GoodEvent, EventType
  <2>4. QED
    BY <1>1, <2>1, <2>2, <2>3 DEF EventsInv, TasksInv
<1>5. OneOwner'
  BY <1>1, <1>2 DEF EventsInv, PlaceInv, OneOwner, LoadedIn
<1>6. ptView.owner \in Nodes
  BY DEF Parts, MetaTyped, PtType
<1>7. ASSUME NEW e, GoodEvent(e), Busy(e, ptView, up, eng) PROVE Busy(e, ptView', up', eng')
  <2>1. e.dst \in Nodes /\ e.pt.owner \in Nodes /\ (e.type = "Move" => e.src \in Nodes)
    BY <1>7 DEF GoodEvent, WellFormed, EventType, PtType
  <2>2. \A m \in Nodes : /\ up'[m] => up[m]
                         /\ LoadedIn(eng', m) => LoadedIn(eng, m)
                         /\ LoadedIn(eng, m) => LoadedIn(eng', m) \/ ~up'[m]
                         /\ LoadedIn(eng', m) => eng'[m].bgr = eng[m].bgr
    BY <1>2 DEF LoadedIn
  <2>3. AssignKnows(e, ptView', up')
    BY <1>1, <1>6, <1>7, <2>1, <2>2 DEF Busy, AssignKnows, LostPt
  <2>4. MoveKnows(e, ptView', up', eng')
    BY <1>1, <1>7, <2>1, <2>2 DEF Busy, MoveKnows
  <2>5. Served(e, ptView', up', eng')
    BY <1>1, <1>6, <1>7, <2>2 DEF Busy, Served
  <2>6. Disabled(e, eng')
    BY <1>7, <2>2 DEF Busy, Disabled
  <2>7. QED
    BY <1>7, <2>1, <2>2, <2>3, <2>4, <2>5, <2>6 DEF Busy
<1>8. Idle(ptView, up, eng) => Idle(ptView', up', eng')
  BY <1>1, <1>2, <1>6 DEF Idle, LoadedIn
<1>9. \A i \in EvIds : Active(i) => GoodEvent(ev[i])
  BY EvGood DEF Parts, Active
<1>10. PlaceInv'
  BY <1>1, <1>5, <1>7, <1>8, <1>9 DEF EventsInv, PlaceInv, Active
<1>11. QED
  BY <1>3, <1>4, <1>10 DEF EventsInv

-----------------------------------------------------------------------------
\* Every step.
LEMMA EventsStep ==
    ASSUME Parts, SInv, QInv, DriveInv, OneDown, EventsInv, [Next]_vars PROVE EventsInv'
<1>1. CASE UNCHANGED vars
  BY <1>1 DEF vars, metaVars, msmVars, cmVars, storeVars, EventsInv, OpsInv, TasksInv, PlaceInv,
              OneOwner, HasOp, Active
<1>2. CASE Environment
  BY <1>2, NoneReturns, NoLeaderChange, StartMoveEvents, CrashEvents, RequestEvents DEF Environment
<1>3. CASE Next
  BY <1>2, <1>3, NoneReturns, NoLeaderChange, EventEvents, RequestEvents, MemberEvents,
     TakeoverEvents, ProcessFailedEvents DEF Next, MemberStep
<1>4. QED
  BY <1>1, <1>3

\* At first the owner has the PT loaded and its background tasks run.
LEMMA InitWInv == ASSUME OneCrash, Init PROVE WInv
<1>1. PICK o \in Nodes :
        /\ ptView = [owner |-> o, status |-> "Online", ver |-> 1]
        /\ eng = [n \in Nodes |-> IF n = o THEN [st |-> "loaded", bgr |-> TRUE] ELSE NoPt]
  BY DEF Init
<1>2. /\ ev = [i \in EvIds |-> NoEvent] /\ failed = {} /\ up = [n \in Nodes |-> TRUE]
      /\ dn = [n \in Nodes |-> [status |-> "Alive", alive |-> 1]] /\ budget = Budget
  BY DEF Init
<1>3. OneDown
  BY <1>2, BudgetAssumption DEF OneDown, OneCrash, Kinds
<1>4. OpsInv /\ TasksInv
  BY <1>2 DEF OpsInv, TasksInv, HasOp, Active
<1>5. \A n \in Nodes : LoadedIn(eng, n) <=> n = o
  BY <1>1 DEF LoadedIn, NoPt
<1>6. eng[o].bgr = TRUE /\ ptView.owner = o /\ ptView.status = "Online"
  BY <1>1
<1>7. PlaceInv
  BY <1>2, <1>5, <1>6 DEF PlaceInv, Idle, OneOwner, Active
<1>8. QED
  BY <1>3, <1>4, <1>7 DEF WInv

\* All that is known while one store dies and does not come back.
Whole == Parts /\ SInv /\ QInv /\ DriveInv /\ WInv

\* At first.
LEMMA InitWhole == ASSUME NoReturn, OneCrash PROVE Init => Whole
BY InitIInv, InitSafe, InitQInv, InitDrive, InitWInv DEF Whole, NoReturn, StableLeader

\* Every step.
LEMMA StepWhole == Whole /\ [Next]_vars => Whole'
<1> SUFFICES ASSUME Whole, [Next]_vars PROVE Whole'
  OBVIOUS
<1>1. Parts /\ SInv /\ QInv /\ DriveInv /\ OneDown /\ EventsInv
  BY DEF Whole, WInv, EventsInv
<1>2. Parts'
  BY <1>1, StepIInv
<1>3. SInv' /\ QInv' /\ DriveInv'
  BY <1>1, <1>2, StepSafe, StepQInv, StepDrive
<1>4. OneDown' /\ EventsInv'
  BY <1>1, <1>2, OneDownStep, EventsStep
<1>5. QED
  BY <1>2, <1>3, <1>4 DEF Whole, WInv, EventsInv

\* One store dies and does not come back: events, takeovers and engines agree with the
\* meta data about where the PT is.
THEOREM PlaceInvariant == ASSUME NoReturn, OneCrash PROVE Spec => []WInv
<1>1. Whole => WInv
  BY DEF Whole
<1>2. QED
  BY <1>1, InitWhole, StepWhole, PTL DEF Spec

\* One store dies and does not come back: no two stores ever have the PT loaded, whatever
\* moves, timeouts, retries and refusals the state machine meets.
THEOREM NeverLoadedTwice == ASSUME NoReturn, OneCrash PROVE Spec => []AtMostOneLoaded
<1>1. Whole => AtMostOneLoaded
  <2> SUFFICES ASSUME Whole PROVE AtMostOneLoaded
    OBVIOUS
  <2>1. {n \in Nodes : Loaded(n)} \subseteq {ptView.owner}
    BY DEF Whole, WInv, PlaceInv, OneOwner, Loaded, LoadedIn
  <2>2. IsFiniteSet({ptView.owner}) /\ Cardinality({ptView.owner}) = 1
    BY FS_Singleton
  <2>3. /\ Cardinality({n \in Nodes : Loaded(n)}) \in Nat
        /\ Cardinality({n \in Nodes : Loaded(n)}) <= Cardinality({ptView.owner})
    BY <2>1, <2>2, FS_Subset, FS_CardinalityType
  <2>4. QED
    BY <2>2, <2>3 DEF AtMostOneLoaded
<1>2. QED
  BY <1>1, InitWhole, StepWhole, PTL DEF Spec

\* With no event left the PT is where the meta data says.
LEMMA NoActive == ASSUME Whole, NoEventLeft PROVE Idle(ptView, up, eng)
BY DEF Whole, WInv, PlaceInv, NoEventLeft, Active

\* One store dies and does not come back: when no event is left, a PT that is Online is
\* loaded by its owner, once the meta data knows how that store is.
THEOREM OnlineLoaded == ASSUME NoReturn, OneCrash PROVE Spec => []OnlineIsLoaded
<1>1. Whole => OnlineIsLoaded
  <2> SUFFICES ASSUME Whole, ptView.status = "Online", NoEventLeft, MetaKnows(ptView.owner)
               PROVE  Loaded(ptView.owner)
    BY DEF OnlineIsLoaded
  <2>1. Idle(ptView, up, eng)
    BY NoActive
  <2>2. up[ptView.owner]
    BY DEF Whole, WInv, PlaceInv, OneOwner, MetaKnows
  <2>3. QED
    BY <2>1, <2>2 DEF Idle, Loaded, LoadedIn
<1>2. QED
  BY <1>1, InitWhole, StepWhole, PTL DEF Spec

\* One store dies and does not come back: when no event is left, the owner of an Online PT
\* runs the background tasks that preOffload disables, whichever way the moves ended.
THEOREM BackgroundBack == ASSUME NoReturn, OneCrash PROVE Spec => []BackgroundRestored
<1>1. Whole => BackgroundRestored
  <2> SUFFICES ASSUME Whole, NoEventLeft, Loaded(ptView.owner) PROVE eng[ptView.owner].bgr
    BY DEF BackgroundRestored
  <2>1. Idle(ptView, up, eng) /\ ptView.owner \in Nodes
    BY NoActive DEF Whole, Parts, MetaTyped, PtType
  <2>2. QED
    BY <2>1 DEF Idle, Loaded, LoadedIn
<1>2. QED
  BY <1>1, InitWhole, StepWhole, PTL DEF Spec

=============================================================================
