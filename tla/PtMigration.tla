----------------------------- MODULE PtMigration -----------------------------
(***************************************************************************)
(* Assignment and migration of one database partition (PT) in the          *)
(* shared-storage HA policy: the migrate state machine (MSM) of the        *)
(* ts-meta leader, its assign and move events, the replicated meta data    *)
(* they read and write, the cluster manager that notices failed and joined *)
(* stores, and the ts-store engines that carry the commands out.           *)
(*                                                                         *)
(* Every raft proposal, every command, every answer and every half of a    *)
(* member-event handler is one step, so that crashes, restarts, timeouts,  *)
(* refusals and changes of the meta leader may fall between any two.       *)
(* How often each of them happens is bounded by the constant Budget.       *)
(***************************************************************************)
EXTENDS Naturals, FiniteSets

CONSTANTS
    Nodes,      \* the ts-store nodes
    NoNode,     \* the src of an assign event (the code's 0)
    NoEvent,    \* a free slot, or no event in meta.Data.MigrateEvents
    EvIds,      \* slots for event objects in the leader's memory
    Budget      \* Budget[k]: how many faults (or moves) of kind k may happen

\* What the budget bounds: crashes and restarts of stores; commands that time
\* out at the leader (the store goes on, or never saw the request); requests
\* that time out and reach the store later; sends that find no connection to a
\* live store; stores over their memory limit; commands the store refuses
\* (shard move, pending I/O, failed load); losses of the meta leadership;
\* moves asked for by the balancer or the user.
Kinds == {"crash", "restart", "timeout", "late", "noconn", "memfull", "refuse",
          "leader", "move"}

ASSUME NodesAssumption == NoNode \notin Nodes /\ IsFiniteSet(Nodes) /\ Nodes # {}
ASSUME EvIdsAssumption ==
    EvIds \subseteq Nat \ {0} /\ IsFiniteSet(EvIds) /\ EvIds # {}
ASSUME BudgetAssumption == Budget \in [Kinds -> Nat]

VARIABLES
    ptView,     \* meta.Data.PtView: [owner, status, ver] of the PT
    stored,     \* meta.Data.MigrateEvents: the persisted event of the PT
    dn,         \* meta.Data.DataNodes: [status, alive] of each node
    leader,     \* this meta node may propose to raft
    msm,        \* MigrateStateMachine.state
    cm,         \* ClusterManager is not stopped (events recovered)
    members,    \* ClusterManager.memberIds
    handler,    \* per node: a member-event handler that has done its
                \* updateNodeStatus and not yet the rest
    ev,         \* the MigrateEvent objects in the leader's memory
    inMap,      \* MigrateStateMachine.eventMap: slot of the PT's event, or 0
    failed,     \* running processFailedDbPt calls: [pt, retry]
    reqs,       \* PtRequests sent and not answered
    up, conn,   \* stores: process up, connId of its last registration
    eng,        \* stores: Engine.DBPartitions, [st, bgr] of the PT
    clock,      \* the highest DBPTInfo.logicClock the PT has been loaded with
    budget      \* what is left of Budget

metaVars  == <<ptView, stored, dn>>
msmVars   == <<leader, msm, ev, inMap>>
cmVars    == <<cm, members, handler, failed>>
storeVars == <<up, conn, eng, clock>>
vars == <<metaVars, msmVars, cmVars, reqs, storeVars, budget>>

\* States shared by the assign and the move event (equal numbers in the code).
States == {"Init", "PreOffload", "RollbackPreOffload", "PreAssign", "Offload",
           "Offloaded", "Assign", "AssignFailed", "Assigned", "Final"}

\* DbPtInfo; MigrateEvent with what has become of it ("wait": its command is
\* outstanding, "retry": its command is to be sent again, "del": deleteEvent
\* has yet to finish); MigrateEventInfo; PtRequest (tag # 0: nobody waits).
PtType == [owner : Nodes, status : {"Online", "Offline"}, ver : Nat]

EventType ==
    [type : {"Assign", "Move"}, src : Nodes \cup {NoNode}, dst : Nodes,
     conn : Nat, pt : PtType, cur : States, pre : States, persist : BOOLEAN,
     op : Nat, err : BOOLEAN, mode : {"run", "wait", "retry", "del"}]

StoredType ==
    [type : {"Assign", "Move"}, src : Nodes \cup {NoNode}, dst : Nodes,
     pt : PtType, cur : States, op : Nat, conn : {0}]

RequestType ==
    [id : EvIds, node : Nodes, conn : Nat, ver : Nat,
     kind : States \cup {"lost"}, exec : BOOLEAN, tag : Nat]

ASSUME NoEventAssumption == NoEvent \notin EventType \cup StoredType

Spend(k) ==
    /\ budget[k] > 0
    /\ budget' = [budget EXCEPT ![k] = @ - 1]

Running == msm = "Running"

NoPt == [st |-> "none", bgr |-> TRUE]

\* One node owns the PT, has it loaded, and every node has joined.
Init ==
    \E o \in Nodes :
        /\ ptView = [owner |-> o, status |-> "Online", ver |-> 1]
        /\ stored = NoEvent
        /\ dn = [n \in Nodes |-> [status |-> "Alive", alive |-> 1]]
        /\ leader = TRUE /\ msm = "Running" /\ cm = TRUE
        /\ members = Nodes
        /\ handler = [n \in Nodes |-> "none"]
        /\ ev = [i \in EvIds |-> NoEvent] /\ inMap = 0
        /\ failed = {} /\ reqs = {}
        /\ up = [n \in Nodes |-> TRUE]
        /\ conn = [n \in Nodes |-> 1]
        /\ eng = [n \in Nodes |->
                    IF n = o THEN [st |-> "loaded", bgr |-> TRUE] ELSE NoPt]
        /\ clock = 1
        /\ budget = Budget

-----------------------------------------------------------------------------
(* Meta data: the operations of meta.Data the events use.                  *)

\* Mutant: the status the caller saw is not compared.
OwnerUnchanged(pt) == ptView.owner = pt.owner

\* UpdatePtInfo: PtChanged unless owner and status are what the caller saw.
PtUnchanged(pt) == ptView.owner = pt.owner /\ ptView.status = pt.status

\* Mutant: a node that is not alive gets an Online PT.
UpdatePtInfoBlindly(owner, status) ==
    [ptView EXCEPT !.owner = owner, !.status = status]

\* Mutant: the owner is left as it is.
UpdatePtStatusOnly(owner, status) ==
    [ptView EXCEPT !.status = status]

\* UpdatePtInfo, the rest: Online on a node that is not alive is ignored.
UpdatePtInfo(owner, status) ==
    IF status = "Online" /\ dn[owner].status # "Alive" THEN ptView
    ELSE [ptView EXCEPT !.owner = owner, !.status = status]

\* Store.refreshDbPt: owner and status, not the version.
RefreshDbPt(pt) ==
    [pt EXCEPT !.owner = ptView.owner, !.status = ptView.status]

\* An opId no event object and no persisted event has (MaxEventOpId + 1 in the
\* code, where opIds are compared for equality only).
FreshOp ==
    CHOOSE k \in 1..(Cardinality(EvIds) + 2) :
        /\ stored # NoEvent => stored.op # k
        /\ \A i \in EvIds : ev[i] # NoEvent => ev[i].op # k

\* CreateMigrateEvent succeeds: there is no event, or the same one.
CanCreate(e) ==
    \/ stored = NoEvent
    \/ stored.src = e.src /\ stored.dst = e.dst /\ stored.cur = e.cur

\* CreateMigrateEvent: what is persisted.  marshalEvent leaves AliveConnId out.
Created(e) ==
    IF stored # NoEvent THEN stored
    ELSE [type |-> e.type, src |-> e.src, dst |-> e.dst, pt |-> e.pt,
          cur |-> e.cur, op |-> FreshOp, conn |-> 0]

\* updatePtViewStatus(n, Offline) of UpdateNodeStatus.
UpdatePtViewStatus(n) ==
    IF ptView.owner = n
    THEN [ptView EXCEPT !.status = "Offline", !.ver = @ + 1] ELSE ptView

-----------------------------------------------------------------------------
(* Events.                                                                 *)

NewEvent(type, src, dst, c, pt, op) ==
    [type |-> type, src |-> src, dst |-> dst, conn |-> c, pt |-> pt,
     cur |-> "Init", pre |-> "Init", persist |-> FALSE, op |-> op,
     err |-> FALSE, mode |-> "run"]

\* getTarget.
Target(e) ==
    IF e.type = "Assign" \/ e.cur \in {"PreAssign", "Assign"}
    THEN e.dst ELSE e.src

\* AssignEvent.stateTransition.
AssignTransition(s, ok) ==
    IF s = "Assign" THEN IF ok THEN "Assigned" ELSE "AssignFailed" ELSE s

\* MoveEvent.stateTransition.
MoveTransition(s, ok) ==
    CASE s = "PreOffload"         -> IF ok THEN "PreAssign" ELSE "Offloaded"
      [] s = "PreAssign"          -> IF ok THEN "Offload" ELSE "RollbackPreOffload"
      [] s = "Offload"            -> "Offloaded"
      [] s = "Offloaded"          -> "Assign"
      [] s = "Assign"             -> IF ok THEN "Assigned" ELSE "AssignFailed"
      [] s = "RollbackPreOffload" -> IF ok THEN "Final" ELSE "Offloaded"
      [] OTHER                    -> s

\* stateTransition: the new state is persisted before its handler runs, and a
\* failed Assign leaves its error in eventRes.
StateTransition(e, ok) ==
    [e EXCEPT !.pre = e.cur,
              !.cur = IF e.type = "Assign" THEN AssignTransition(e.cur, ok)
                      ELSE MoveTransition(e.cur, ok),
              !.persist = TRUE,
              !.err = e.err \/ (e.cur = "Assign" /\ ~ok)]

\* Mutant: a failed assignment is not tried again.
ReassignMovesOnly(e) ==
    e.type = "Move" /\ e.cur \notin {"Init", "Assigned", "Final"}

\* isReassignNeeded.
IsReassignNeeded(e) ==
    IF e.type = "Assign" THEN e.cur \notin {"Assigned", "Final"}
    ELSE e.cur \notin {"Init", "Assigned", "Final"}

-----------------------------------------------------------------------------
(* Commands and answers.                                                   *)

\* Mutant: a command that timed out has failed.
FinalAnswersAndTimeout == {"ok", "noalive", "noconn", "memfull", "timeout"}

\* handleCmdResult: the answers that make the event transit (NeedChangeStore is
\* never returned by a store).
FinalAnswers == {"ok", "noalive", "noconn", "memfull"}

\* scheduleExistEvent after stateTransition, unless the MSM was stopped.
Transited(e, ok) ==
    IF Running THEN [StateTransition(e, ok) EXCEPT !.mode = "run"] ELSE NoEvent

\* Mutant: an event whose command has to be sent again is dropped.
AnsweredOnce(e, res) ==
    IF res \in FinalAnswers THEN Transited(e, res = "ok") ELSE NoEvent

\* handleMigrateCommandResponse: any error from a node that is not a member is
\* DataNoAlive; a final answer makes the event transit and schedules it, if
\* the MSM still runs; any other answer queues the event for a retry.
Answered(e, res) ==
    LET answer == IF res # "ok" /\ Target(e) \notin members THEN "noalive" ELSE res
    IN  IF answer \in FinalAnswers THEN Transited(e, answer = "ok")
        ELSE [e EXCEPT !.mode = "retry"]

\* PtRequest; a request to a node that is down is lost.
Request(i, e) ==
    [id |-> i, node |-> Target(e), conn |-> e.conn, ver |-> e.pt.ver,
     kind |-> IF up[Target(e)] THEN e.cur ELSE "lost",
     exec |-> FALSE, tag |-> 0]

\* sendMigrateCommand: the request leaves, or there is no connection.
SendMigrateCommand(i, e) ==
    \/ /\ reqs' = reqs \cup {Request(i, e)}
       /\ ev' = [ev EXCEPT ![i] = [e EXCEPT !.mode = "wait"]]
       /\ UNCHANGED budget
    \/ /\ IF up[Target(e)] THEN Spend("noconn") ELSE UNCHANGED budget
       /\ ev' = [ev EXCEPT ![i] = Answered(e, "noconn")]
       /\ UNCHANGED reqs

\* Mutant: an answer that comes late is taken for the outstanding one.
ReplyToAnyone(r, res) ==
    /\ reqs' = reqs \ {r}
    /\ ev' = IF ev[r.id] # NoEvent THEN [ev EXCEPT ![r.id] = Answered(@, res)]
             ELSE ev

\* The store answers request r; nobody waits for an answer that comes late.
Reply(r, res) ==
    /\ reqs' = reqs \ {r}
    /\ ev' = IF r.tag = 0 THEN [ev EXCEPT ![r.id] = Answered(@, res)] ELSE ev

\* Tells the requests nobody waits for any more apart.
OrphanTag == 1 + budget["timeout"] + budget["late"] + budget["leader"]

\* retryMigrateCmd sends the commands of the queued events again.
Retry(i) ==
    /\ ev[i] # NoEvent /\ ev[i].mode = "retry" /\ Running
    /\ SendMigrateCommand(i, ev[i])
    /\ UNCHANGED <<metaVars, leader, msm, inMap, cmVars, storeVars>>

\* The session of r times out at the leader: the store goes on with the command
\* it has begun, or the closed session takes the request along.
Timeout(r) ==
    /\ r.tag = 0 /\ r.kind # "lost" /\ Spend("timeout")
    /\ reqs' = (reqs \ {r}) \cup
               (IF r.exec THEN {[r EXCEPT !.tag = OrphanTag]} ELSE {})
    /\ ev' = [ev EXCEPT ![r.id] = Answered(@, "timeout")]
    /\ UNCHANGED <<metaVars, leader, msm, inMap, cmVars, storeVars>>

\* The session times out while the request is still on its way to the store.
TimeoutLate(r) ==
    /\ r.tag = 0 /\ r.kind # "lost" /\ ~r.exec /\ Spend("late")
    /\ reqs' = (reqs \ {r}) \cup {[r EXCEPT !.tag = OrphanTag]}
    /\ ev' = [ev EXCEPT ![r.id] = Answered(@, "timeout")]
    /\ UNCHANGED <<metaVars, leader, msm, inMap, cmVars, storeVars>>

\* The connection of r broke with its store.
ConnectionLost(r) ==
    /\ r.kind = "lost"
    /\ Reply(r, "closed")
    /\ UNCHANGED <<metaVars, leader, msm, inMap, cmVars, storeVars, budget>>

-----------------------------------------------------------------------------
(* processEvent: one step per iteration, and per raft proposal.            *)

\* The goroutine leaves the loop: deleteEvent begins by emptying eventMap.
Leave(i, e) ==
    /\ ev' = [ev EXCEPT ![i] = [e EXCEPT !.mode = "del"]]
    /\ inMap' = IF inMap = i THEN 0 ELSE inMap

Fail(i, e) == Leave(i, [e EXCEPT !.err = TRUE])

\* At the head of the loop, with nothing left to persist.
AtHandler(i) ==
    /\ ev[i] # NoEvent /\ ev[i].mode = "run"
    /\ Running /\ ~ev[i].persist

\* The MSM was stopped: StateMachineIsNotRunning.
NotRunning(i) ==
    /\ ev[i] # NoEvent /\ ev[i].mode = "run" /\ ~Running
    /\ Fail(i, ev[i])
    /\ UNCHANGED <<metaVars, leader, msm, cmVars, reqs, storeVars, budget>>

\* storeTransitionState (UpdateMigrateEvent), or rollbackLastTransition.
StoreTransitionState(i) ==
    LET e == ev[i] IN
    /\ e # NoEvent /\ e.mode = "run" /\ Running /\ e.persist
    /\ IF leader /\ stored # NoEvent /\ stored.op = e.op
       THEN /\ stored' = [stored EXCEPT !.cur = e.cur]
            /\ ev' = [ev EXCEPT ![i].persist = FALSE]
            /\ UNCHANGED inMap
       ELSE /\ Fail(i, [e EXCEPT !.cur = e.pre])
            /\ UNCHANGED stored
    /\ UNCHANGED <<ptView, dn, leader, msm, cmVars, reqs, storeVars, budget>>

\* initHandler: createMigrateEvent and getEventOpId, which reads what the
\* proposal stored; the event of a recovery has its opId and is not created
\* again.
AssignInit(i) ==
    LET e == ev[i] IN
    /\ AtHandler(i) /\ e.type = "Assign" /\ e.cur = "Init"
    /\ IF e.op # 0 \/ (leader /\ CanCreate(e))
       THEN /\ stored' = IF e.op # 0 THEN stored ELSE Created(e)
            /\ ev' = [ev EXCEPT ![i].cur = "Assign",
                                ![i].op = IF e.op # 0 THEN e.op ELSE Created(e).op]
            /\ UNCHANGED inMap
       ELSE Fail(i, e) /\ UNCHANGED stored
    /\ UNCHANGED <<ptView, dn, leader, msm, cmVars, reqs, storeVars, budget>>

\* moveInitHandler, createMigrateEvent.
MoveCreate(i) ==
    LET e == ev[i] IN
    /\ AtHandler(i) /\ e.type = "Move" /\ e.cur = "Init" /\ e.op = 0
    /\ IF leader /\ CanCreate(e)
       THEN /\ stored' = Created(e)
            /\ ev' = [ev EXCEPT ![i].op = Created(e).op]
            /\ UNCHANGED inMap
       ELSE Fail(i, e) /\ UNCHANGED stored
    /\ UNCHANGED <<ptView, dn, leader, msm, cmVars, reqs, storeVars, budget>>

\* moveInitHandler, updatePtVersion and getPtVersion.
MoveInit(i) ==
    LET e == ev[i] IN
    /\ AtHandler(i) /\ e.type = "Move" /\ e.cur = "Init" /\ e.op # 0
    /\ IF leader
       THEN /\ ptView' = [ptView EXCEPT !.ver = @ + 1]
            /\ ev' = [ev EXCEPT ![i].cur = "PreOffload",
                                ![i].pt.ver = ptView.ver + 1]
            /\ UNCHANGED inMap
       ELSE Fail(i, e) /\ UNCHANGED ptView
    /\ UNCHANGED <<stored, dn, leader, msm, cmVars, reqs, storeVars, budget>>

\* The move handlers that only send their command.
MoveSend(i) ==
    /\ AtHandler(i)
    /\ ev[i].cur \in {"PreOffload", "RollbackPreOffload", "PreAssign", "Offload"}
    /\ SendMigrateCommand(i, ev[i])
    /\ UNCHANGED <<metaVars, leader, msm, inMap, cmVars, storeVars>>

\* updatePtInfo has failed; PtChanged refreshes the event's view of the PT.
PtInfoFails(i, e) ==
    Fail(i, IF leader THEN [e EXCEPT !.pt = RefreshDbPt(e.pt)] ELSE e)

\* moveOffloadedHandler.
MoveOffloaded(i) ==
    LET e == ev[i] IN
    /\ AtHandler(i) /\ e.cur = "Offloaded"
    /\ IF leader /\ PtUnchanged(e.pt)
       THEN /\ ptView' = UpdatePtInfo(e.src, "Offline")
            /\ ev' = [ev EXCEPT ![i] =
                        StateTransition([e EXCEPT !.pt.status = "Offline"], TRUE)]
            /\ UNCHANGED inMap
       ELSE PtInfoFails(i, e) /\ UNCHANGED ptView
    /\ UNCHANGED <<stored, dn, leader, msm, cmVars, reqs, storeVars, budget>>

\* updatePtInfo to owner n, then the command.
AssignTo(i, n) ==
    LET e == ev[i] IN
    /\ AtHandler(i) /\ e.cur = "Assign"
    /\ IF leader /\ PtUnchanged(e.pt)
       THEN /\ ptView' = UpdatePtInfo(n, e.pt.status)
            /\ SendMigrateCommand(i, [e EXCEPT !.pt.owner = n])
            /\ UNCHANGED inMap
       ELSE /\ PtInfoFails(i, e)
            /\ UNCHANGED <<ptView, reqs, budget>>
    /\ UNCHANGED <<stored, dn, leader, msm, cmVars, storeVars>>

\* Mutant: src and dst are mixed up; an assign event has no src.
AssignToSrc(i) == ev[i] # NoEvent /\ AssignTo(i, ev[i].src)

\* startAssignHandler and moveAssignHandler.
AssignHandler(i) == ev[i] # NoEvent /\ AssignTo(i, ev[i].dst)

\* assignedHandler and moveAssignedHandler: Online, ActionFinish.
AssignedHandler(i) ==
    LET e == ev[i] IN
    /\ AtHandler(i) /\ e.cur = "Assigned"
    /\ IF leader /\ PtUnchanged(e.pt)
       THEN ptView' = UpdatePtInfo(e.pt.owner, "Online") /\ Leave(i, e)
       ELSE Fail(i, e) /\ UNCHANGED ptView
    /\ UNCHANGED <<stored, dn, leader, msm, cmVars, reqs, storeVars, budget>>

\* assignFailedHandler, moveAssignFailedHandler (ActionError, needIsolate is
\* never set), moveFinalHandler.
LastHandler(i) ==
    /\ AtHandler(i) /\ ev[i].cur \in {"AssignFailed", "Final"}
    /\ Leave(i, ev[i])
    /\ UNCHANGED <<metaVars, leader, msm, cmVars, reqs, storeVars, budget>>

\* deleteEvent: a failed event is handed back to the cluster manager; removing
\* it from the meta data needs the leadership and looks at the PT only, not
\* at the opId.
DeleteEvent(i) ==
    LET e == ev[i]
        reassign == e.err /\ IsReassignNeeded(e)
    IN
    /\ e # NoEvent /\ e.mode = "del"
    /\ ev' = [ev EXCEPT ![i] = NoEvent]
    /\ stored' = IF e.op # 0 /\ Running /\ leader THEN NoEvent ELSE stored
    /\ failed' = IF reassign /\ Running
                 THEN failed \cup {[pt |-> e.pt, retry |-> TRUE]} ELSE failed
    /\ UNCHANGED <<ptView, dn, leader, msm, inMap, cm, members, handler, reqs,
                   storeVars, budget>>

-----------------------------------------------------------------------------
(* executeEvent: where events come from.                                   *)

\* addToEventMap found no event of this PT.
AddEvent(e) ==
    \E i \in EvIds :
        /\ ev[i] = NoEvent /\ \A j \in EvIds : j < i => ev[j] # NoEvent
        /\ ev' = [ev EXCEPT ![i] = e]
        /\ inMap' = i

\* The nodes getTakeOverNodeForSS may return: the owner if it is a member and
\* this is not a retry, otherwise some member, while the manager runs.
TakeOverNodes(t) ==
    IF t.pt.owner \in members /\ ~t.retry THEN {t.pt.owner}
    ELSE IF cm THEN members ELSE {}

\* processFailedDbPt: nothing to do for an Online PT; a conflicting event makes
\* deleteEvent call processFailedDbPt again, as a retry.
ProcessFailedDbPt(t) ==
    /\ \/ /\ ptView.status = "Online" \/ ~Running \/ (~cm /\ TakeOverNodes(t) = {})
          /\ failed' = failed \ {t}
          /\ UNCHANGED <<ev, inMap>>
       \/ /\ ptView.status # "Online" /\ Running
          /\ \E n \in TakeOverNodes(t) :
                IF inMap = 0
                THEN /\ AddEvent(NewEvent("Assign", NoNode, n, dn[n].alive, t.pt, 0))
                     /\ failed' = failed \ {t}
                ELSE /\ failed' = (failed \ {t}) \cup {[t EXCEPT !.retry = TRUE]}
                     /\ UNCHANGED <<ev, inMap>>
    /\ UNCHANGED <<metaVars, leader, msm, cm, members, handler, reqs, storeVars,
                   budget>>

\* The balancer or the user moves the PT; a conflicting move is dropped.
StartMove(dst) ==
    /\ Running /\ Spend("move")
    /\ ptView.status = "Online" /\ dst # ptView.owner /\ dn[dst].status = "Alive"
    /\ inMap = 0
    /\ AddEvent(NewEvent("Move", ptView.owner, dst, dn[dst].alive, ptView, 0))
    /\ UNCHANGED <<metaVars, leader, msm, cmVars, reqs, storeVars>>

-----------------------------------------------------------------------------
(* Cluster manager.                                                        *)

\* failedHandler / joinHandler, first half: addEventMap and updateNodeStatus.
MemberFailed(n) ==
    /\ leader /\ cm /\ handler[n] = "none"
    /\ ~up[n] /\ dn[n].status = "Alive"
    /\ dn' = [dn EXCEPT ![n].status = "Failed"]
    /\ ptView' = UpdatePtViewStatus(n)
    /\ handler' = [handler EXCEPT ![n] = "failed"]
    /\ UNCHANGED <<stored, msmVars, cm, members, failed, reqs, storeVars, budget>>

\* A join is refused (DataNodeSplitBrain) unless the store registered again.
MemberJoin(n) ==
    /\ leader /\ cm /\ handler[n] = "none"
    /\ up[n] /\ conn[n] # dn[n].alive
    /\ dn' = [dn EXCEPT ![n] = [status |-> "Alive", alive |-> conn[n]]]
    /\ ptView' = UpdatePtViewStatus(n)
    /\ handler' = [handler EXCEPT ![n] = "join"]
    /\ UNCHANGED <<stored, msmVars, cm, members, failed, reqs, storeVars, budget>>

\* handleClusterMember, then getFailedDbPts of takeoverDbPts.
HandleClusterMember(n, joins) ==
    /\ members' = IF joins THEN members \cup {n} ELSE members \ {n}
    /\ failed' = IF ptView.owner = n /\ ptView.status = "Offline"
                 THEN failed \cup {[pt |-> ptView, retry |-> FALSE]} ELSE failed

\* The second half of either handler.
TakeoverDbPts(n) ==
    /\ handler[n] # "none"
    /\ HandleClusterMember(n, handler[n] = "join")
    /\ handler' = [handler EXCEPT ![n] = "none"]
    /\ UNCHANGED <<metaVars, msmVars, cm, reqs, storeVars, budget>>

\* While the manager is stopped a handler leaves the meta data alone
\* (handleStoreEvent returns early) and does the rest.
GossipWhileStopped(n) ==
    /\ ~cm /\ handler[n] = "none" /\ up[n] # (n \in members)
    /\ HandleClusterMember(n, up[n])
    /\ UNCHANGED <<metaVars, msmVars, cm, handler, reqs, storeVars, budget>>

-----------------------------------------------------------------------------
(* Meta leadership.                                                        *)

\* raft takes the leadership away; the MSM does not know yet.
LoseLeadership ==
    /\ leader /\ Spend("leader")
    /\ leader' = FALSE
    /\ UNCHANGED <<metaVars, msm, ev, inMap, cmVars, reqs, storeVars>>

\* checkLeaderChanged: ClusterManager.Stop, MigrateStateMachine.Stop; the retry
\* goroutine sends the queued commands one last time.
StepDown ==
    LET queued == {i \in EvIds : ev[i] # NoEvent /\ ev[i].mode = "retry"} IN
    /\ ~leader /\ Running
    /\ msm' = "Stopped" /\ cm' = FALSE
    /\ reqs' = reqs \cup {Request(i, ev[i]) : i \in queued}
    /\ ev' = [i \in EvIds |-> IF i \in queued THEN [ev[i] EXCEPT !.mode = "wait"]
                              ELSE ev[i]]
    /\ UNCHANGED <<metaVars, leader, inMap, members, handler, failed, storeVars,
                   budget>>

\* MigrateStateMachine.Start on the same meta node: Stop has waited for every
\* processEvent, but events whose answer is outstanding are still around.
LeadAgain ==
    /\ ~leader /\ ~Running
    /\ \A i \in EvIds : ev[i] # NoEvent => ev[i].mode \in {"wait", "retry"}
    /\ leader' = TRUE /\ msm' = "Running" /\ inMap' = 0
    /\ ev' = [i \in EvIds |-> IF ev[i] # NoEvent /\ ev[i].mode = "wait"
                              THEN ev[i] ELSE NoEvent]
    /\ UNCHANGED <<metaVars, cmVars, reqs, storeVars, budget>>

\* Another meta node leads: nothing of the old leader's memory is left, and
\* nobody waits for the answers to its commands.
OtherLeads ==
    /\ ~leader /\ ~Running
    /\ leader' = TRUE /\ msm' = "Running" /\ inMap' = 0
    /\ ev' = [i \in EvIds |-> NoEvent]
    /\ failed' = {}
    /\ handler' = [n \in Nodes |-> "none"]
    /\ reqs' = {[r EXCEPT !.tag = IF r.tag = 0 THEN OrphanTag ELSE r.tag] : r \in reqs}
    /\ UNCHANGED <<metaVars, cm, members, storeVars, budget>>

\* Mutant: the new leader does not look at the persisted events.
SkipRecovery == UNCHANGED <<ev, inMap, failed, stored>>

\* recoverStateMachine executes the persisted event from its initial state; if
\* another event of the PT is in eventMap, deleteEvent removes it again.
RecoverStateMachine ==
    IF stored = NoEvent THEN UNCHANGED <<ev, inMap, failed, stored>>
    ELSE IF inMap = 0
    THEN /\ AddEvent(NewEvent(stored.type, stored.src, stored.dst, stored.conn,
                              stored.pt, stored.op))
         /\ UNCHANGED <<failed, stored>>
    ELSE /\ stored' = NoEvent
         /\ failed' = IF stored.type = "Assign"
                      THEN failed \cup {[pt |-> stored.pt, retry |-> TRUE]}
                      ELSE failed
         /\ UNCHANGED <<ev, inMap>>

\* ClusterManager.Start waits for the handlers still running (eventWg) and for
\* recoverStateMachine; resendPreviousEvent makes every node that is Alive in
\* the meta data a member.  It does not send again an event whose status is
\* in the meta data already, whether or not its handler got any further.
Recover ==
    /\ Running /\ leader /\ ~cm
    /\ \A n \in Nodes : handler[n] = "none"
    /\ \A t \in failed : t.retry
    /\ cm' = TRUE
    /\ members' = members \cup {n \in Nodes : dn[n].status = "Alive"}
    /\ RecoverStateMachine
    /\ UNCHANGED <<ptView, dn, leader, msm, handler, reqs, storeVars, budget>>

-----------------------------------------------------------------------------
(* Stores.                                                                 *)

\* trySetDbPtMigrating of another command holds the PT.
Migrating(n) == \E q \in reqs : q.node = n /\ q.exec

\* MigrationProcessor.Handle: the command is refused, or starts.
Deliver(r) ==
    /\ r.kind # "lost" /\ ~r.exec
    /\ IF r.kind \in {"PreAssign", "Assign"} /\ r.conn # conn[r.node]
       THEN Reply(r, "noalive")
       ELSE IF Migrating(r.node) THEN Reply(r, "migrating")
       ELSE reqs' = (reqs \ {r}) \cup {[r EXCEPT !.exec = TRUE]} /\ UNCHANGED ev
    /\ UNCHANGED <<metaVars, leader, msm, inMap, cmVars, storeVars, budget>>

\* Mutant: RollbackPreOffload leaves the background tasks disabled.
ExecutedNoRollback(r, pt) ==
    CASE r.kind = "PreOffload" /\ pt.st = "loaded" -> [pt EXCEPT !.bgr = FALSE]
      [] r.kind = "PreAssign" /\ pt.st = "none" -> [st |-> "preload", bgr |-> TRUE]
      [] r.kind = "Offload" -> NoPt
      [] r.kind = "Assign" /\ pt.st # "loaded" -> [st |-> "loaded", bgr |-> TRUE]
      [] OTHER -> pt

\* Engine.PreOffload .. Engine.Assign, on success.
Executed(r, pt) ==
    CASE r.kind = "PreOffload" /\ pt.st = "loaded"         -> [pt EXCEPT !.bgr = FALSE]
      [] r.kind = "RollbackPreOffload" /\ pt.st = "loaded" -> [pt EXCEPT !.bgr = TRUE]
      [] r.kind = "PreAssign" /\ pt.st = "none" ->
            [st |-> "preload", bgr |-> TRUE]
      [] r.kind = "Offload" -> NoPt
      [] r.kind = "Assign" /\ pt.st # "loaded" ->
            [st |-> "loaded", bgr |-> TRUE]
      [] OTHER -> pt

\* getPartition(db, pt, true) of PreOffload and its rollback: a preloaded PT
\* cannot be referenced (DBPTClosed).
CannotRef(r, pt) ==
    r.kind \in {"PreOffload", "RollbackPreOffload"} /\ pt.st = "preload"

\* Engine.Assign really loads the PT: it is not loaded yet.
Loads(r) == r.exec /\ r.kind = "Assign" /\ eng[r.node].st # "loaded"

Execute(r) ==
    /\ r.exec
    /\ eng' = [eng EXCEPT ![r.node] = Executed(r, @)]
    /\ clock' = IF Loads(r) /\ r.ver > clock THEN r.ver ELSE clock
    /\ Reply(r, IF CannotRef(r, eng[r.node]) THEN "closed" ELSE "ok")
    /\ UNCHANGED <<metaVars, leader, msm, inMap, cmVars, up, conn, budget>>

\* IsMemUsageExceeded: before a preload, and before a load from nothing.
MemUsageExceeded(r) ==
    /\ r.exec /\ Spend("memfull")
    /\ r.kind = "PreAssign" \/ (r.kind = "Assign" /\ eng[r.node].st = "none")
    /\ Reply(r, "memfull")
    /\ UNCHANGED <<metaVars, leader, msm, inMap, cmVars, storeVars>>

\* The engine fails: a shard is being moved (PreOffload), I/O does not end
\* (Offload), loading fails and is undone (PreAssign, Assign).
CanFail(r, pt) ==
    CASE r.kind = "PreOffload" -> pt.st = "loaded"
      [] r.kind = "Offload"    -> pt.st # "none"
      [] r.kind = "PreAssign"  -> pt.st = "none"
      [] r.kind = "Assign"     -> pt.st # "loaded"
      [] OTHER                 -> FALSE

Refuse(r) ==
    /\ r.exec /\ Spend("refuse") /\ CanFail(r, eng[r.node])
    /\ eng' = IF Loads(r) THEN [eng EXCEPT ![r.node] = NoPt] ELSE eng
    /\ Reply(r, "refused")
    /\ UNCHANGED <<metaVars, leader, msm, inMap, cmVars, up, conn, clock>>

\* The store process dies with everything it runs.
Crash(n) ==
    /\ up[n] /\ Spend("crash")
    /\ up' = [up EXCEPT ![n] = FALSE]
    /\ eng' = [eng EXCEPT ![n] = NoPt]
    /\ reqs' = {r \in reqs : r.node # n}
               \cup {[r EXCEPT !.kind = "lost", !.exec = FALSE] :
                        r \in {q \in reqs : q.node = n /\ q.tag = 0}}
    /\ UNCHANGED <<metaVars, msmVars, cmVars, conn, clock>>

\* It comes back and registers with the meta leader (CreateDataNode: a new
\* ConnID); it joins again later.
Restart(n) ==
    /\ ~up[n] /\ leader /\ Spend("restart")
    /\ up' = [up EXCEPT ![n] = TRUE]
    /\ conn' = [conn EXCEPT ![n] = @ + 1]
    /\ UNCHANGED <<metaVars, msmVars, cmVars, reqs, eng, clock>>

-----------------------------------------------------------------------------
EventStep(i) ==
    \/ Retry(i) \/ NotRunning(i) \/ StoreTransitionState(i)
    \/ AssignInit(i) \/ MoveCreate(i) \/ MoveInit(i) \/ MoveSend(i)
    \/ MoveOffloaded(i) \/ AssignHandler(i) \/ AssignedHandler(i)
    \/ LastHandler(i) \/ DeleteEvent(i)

RequestStep(r) == ConnectionLost(r) \/ Deliver(r) \/ Execute(r)

MemberStep(n) == MemberFailed(n) \/ MemberJoin(n) \/ TakeoverDbPts(n)

LeaderStep == StepDown \/ LeadAgain \/ OtherLeads \/ Recover

Environment ==
    \/ \E n \in Nodes : StartMove(n) \/ Crash(n) \/ Restart(n) \/ GossipWhileStopped(n)
    \/ \E r \in reqs : Timeout(r) \/ TimeoutLate(r) \/ MemUsageExceeded(r) \/ Refuse(r)
    \/ LoseLeadership

Next ==
    \/ \E i \in EvIds : EventStep(i)
    \/ \E r \in reqs : RequestStep(r)
    \/ \E n \in Nodes : MemberStep(n)
    \/ \E t \in failed : ProcessFailedDbPt(t)
    \/ LeaderStep
    \/ Environment

Spec == Init /\ [][Next]_vars

(***************************************************************************)
(* Fairness: the goroutines of the leader run; a store takes the requests  *)
(* that reach it, whether or not somebody still waits for the answer, and  *)
(* finishes the command it runs, or the connection breaks; gossip reports  *)
(* what happened to a store; a leader is elected when there is none.  No   *)
(* fault has to happen.                                                    *)
(***************************************************************************)
Fairness ==
    /\ \A i \in EvIds : WF_vars(EventStep(i))
    /\ \A n \in Nodes, waited, running \in BOOLEAN :
           WF_vars(\E r \in reqs : /\ r.node = n /\ r.exec = running
                                  /\ (r.tag = 0) = waited
                                  /\ RequestStep(r))
    /\ \A n \in Nodes : WF_vars(MemberStep(n))
    /\ WF_vars(\E t \in failed : ProcessFailedDbPt(t))
    /\ WF_vars(LeaderStep)

FairSpec == Spec /\ Fairness

-----------------------------------------------------------------------------
(* Properties.                                                             *)

\* Every variable has the type of the fields it stands for.
TypeOK ==
    /\ ptView \in PtType
    /\ stored \in StoredType \cup {NoEvent}
    /\ dn \in [Nodes -> [status : {"Alive", "Failed"}, alive : Nat]]
    /\ leader \in BOOLEAN
    /\ msm \in {"Running", "Stopped"}
    /\ cm \in BOOLEAN
    /\ members \subseteq Nodes
    /\ handler \in [Nodes -> {"none", "join", "failed"}]
    /\ ev \in [EvIds -> EventType \cup {NoEvent}]
    /\ inMap \in EvIds \cup {0}
    /\ failed \subseteq [pt : PtType, retry : BOOLEAN]
    /\ reqs \subseteq RequestType
    /\ up \in [Nodes -> BOOLEAN]
    /\ conn \in [Nodes -> Nat]
    /\ eng \in [Nodes -> [st : {"none", "preload", "loaded"}, bgr : BOOLEAN]]
    /\ clock \in Nat
    /\ budget \in [Kinds -> Nat]

Loaded(n) == eng[n].st = "loaded"

\* No event object is left and none is persisted.
NoEventLeft == stored = NoEvent /\ \A i \in EvIds : ev[i] = NoEvent

\* What the meta data says of n is what n is, and the manager knows it.
MetaKnows(n) ==
    /\ handler[n] = "none"
    /\ IF up[n] THEN conn[n] = dn[n].alive ELSE dn[n].status = "Failed"

\* At no time do two stores have the PT loaded: both would write its files on
\* the shared storage.
AtMostOneLoaded == Cardinality({n \in Nodes : Loaded(n)}) <= 1

\* Once an assignment or a move is over, a PT that is Online is loaded by the
\* store that owns it.
OnlineIsLoaded ==
    (ptView.status = "Online" /\ NoEventLeft /\ MetaKnows(ptView.owner))
        => Loaded(ptView.owner)

\* ... and runs its compactions again, whichever way the event ended.
BackgroundRestored ==
    (ptView.status = "Online" /\ NoEventLeft /\ Loaded(ptView.owner))
        => eng[ptView.owner].bgr

\* A PT that is Offline is never forgotten: an event, a takeover or a member
\* event that will bring it back is under way, or a leader has yet to recover.
OfflineIsHandled ==
    ptView.status = "Offline" =>
        \/ \E i \in EvIds : ev[i] # NoEvent
        \/ failed # {}
        \/ ~MetaKnows(ptView.owner)
        \/ ~(leader /\ cm)

\* A persisted event is driven by an event object of the leader: it would block
\* every drop of its database for ever otherwise (checkMigrateConflict).
StoredIsDriven ==
    (stored # NoEvent /\ leader /\ cm)
        => \E i \in EvIds : ev[i] # NoEvent /\ ev[i].op = stored.op

\* An event waits exactly while one command of it is outstanding: neither a
\* retry, nor an answer that comes after a timeout, nor the commands an old
\* leader has left behind make a handler run twice or leave an event waiting
\* for an answer that nobody owes it.
OneCommand ==
    /\ \A r \in reqs : r.tag = 0 => ev[r.id] # NoEvent /\ ev[r.id].mode = "wait"
    /\ \A r, q \in reqs : r.tag = 0 /\ q.tag = 0 /\ r.id = q.id => r = q
    /\ \A i \in EvIds : ev[i] # NoEvent /\ ev[i].mode = "wait" =>
            \E r \in reqs : r.tag = 0 /\ r.id = i

\* An Online PT never changes hands: it goes Offline first.
OnlineKeepsOwner ==
    [][ptView.status = "Online" => ptView'.owner = ptView.owner]_vars

\* A store loads the PT only while the meta data names it the owner of a PT that
\* is not Online: writes and queries never find a PT that is being loaded.
LoadedByOwner ==
    [][\A n \in Nodes : ~Loaded(n) /\ Loaded(n)' =>
            ptView.owner = n /\ ptView.status = "Offline"]_vars

\* Every load of the PT has a higher logicClock than all loads before it, so
\* that the ids its index generates are new.
ClockIncreases ==
    [][\A r \in reqs : Loads(r) /\ Loaded(r.node)' => r.ver > clock]_vars

\* The PT ends up Online, loaded by its owner.
EventuallyServed ==
    <>[](ptView.status = "Online" /\ Loaded(ptView.owner))

-----------------------------------------------------------------------------
(* The inductive invariant behind TypeOK and OneCommand.                   *)

AssignStates == {"Init", "Assign", "AssignFailed", "Assigned"}

\* An assign event stays within its own states; a move has a source.
WellFormed(e) ==
    IF e.type = "Assign" THEN e.cur \in AssignStates /\ e.pre \in AssignStates
    ELSE e.src \in Nodes

EventInv ==
    /\ \A i \in EvIds : ev[i] # NoEvent => WellFormed(ev[i])
    /\ stored # NoEvent => (stored.type = "Move" => stored.src \in Nodes)

IInv ==
    /\ TypeOK
    /\ EventInv
    /\ OneCommand
==============================================================================
