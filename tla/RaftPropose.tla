----------------------------- MODULE RaftPropose -----------------------------
(***************************************************************************)
(* Write requests on a replicated partition (Engine.WriteToRaft) and the   *)
(* goroutines that answer them: proposals, which hands them to the raft    *)
(* library, and readCommitFromRaft, which applies what was committed and   *)
(* tells the request on its channel in RaftNode.DataCommittedC.            *)
(*                                                                         *)
(* A request is its propose id.  The raft library is external: it commits  *)
(* a proposal or loses it.  The locks of DataCommittedC are held within a  *)
(* step except by RetCommittedDataC, which sends with dataCommittedMu held.*)
(***************************************************************************)
EXTENDS Naturals, FiniteSets

CONSTANTS Requests,  \* the write requests
          None       \* no request

VARIABLES pc,        \* where a request is in WriteToRaft
          answer,    \* the error it returns
          chans,     \* keys of DataCommittedC
          proposing, \* what proposals has in node.Propose
          inRaft,    \* proposals the raft library has accepted
          ap,        \* readCommitFromRaft: what it does for which request
          written    \* history: requests whose rows this replica has written

vars == <<pc, answer, chans, proposing, inRaft, ap, written>>

Reading == [at |-> "commit", r |-> None]

Init == /\ pc = [r \in Requests |-> "new"]
        /\ answer = [r \in Requests |-> "none"]
        /\ chans = {}
        /\ proposing = None
        /\ inRaft = {}
        /\ ap = Reading
        /\ written = {}

\* dataCommittedMu.Lock has to wait for the reader.
Locked == ap.at = "send"

AddCommittedDataC(r) ==
  /\ pc[r] = "new" /\ ~Locked
  /\ chans' = chans \cup {r}
  /\ pc' = [pc EXCEPT ![r] = "propose"]
  /\ UNCHANGED <<answer, proposing, inRaft, ap, written>>

\* dbpt.proposeC <- marshal
Propose(r) ==
  /\ pc[r] = "propose" /\ proposing = None
  /\ proposing' = r
  /\ pc' = [pc EXCEPT ![r] = "wait"]
  /\ UNCHANGED <<answer, chans, inRaft, ap, written>>

\* node.Propose returns: the proposal is accepted, or its error is logged.
Proposed ==
  /\ proposing # None
  /\ inRaft' \in {inRaft, inRaft \cup {proposing}}
  /\ proposing' = None
  /\ UNCHANGED <<pc, answer, chans, ap, written>>

\* The raft library loses a proposal (a change of the leader).
Lose(r) == /\ r \in inRaft
           /\ inRaft' = inRaft \ {r}
           /\ UNCHANGED <<pc, answer, chans, proposing, ap, written>>

\* readCommitFromRaft receives a commit.
ReadCommit(r) ==
  /\ r \in inRaft /\ ap.at = "commit"
  /\ inRaft' = inRaft \ {r}
  /\ ap' = [at |-> "deal", r |-> r]
  /\ UNCHANGED <<pc, answer, chans, proposing, written>>

\* dealCommitData: the rows are written, or an error is logged.
DealCommitData ==
  /\ ap.at = "deal"
  /\ ap' = [ap EXCEPT !.at = "ret"]
  /\ written' \in {written, written \cup {ap.r}}
  /\ UNCHANGED <<pc, answer, chans, proposing, inRaft>>

\* RetCommittedDataC: nobody is told, or the send begins under the lock.
RetCommittedDataC ==
  /\ ap.at = "ret"
  /\ ap' = IF ap.r \in chans THEN [ap EXCEPT !.at = "send"] ELSE Reading
  /\ UNCHANGED <<pc, answer, chans, proposing, inRaft, written>>

\* The request receives.  The deferred retCommittedDataC was given the error of
\* Unmarshal, so it is told nil whatever dealNormalData returned.
Committed(r) ==
  /\ pc[r] = "wait" /\ ap.at = "send" /\ ap.r = r
  /\ answer' = [answer EXCEPT ![r] = "nil"]
  /\ pc' = [pc EXCEPT ![r] = "remove"]
  /\ ap' = Reading
  /\ UNCHANGED <<chans, proposing, inRaft, written>>

\* time.After(10 * time.Second)
Timeout(r) ==
  /\ pc[r] = "wait"
  /\ answer' = [answer EXCEPT ![r] = "timeout"]
  /\ pc' = [pc EXCEPT ![r] = "remove"]
  /\ UNCHANGED <<chans, proposing, inRaft, ap, written>>

\* The deferred RemoveCommittedDataC, then WriteToRaft returns.
RemoveCommittedDataC(r) ==
  /\ pc[r] = "remove" /\ ~Locked
  /\ chans' = chans \ {r}
  /\ pc' = [pc EXCEPT ![r] = "returned"]
  /\ UNCHANGED <<answer, proposing, inRaft, ap, written>>

RequestStep(r) == \/ AddCommittedDataC(r) \/ Propose(r) \/ Committed(r)
                  \/ Timeout(r) \/ RemoveCommittedDataC(r)
ApplyStep == DealCommitData \/ RetCommittedDataC

Next == \/ \E r \in Requests : RequestStep(r) \/ Lose(r) \/ ReadCommit(r)
        \/ Proposed \/ ApplyStep

\* Goroutines run, timers fire, and the raft library answers Propose (the group
\* has a leader again in the end); nothing forces it to commit.
Fairness == /\ \A r \in Requests : SF_vars(RequestStep(r))
            /\ WF_vars(Proposed) /\ WF_vars(ApplyStep)

Spec == Init /\ [][Next]_vars
FairSpec == Spec /\ Fairness

\* A request that waits for its commit returns: with what the commit says or
\* after ten seconds, in which case RetCommittedDataC finds its id gone and goes on.
RequestsReturn == \A r \in Requests : (pc[r] = "wait") ~> (pc[r] = "returned")

\* A request that is told nil had its rows written by this replica.
AckedIsWritten == \A r \in Requests : answer[r] = "nil" => r \in written
=============================================================================
