---------------------------- MODULE ChannelTypes ----------------------------
(***************************************************************************)
(* Type correctness of the handlers of users, of messages and of apply_txn *)
(* in module Channel, and of the crashes.                                  *)
(***************************************************************************)
EXTENDS Channel, ChannelSigning

(* A handler step of a typed transaction is a typed task. *)
LEMMA TaskType ==
    ASSUME NEW step \in {"grant", "apply", "watch", "init"}, NEW t \in Txns
    PROVE  Task(step, t) \in Tasks
BY DEF Task, Tasks

(* Execute, and the request to the peer. *)
LEMMA ProposeType ==
    ASSUME TypeInv, NEW p \in Participants, NEW op \in UserOps, Propose(p, op)
    PROVE  TypeInv'
<1> DEFINE t    == GenerateProposal(p, op, applied[p])
           pend == HandleProposalSignature(NewPending(t), p)
<1>1. t \in Txns
  BY TypeFacts, ProposalType DEF TypeInv, Ops
<1>2. pend \in PendingTxns /\ pend.txn \in Txns
  BY <1>1, NewPendingType, SignatureEffect DEF NewPending
<1>3. Message("request", Peer(p), t, p, GenerateWitness(applied[p])) \in Messages
  BY <1>1, TypeFacts, PeerIsOther, MessageType
<1> QED
  BY <1>2, <1>3 DEF TypeInv, TypeOK, Propose, volatile, chain

(* The pending transaction that CollectProposalWithSigs saves is typed, and it is
   the held one, or the one of the message when none is held. *)
LEMMA CollectedType ==
    ASSUME TypeInv, NEW p \in Participants, NEW m \in msgs
    PROVE  /\ Held(p, m.txn) \in PendingTxns
           /\ Held(p, m.txn).txn = IF pending[p] = NoPending THEN m.txn ELSE pending[p].txn
           /\ Collected(p, m) \in PendingTxns
           /\ Collected(p, m).txn = Held(p, m.txn).txn
           /\ m.signer \in Collected(p, m).sigs
<1>1. Held(p, m.txn) \in PendingTxns
  BY TypeFacts, NewPendingType DEF Held
<1>2. Held(p, m.txn).txn = IF pending[p] = NoPending THEN m.txn ELSE pending[p].txn
  BY DEF Held, NewPending
<1>3. m.signer \in Participants
  BY TypeFacts
<1> QED
  BY <1>1, <1>2, <1>3, SignatureEffect DEF Collected

(* The handlers of a message from the peer. *)
LEMMA RecvType ==
    ASSUME TypeInv, NEW p \in Participants, NEW m \in msgs, Deliver(p, m)
    PROVE  TypeInv'
<1>0. /\ m.txn \in Txns
      /\ Task("apply", m.txn) \in Tasks /\ Task("grant", m.txn) \in Tasks
  BY TypeFacts, TaskType
<1>1. CASE RecvRequestAgain(p, m)
  <2>1. SubSeq(applied[p], 1, m.txn.csn) \in Seq(AppliedTxns)
    <3>1. m.txn.csn \in Nat /\ m.txn.csn < Len(applied[p])
      BY <1>0, <1>1 DEF RecvRequestAgain, SignedBefore, CheckApplied, Txns
    <3> QED
      BY <3>1, TypeFacts
  <2>2. Message("response", Peer(p), m.txn, p,
                GenerateWitness(SubSeq(applied[p], 1, m.txn.csn))) \in Messages
    BY <2>1, <1>0, WitnessType, PeerIsOther, MessageType, ZenonT(30)
  <2> QED
    BY <2>2, <1>0, <1>1 DEF TypeInv, TypeOK, RecvRequestAgain, stored, chain, history
<1>2. CASE RecvRequest(p, m)
  <2>1. Message("response", Peer(p), m.txn, p, GenerateWitness(applied[p])) \in Messages
    BY <1>0, TypeFacts, PeerIsOther, MessageType
  <2>2. Collected(p, m) \in PendingTxns /\ Collected(p, m).txn \in Txns
    BY <1>0, <1>2, CollectedType DEF RecvRequest, Acceptable, Verified, HandleNewProposal
  <2>3. pending' \in [Participants -> PendingTxns]
        /\ \A q \in Participants : pending'[q] # NoPending => pending'[q].txn \in Txns
    BY <2>2, <1>2 DEF TypeInv, TypeOK, RecvRequest
  <2>4. msgs' \subseteq Messages
    BY <2>1, <1>2 DEF TypeInv, TypeOK, RecvRequest
  <2>5. tasks' \in [Participants -> SUBSET Tasks]
    <3>1. PICK K \in SUBSET {Task("apply", m.txn), Task("grant", m.txn)} :
            tasks' = [tasks EXCEPT ![p] = @ \cup K]
      BY <1>2, Zenon DEF RecvRequest
    <3> QED
      BY <3>1, <1>0, Zenon DEF TypeInv, TypeOK
  <2> QED
    BY <2>3, <2>4, <2>5, <1>2 DEF TypeInv, TypeOK, RecvRequest, chain, history
<1>3. CASE RecvResponse(p, m)
  <2>2. ~SignedBefore(p, m) => Collected(p, m) \in PendingTxns /\ Collected(p, m).txn \in Txns
    BY <1>0, <1>3, CollectedType DEF RecvResponse, Acceptable, Verified, HandleNewProposal
  <2>3. pending' \in [Participants -> PendingTxns]
        /\ \A q \in Participants : pending'[q] # NoPending => pending'[q].txn \in Txns
    BY <2>2, <1>3 DEF TypeInv, TypeOK, RecvResponse
  <2> QED
    BY <2>3, <1>0, <1>3 DEF TypeInv, TypeOK, RecvResponse, chain, history
<1>4. CASE RecvInvalid(p, m)
  BY <1>4 DEF TypeInv, TypeOK, RecvInvalid, stored, volatile, chain, history
<1>5. CASE RecvTooLate(p, m)
  BY <1>5 DEF TypeInv, TypeOK, RecvTooLate, stored, chain, history, Statuses
<1>6. CASE RecvReject(p, m)
  BY <1>0, <1>6, SMTT(30) DEF TypeInv, TypeOK, RecvReject, stored, volatile, chain
<1> QED
  BY <1>1, <1>2, <1>3, <1>4, <1>5, <1>6 DEF Deliver

(* GrantProposal, for the user or for a handler that keeps the tasks rest. *)
LEMMA GrantType ==
    ASSUME TypeInv, NEW p \in Participants, NEW t \in Txns, NEW rest \in SUBSET Tasks,
           GrantProposal(p, t, rest)
    PROVE  TypeInv'
<1>1. Message("response", Peer(p), t, p, GenerateWitness(applied[p])) \in Messages
  BY TypeFacts, PeerIsOther, MessageType
<1>2. HandleProposalSignature(pending[p], p) \in PendingTxns
      /\ HandleProposalSignature(pending[p], p).txn \in Txns
  BY TypeFacts, SignatureEffect DEF GrantProposal, MayGrant
<1>3. Task("apply", t) \in Tasks
  BY TaskType
<1> QED
  BY <1>1, <1>2, <1>3 DEF TypeInv, TypeOK, GrantProposal, chain, history

(* approve_txn and reject_txn. *)
LEMMA UserAnswerType ==
    ASSUME TypeInv, NEW p \in Participants, Approve(p) \/ Reject(p)
    PROVE  TypeInv'
<1>1. pending[p].txn \in Txns /\ answered' \in Nat
  BY DEF TypeInv, TypeOK, Approve, Reject, Answers
<1>2. CASE Approve(p)
  <2>1. tasks' \in [Participants -> SUBSET Tasks]
    BY <1>1, <1>2, TaskType, Zenon DEF Approve, TypeInv, TypeOK
  <2> QED
    BY <2>1, <1>1, <1>2 DEF TypeInv, TypeOK, Approve, stored, chain
<1>3. CASE Reject(p)
  <2>1. Message("reject", Peer(p), pending[p].txn, p, GenerateWitness(applied[p])) \in Messages
    BY <1>1, TypeFacts, PeerIsOther, MessageType
  <2>2. NoPending \in PendingTxns
    BY NewPendingType
  <2> QED
    BY <2>1, <2>2, <1>1, <1>3, SMTT(30) DEF TypeInv, TypeOK, Reject, volatile, chain
<1> QED
  BY <1>2, <1>3

(* ApplyPendingTxn keeps the logs, the pending transactions and the mempool typed. *)
LEMMA ApplyPendingType ==
    ASSUME TypeInv, NEW p \in Participants, ApplyPendingTxn(p)
    PROVE  /\ applied' \in [Participants -> Seq(AppliedTxns)]
           /\ pending' \in [Participants -> PendingTxns]
           /\ \A q \in Participants : pending'[q] # NoPending => pending'[q].txn \in Txns
           /\ mempool' \subseteq Submissions
           /\ WatchTask(pending[p]) \subseteq Tasks
<1> DEFINE pend == HandleApplyProposal(pending[p])
<1>1. pending[p] \in PendingTxns /\ pending[p].txn \in Txns
  BY TypeFacts DEF ApplyPendingTxn, MayApply, Created, Negotiating, Agreed
<1>2. pend \in PendingTxns /\ pend.txn \in Txns /\ pend.sigs \in SUBSET Participants
  BY <1>1, ApplyEffect DEF PendingTxns
<1>3. NoPending \in PendingTxns
  BY NewPendingType
<1>4. Offchain(pend.txn) \in AppliedTxns
  BY <1>2 DEF Offchain, AppliedTxns
<1>5. Submission(pend) \in Submissions
  BY <1>2 DEF Submission, Submissions
<1>6. WatchTask(pending[p]) \subseteq Tasks
  BY <1>1, TaskType DEF WatchTask
<1>7. applied' \in [Participants -> Seq(AppliedTxns)]
  <2>1. \/ applied' = applied
        \/ applied' = [applied EXCEPT ![p] = Append(@, Offchain(pend.txn))]
    BY DEF ApplyPendingTxn
  <2>2. Append(applied[p], Offchain(pend.txn)) \in Seq(AppliedTxns)
    BY <1>4, TypeFacts
  <2> QED
    BY <2>1, <2>2, Zenon DEF TypeInv, TypeOK
<1>8. mempool' \subseteq Submissions
  <2>1. mempool' \subseteq mempool \cup {Submission(pend)}
    BY DEF ApplyPendingTxn
  <2> QED
    BY <2>1, <1>5 DEF TypeInv, TypeOK
<1>9. /\ pending' \in [Participants -> PendingTxns]
      /\ \A q \in Participants : pending'[q] # NoPending => pending'[q].txn \in Txns
  BY <1>2, <1>3, ZenonT(30) DEF TypeInv, TypeOK, ApplyPendingTxn
<1> QED
  BY <1>6, <1>7, <1>8, <1>9

(* The steps of handlers in progress: approve, apply, start to watch. *)
LEMMA TaskStepType ==
    ASSUME TypeInv, NEW p \in Participants, NEW k \in tasks[p], TaskStep(p, k)
    PROVE  TypeInv'
<1>0. k.txn \in Txns /\ tasks[p] \ {k} \in SUBSET Tasks
  BY TypeFacts
<1>1. CASE GrantTxnRequest(p, k)
  <2>1. CASE GrantProposal(p, k.txn, tasks[p] \ {k})
    BY <2>1, <1>0, GrantType
  <2>2. CASE ~GrantProposal(p, k.txn, tasks[p] \ {k})
    BY <2>2, <1>0, <1>1, ZenonT(30) DEF GrantTxnRequest, TypeInv, TypeOK, stored, chain, history
  <2> QED
    BY <2>1, <2>2
<1>2. CASE ApplyTxn(p, k)
  <2>1. CASE ApplyPendingTxn(p)
    <3>1. tasks' \in [Participants -> SUBSET Tasks]
      BY <2>1, <1>0, <1>2, ApplyPendingType, ZenonT(30) DEF ApplyTxn, TypeInv, TypeOK
    <3> QED
      BY <3>1, <2>1, <1>2, ApplyPendingType, Zenon DEF ApplyTxn, TypeInv, TypeOK, history
  <2>2. CASE ~ApplyPendingTxn(p)
    BY <2>2, <1>0, <1>2, Zenon DEF ApplyTxn, TypeInv, TypeOK, history
  <2> QED
    BY <2>1, <2>2
<1>3. CASE StartWatch(p, k)
  <2>1. Watch(k.txn, FALSE) \in Watches
    BY <1>0 DEF Watch, Watches, Txns
  <2> QED
    BY <2>1, <1>0, <1>3, Zenon DEF StartWatch, TypeInv, TypeOK, stored, chain, history
<1> QED
  BY <1>1, <1>2, <1>3 DEF TaskStep

(* force_travel_txn. *)
LEMMA ForceType ==
    ASSUME TypeInv, NEW p \in Participants, ForceTravelTxn(p)
    PROVE  TypeInv'
<1>1. pending[p].txn \in Txns
  BY TypeFacts DEF ForceTravelTxn, MayForce, MayApply, Created, Negotiating, Agreed
<1>2. tasks' \in [Participants -> SUBSET Tasks]
  BY ApplyPendingType, SMTT(30) DEF ForceTravelTxn, TypeInv, TypeOK
<1> QED
  BY <1>1, <1>2, ApplyPendingType, Zenon DEF ForceTravelTxn, TypeInv, TypeOK

(* A process that dies keeps what it stored. *)
LEMMA DownType ==
    ASSUME TypeInv, NEW p \in Participants,
           CrashAfterSubmit(p) \/ Crash(p) \/ \E k \in tasks[p] : InitPanics(p, k)
    PROVE  TypeInv'
<1>1. /\ status' \in [Participants -> Statuses]
      /\ watching' \in [Participants -> Watches \cup {None}]
      /\ tasks' \in [Participants -> SUBSET Tasks]
      /\ timers' \in [Participants -> SUBSET Nat]
  <2>1. Down(p)
    BY ZenonT(30) DEF CrashAfterSubmit, Crash, InitPanics
  <2> QED
    BY <2>1 DEF Down, TypeInv, TypeOK, Statuses
<1>2. CASE CrashAfterSubmit(p)
  <2>1. pending[p] \in PendingTxns /\ pending[p].txn \in Txns
    BY <1>2, TypeFacts DEF CrashAfterSubmit, MayApply, Created, Negotiating, Agreed
  <2>2. Submission(pending[p]) \in Submissions
    BY <2>1 DEF Submission, Submissions, PendingTxns
  <2>3. /\ mempool' = mempool \cup {Submission(pending[p])}
        /\ forced' \in {forced, forced \cup {pending[p].txn}}
        /\ crashes' = crashes + 1
        /\ UNCHANGED <<stored, cursor, msgs, ledger, expired, nextId, refused, answered, timeouts>>
    BY <1>2, ZenonT(30) DEF CrashAfterSubmit
  <2>4. mempool' \subseteq Submissions /\ forced' \subseteq Txns /\ crashes' \in Nat
    BY <2>1, <2>2, <2>3 DEF TypeInv, TypeOK
  <2> QED
    BY <1>1, <2>3, <2>4, ZenonT(30) DEF TypeInv, TypeOK, stored
<1>3. CASE Crash(p)
  <2>1. /\ crashes' = crashes + 1
        /\ UNCHANGED <<stored, cursor, msgs, chain, nextId, forced, refused, answered, timeouts>>
    BY <1>3 DEF Crash
  <2>2. crashes' \in Nat
    BY <2>1 DEF TypeInv, TypeOK
  <2> QED
    BY <1>1, <2>1, <2>2, ZenonT(30) DEF TypeInv, TypeOK, stored, chain
<1>4. ASSUME NEW k \in tasks[p], InitPanics(p, k)
      PROVE  TypeInv'
  BY <1>1, <1>4, SMTT(30) DEF InitPanics, TypeInv, TypeOK, stored, chain, history
<1> QED
  BY <1>2, <1>3, <1>4

(* The variables that the handlers of layer 1 transactions change. *)
HandlerTyped ==
    /\ applied \in [Participants -> Seq(AppliedTxns)]
    /\ pending \in [Participants -> PendingTxns]
    /\ \A p \in Participants : pending[p] # NoPending => pending[p].txn \in Txns
    /\ synced \in [Participants -> Nat \ {0}]
    /\ \A p \in Participants : synced[p] <= Len(ledger)
    /\ status \in [Participants -> Statuses]
    /\ tasks \in [Participants -> SUBSET Tasks]
    /\ timers \in [Participants -> SUBSET Nat]
    /\ mempool \subseteq Submissions
    /\ {nextId, crashes} \subseteq Nat

(* solo_action, with the crashes inside it. *)
LEMMA SoloActionType ==
    ASSUME TypeInv, NEW p \in Participants, NEW op \in SoloOps,
           NEW log \in Seq(AppliedTxns), SoloAction(p, op, log)
    PROVE  /\ pending' \in [Participants -> PendingTxns]
           /\ \A q \in Participants : pending'[q] # NoPending => pending'[q].txn \in Txns
           /\ status' \in [Participants -> Statuses]
           /\ tasks' \in [Participants -> SUBSET Tasks]
           /\ mempool' \subseteq Submissions
           /\ {nextId', crashes'} \subseteq Nat
<1> DEFINE t    == GenerateProposal(p, op, log)
           held == HandleProposalSignature(NewPending(t), p)
<1>1. t \in Txns
  BY ProposalType, SMTT(30) DEF TypeInv, Ops
<1>2. held \in PendingTxns /\ held.txn = t
  BY <1>1, NewPendingType, SignatureEffect, ZenonT(30) DEF NewPending
<1>3. HandleApplyProposal(held) \in PendingTxns /\ HandleApplyProposal(held).txn = t
  BY <1>2, ApplyEffect
<1>4. NoPending \in PendingTxns
  BY NewPendingType
<1>5. Submission(held) \in Submissions
  BY <1>1, <1>2 DEF Submission, Submissions, PendingTxns
<1>6. Task("watch", t) \in Tasks
  BY <1>1, TaskType
<1>7. PICK pend \in {NoPending, held, HandleApplyProposal(held)} :
        pending' = [pending EXCEPT ![p] = pend]
  BY DEF SoloAction
<1>8. mempool' \subseteq mempool \cup {Submission(held)}
  BY DEF SoloAction
<1>9. PICK K \in {{}, tasks[p] \cup {Task("watch", t)}} : tasks' = [tasks EXCEPT ![p] = K]
  BY DEF SoloAction
<1>10. status' \in {status, [status EXCEPT ![p] = "down"]}
       /\ crashes' \in {crashes, crashes + 1} /\ nextId' = nextId + 1
  BY DEF SoloAction
<1>11. /\ pending' \in [Participants -> PendingTxns]
       /\ \A q \in Participants : pending'[q] # NoPending => pending'[q].txn \in Txns
  BY <1>1, <1>2, <1>3, <1>4, <1>7, SMTT(30) DEF TypeInv, TypeOK
<1>12. tasks' \in [Participants -> SUBSET Tasks] /\ mempool' \subseteq Submissions
  BY <1>5, <1>6, <1>8, <1>9, TypeFacts, ZenonT(30) DEF TypeInv, TypeOK
<1>13. status' \in [Participants -> Statuses]
  BY <1>10, ZenonT(30) DEF TypeInv, TypeOK, Statuses
<1>14. {nextId', crashes'} \subseteq Nat
  BY <1>10 DEF TypeInv, TypeOK
<1> QED
  BY <1>11, <1>12, <1>13, <1>14, ZenonT(30)
=============================================================================
