------------------------- MODULE ChannelTypeProofs -------------------------
(***************************************************************************)
(* Type correctness of module Channel, for every set of operations and     *)
(* every bound.                                                            *)
(***************************************************************************)
EXTENDS ChannelTypes

(* apply_travel with a committed transaction. *)
LEMMA ApplyTravelType ==
    ASSUME TypeInv, NEW p \in Participants, NEW i \in DOMAIN ledger,
           ApplyTravel(p, i), ledger' = ledger
    PROVE  /\ Traveled(p, i) \in Seq(AppliedTxns)
           /\ applied' \in [Participants -> Seq(AppliedTxns)]
           /\ synced' \in [Participants -> Nat \ {0}]
           /\ \A q \in Participants : synced'[q] <= Len(ledger')
<1>1. i \in 1 .. Len(ledger) /\ ledger[i] \in LedgerEntries
  BY DEF TypeInv, TypeOK
<1>2. Travel(ledger[i].txn, i) \in AppliedTxns
  BY <1>1 DEF Travel, AppliedTxns, LedgerEntries
<1>3. Traveled(p, i) \in Seq(AppliedTxns)
  BY <1>2, TypeFacts DEF Traveled
<1>4. applied' \in [Participants -> Seq(AppliedTxns)]
  BY <1>3 DEF ApplyTravel, TypeInv, TypeOK
<1>5. /\ synced' \in [Participants -> Nat \ {0}]
      /\ \A q \in Participants : synced'[q] <= Len(ledger')
  BY <1>1 DEF ApplyTravel, TypeInv, TypeOK
<1> QED
  BY <1>3, <1>4, <1>5

(* A handler that changes at most the status of the actor. *)
LEMMA NoChangeType ==
    ASSUME TypeInv, NEW p \in Participants, ledger' = ledger,
           UNCHANGED <<applied, pending, synced, timers>>, NoSoloAction,
           NEW s \in Statuses, status' \in {status, [status EXCEPT ![p] = s]}
    PROVE  HandlerTyped'
<1>1. status' \in [Participants -> Statuses]
  BY Zenon DEF TypeInv, TypeOK
<1> QED
  BY <1>1 DEF HandlerTyped, NoSoloAction, TypeInv, TypeOK

(* A handler that applies a layer 1 transaction and clears the pending one. *)
LEMMA ClearType ==
    ASSUME TypeInv, NEW p \in Participants, NEW i \in DOMAIN ledger, ledger' = ledger,
           ApplyTravel(p, i), pending' = [pending EXCEPT ![p] = NoPending],
           StopIfClosed(p, i), timers' \in {timers, [timers EXCEPT ![p] = @ \cup {i}]},
           NoSoloAction
    PROVE  HandlerTyped'
<1>1. NoPending \in PendingTxns
  BY NewPendingType
<1>2. status' \in [Participants -> Statuses]
  BY DEF StopIfClosed, TypeInv, TypeOK, Statuses
<1>3. timers' \in [Participants -> SUBSET Nat]
  <2>1. i \in Nat
    BY DEF TypeInv, TypeOK
  <2>2. timers \in [Participants -> SUBSET Nat]
    BY DEF TypeInv, TypeOK
  <2> QED
    BY <2>1, <2>2
<1>4. /\ pending' \in [Participants -> PendingTxns]
      /\ \A q \in Participants : pending'[q] # NoPending => pending'[q].txn \in Txns
  BY <1>1 DEF TypeInv, TypeOK
<1> QED
  BY <1>2, <1>3, <1>4, ApplyTravelType, ZenonT(30) DEF HandlerTyped, NoSoloAction, TypeInv, TypeOK

(* ApplyCoSignedTxn and ApplySoloTxn. *)
LEMMA HandlerType ==
    ASSUME TypeInv, NEW p \in Participants, NEW i \in DOMAIN ledger, ledger' = ledger,
           ApplyCoSignedTxn(p, i) \/ ApplySoloTxn(p, i)
    PROVE  HandlerTyped'
<1>1. CASE Fails(p) \/ Outdated(p, i)
  <2>1. PICK s \in {"stopped", "unimplemented"} : status' \in {status, [status EXCEPT ![p] = s]}
    BY <1>1 DEF Fails, Outdated
  <2> QED
    BY <2>1, <1>1, NoChangeType DEF Fails, Outdated, Statuses
<1>2. CASE /\ ApplyTravel(p, i) /\ pending' = [pending EXCEPT ![p] = NoPending]
           /\ StopIfClosed(p, i) /\ timers' \in {timers, [timers EXCEPT ![p] = @ \cup {i}]}
           /\ NoSoloAction
  BY <1>2, ClearType, Zenon
<1>3. CASE SoloAction(p, "challenge", applied[p]) /\ UNCHANGED <<applied, synced, timers>>
  BY <1>3, TypeFacts, SoloActionType, ZenonT(30) DEF HandlerTyped, SoloOps, TypeInv, TypeOK
<1>4. CASE /\ ApplyTravel(p, i) /\ SoloAction(p, "resolve", Traveled(p, i))
           /\ timers' = timers
  BY <1>4, ApplyTravelType, SoloActionType, ZenonT(30) DEF HandlerTyped, SoloOps, TypeInv, TypeOK
<1>5. CASE ApplyCoSignedTxn(p, i)
  BY <1>5, <1>1, <1>2, Zenon DEF ApplyCoSignedTxn
<1>6. CASE ApplySoloTxn(p, i)
  BY <1>6, <1>1, <1>2, <1>3, <1>4, ZenonT(30) DEF ApplySoloTxn
<1> QED
  BY <1>5, <1>6

(* The layer 1 events an actor handles, and the timeout of its watch. *)
LEMMA ChainEventType ==
    ASSUME TypeInv, NEW p \in Participants, ChainEvent(p) \/ WatchTimeout(p)
    PROVE  TypeInv'
<1>1. CASE WatchAndApply(p)
  <2>1. PICK i \in DOMAIN ledger : ApplyCoSignedTxn(p, i) \/ ApplySoloTxn(p, i)
    BY <1>1 DEF WatchAndApply, Watched
  <2>2. HandlerTyped'
    BY <2>1, <1>1, HandlerType DEF WatchAndApply
  <2> QED
    BY <2>2, <1>1, Zenon DEF WatchAndApply, HandlerTyped, TypeInv, TypeOK
<1>2. CASE StageChange(p)
  <2>1. HandlerTyped'
    <3>1. CASE ApplySoloTxn(p, cursor[p] + 1)
      BY <3>1, <1>2, HandlerType DEF StageChange
    <3>2. CASE ~ApplySoloTxn(p, cursor[p] + 1)
      BY <3>2, <1>2, NoChangeType DEF StageChange, Statuses
    <3> QED
      BY <3>1, <3>2
  <2>2. cursor' \in [Participants -> Nat]
    BY <1>2 DEF StageChange, TypeInv, TypeOK
  <2> QED
    BY <2>1, <2>2, <1>2, Zenon DEF StageChange, HandlerTyped, TypeInv, TypeOK
<1>3. ASSUME NEW i \in timers[p], ChannelLockTimeout(p, i)
      PROVE  TypeInv'
  <2>1. timers' \in [Participants -> SUBSET Nat]
    BY <1>3 DEF ChannelLockTimeout, TypeInv, TypeOK
  <2>2. CASE SoloAction(p, "closeLock", applied[p])
    BY <2>1, <2>2, <1>3, TypeFacts, SoloActionType, Zenon
       DEF ChannelLockTimeout, SoloOps, TypeInv, TypeOK
  <2>3. CASE ~SoloAction(p, "closeLock", applied[p])
    BY <2>1, <2>3, <1>3 DEF ChannelLockTimeout, NoSoloAction, TypeInv, TypeOK
  <2> QED
    BY <2>2, <2>3
<1>4. CASE WatchTimeout(p)
  <2>1. status' \in {status, [status EXCEPT ![p] = "stopped"]}
    BY <1>4 DEF WatchTimeout, Fails
  <2>2. HandlerTyped'
    BY <2>1, <1>4, NoChangeType, Zenon DEF WatchTimeout, Fails, Statuses
  <2>3. watching' \in [Participants -> Watches \cup {None}] /\ timeouts' \in Nat
    BY <1>4 DEF WatchTimeout, TypeInv, TypeOK
  <2>4. UNCHANGED <<cursor, msgs, ledger, expired, forced, refused, answered>>
    BY <1>4 DEF WatchTimeout
  <2> QED
    BY <2>2, <2>3, <2>4 DEF HandlerTyped, TypeInv, TypeOK
<1> QED
  BY <1>1, <1>2, <1>3, <1>4, SMTT(30) DEF ChainEvent

(* The steps of layer 1. *)
LEMMA ChainType ==
    ASSUME TypeInv,
           (\E x \in mempool : ChainCommit(x)) \/ (\E i \in DOMAIN ledger : LockExpires(i))
    PROVE  TypeInv'
<1>1. ASSUME NEW x \in mempool, ChainCommit(x)
      PROVE  TypeInv'
  <2> DEFINE e == EntryOf(ledger[Len(ledger)].seqs, x)
  <2>0. ledger' = Append(ledger, e) /\ ledger \in Seq(LedgerEntries)
    BY <1>1 DEF ChainCommit, TypeInv, TypeOK
  <2>1. e \in LedgerEntries
    <3>1. ledger[Len(ledger)] \in LedgerEntries /\ x \in Submissions
      BY DEF TypeInv, TypeOK
    <3>2. ledger[Len(ledger)].seqs \in [Participants -> Nat]
      BY <3>1 DEF LedgerEntries
    <3> QED
      BY <3>1, <3>2, EntryType
  <2> HIDE DEF e
  <2>2. ledger' \in Seq(LedgerEntries) /\ ledger' # << >> /\ Len(ledger') = Len(ledger) + 1
    BY <2>0, <2>1
  <2>3. \A p \in Participants : synced'[p] <= Len(ledger')
    BY <2>2, <1>1 DEF ChainCommit, TypeInv, TypeOK, stored
  <2> QED
    BY <2>2, <2>3, <1>1 DEF ChainCommit, TypeInv, TypeOK, stored, volatile, history
<1>2. ASSUME NEW i \in DOMAIN ledger, LockExpires(i)
      PROVE  TypeInv'
  <2>1. i \in Nat
    BY DEF TypeInv, TypeOK
  <2> QED
    BY <2>1, <1>2, Zenon DEF LockExpires, TypeInv, TypeOK, stored, volatile, history
<1> QED
  BY <1>1, <1>2

(* Channel::load, started and Node::init. *)
LEMMA RestartType ==
    ASSUME TypeInv, NEW p \in Participants, Restart(p)
    PROVE  TypeInv'
<1> DEFINE pend == pending[p]
<1>0. pend \in PendingTxns /\ (pend.life # Created => pend.txn \in Txns)
  BY TypeFacts
<1>1. pend.txn \in Txns => Watch(pend.txn, TRUE) \in Watches
  BY DEF Watch, Watches, Txns
<1>2. watching' \in [Participants -> Watches \cup {None}]
  <2> DEFINE travel == \/ pend.life = Traveling
                       \/ pend.life = Agreed /\ IsTravelTxn(pend.txn.op)
             w == IF travel THEN Watch(pend.txn, TRUE) ELSE None
  <2>1. watching' = [watching EXCEPT ![p] = w]
    BY DEF Restart, LoadPending
  <2>2. w \in Watches \cup {None}
    <3>1. travel => pend.life # Created
      BY DEF Traveling, Agreed, Created
    <3>2. travel => Watch(pend.txn, TRUE) \in Watches
      BY <3>1, <1>0, <1>1, Zenon
    <3> HIDE DEF travel, pend
    <3> QED
      BY <3>2, Zenon
  <2> HIDE DEF w
  <2> QED
    BY <2>1, <2>2 DEF TypeInv, TypeOK
<1>3. msgs' \subseteq Messages /\ tasks' \in [Participants -> SUBSET Tasks]
  <2> DEFINE rest == {m \in msgs : m.to # p}
  <2>0. msgs \subseteq Messages /\ tasks \in [Participants -> SUBSET Tasks]
    BY DEF TypeInv, TypeOK
  <2>1. \/ msgs' = rest /\ tasks' = [tasks EXCEPT ![p] = {}]
        \/ /\ pend.life = Negotiating
           /\ msgs' = rest \cup {Resend(p, pend)}
           /\ tasks' = [tasks EXCEPT ![p] = {Task("init", pend.txn)}]
    BY Zenon DEF Restart, LoadPending, NodeInit
  <2>2. ASSUME pend.life = Negotiating
        PROVE  Resend(p, pend) \in Messages /\ Task("init", pend.txn) \in Tasks
    <3>1. pend.txn \in Txns /\ pend.txn.proposer \in Participants
      BY <1>0, <2>2 DEF Negotiating, Created, Txns
    <3> QED
      BY <3>1, TypeFacts, PeerIsOther, MessageType, TaskType DEF Resend
  <2> HIDE DEF pend
  <2> QED
    BY <2>0, <2>1, <2>2
<1>4. /\ applied' \in [Participants -> Seq(AppliedTxns)]
      /\ pending' \in [Participants -> PendingTxns]
      /\ \A q \in Participants : pending'[q] # NoPending => pending'[q].txn \in Txns
      /\ mempool' \subseteq Submissions
  <2>1. CASE pend.life = Agreed
    BY <2>1, ApplyPendingType DEF Restart, LoadPending
  <2>2. CASE pend.life # Agreed
    BY <2>2, <1>0, Zenon DEF Restart, LoadPending, TypeInv, TypeOK
  <2> QED
    BY <2>1, <2>2
<1>5. /\ status' \in [Participants -> Statuses]
      /\ timers' \in [Participants -> SUBSET Nat]
      /\ cursor' \in [Participants -> Nat]
  BY DEF Restart, TypeInv, TypeOK, Statuses
<1> QED
  BY <1>2, <1>3, <1>4, <1>5, Zenon DEF Restart, TypeInv, TypeOK, history

(* The opened channel. *)
LEMMA InitType == Init => TypeInv
<1> SUFFICES ASSUME Init PROVE TypeInv
  OBVIOUS
<1>1. \E p : p \in Participants
  BY ParticipantsAssumption
<1>2. OpenTxn \in Txns
  BY <1>1 DEF OpenTxn, Opener, Txns, Ops
<1>3. Travel(OpenTxn, 1) \in AppliedTxns
  BY <1>2 DEF Travel, AppliedTxns
<1>4. EntryOf([p \in Participants |-> 0],
              [txn |-> OpenTxn, sigs |-> Participants]) \in LedgerEntries
  BY <1>2, EntryType DEF Submissions
<1>5. NoPending \in PendingTxns
  BY NewPendingType
<1>6. ledger \in Seq(LedgerEntries) /\ ledger # << >> /\ Len(ledger) = 1
  BY <1>4 DEF Init
<1>7. applied \in [Participants -> Seq(AppliedTxns)]
  BY <1>3 DEF Init
<1> QED
  BY <1>5, <1>6, <1>7 DEF Init, TypeInv, TypeOK, Statuses

(* Every step keeps the type invariant. *)
LEMMA TypeStep ==
    ASSUME TypeInv, [Next]_vars
    PROVE  TypeInv'
<1>1. CASE UNCHANGED vars
  BY <1>1 DEF vars, stored, volatile, chain, history, TypeInv, TypeOK
<1>2. ASSUME NEW p \in Participants, UserStep(p)
      PROVE  TypeInv'
  BY <1>2, ProposeType, UserAnswerType, ForceType DEF UserStep
<1>3. ASSUME NEW p \in Participants, NEW m \in msgs, Deliver(p, m)
      PROVE  TypeInv'
  BY <1>3, RecvType
<1>4. ASSUME NEW p \in Participants, NEW k \in tasks[p], TaskStep(p, k)
      PROVE  TypeInv'
  BY <1>4, TaskStepType
<1>5. ASSUME NEW p \in Participants, ChainEvent(p) \/ Failure(p) \/ Restart(p)
      PROVE  TypeInv'
  BY <1>5, ChainEventType, DownType, RestartType DEF Failure
<1>6. CASE (\E x \in mempool : ChainCommit(x)) \/ (\E i \in DOMAIN ledger : LockExpires(i))
  BY <1>6, ChainType
<1>7. ASSUME NEW m \in msgs, Lose(m)
      PROVE  TypeInv'
  BY <1>7 DEF Lose, stored, volatile, chain, history, TypeInv, TypeOK
<1> QED
  BY <1>1, <1>2, <1>3, <1>4, <1>5, <1>6, <1>7 DEF Next

(***************************************************************************)
(* Every state the two actors, their nodes and layer 1 reach is well       *)
(* typed; in particular, the channel state of an actor is one that layer 1 *)
(* has committed.                                                          *)
(***************************************************************************)
THEOREM TypeCorrect == Spec => []TypeOK
<1>1. TypeInv /\ [Next]_vars => TypeInv'
  BY TypeStep
<1>2. TypeInv => TypeOK
  BY DEF TypeInv
<1> QED
  BY <1>1, <1>2, InitType, PTL DEF Spec
=============================================================================
