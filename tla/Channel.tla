------------------------------ MODULE Channel ------------------------------
(***************************************************************************)
(* Two Channel actors (sgwallet/src/channel/channel.rs) of one opened      *)
(* channel, the wallet and node handlers that drive them                   *)
(* (sgwallet/src/wallet.rs, node/node_internal/src/node.rs), the messages  *)
(* between the two nodes, and layer 1.                                     *)
(*                                                                         *)
(* A Channel actor handles one message at a time; a node spawns a handler  *)
(* per network message, and such a handler sends several messages to the   *)
(* actor, so the messages of two handlers interleave.  tasks[p] holds the  *)
(* handlers of p between two of their actor messages.  Two messages, or    *)
(* two handlers, that are identical and under way at once count as one.    *)
(*                                                                         *)
(* An error message only completes a future of the node that receives it.  *)
(* The one that reports a rejection is kept, the ones that report a failed *)
(* verification or application change nothing here and are left out.       *)
(***************************************************************************)
EXTENDS ChannelState

CONSTANTS
    AutoApprove,    \* the node option auto_approve
    Lossy,          \* messages between the nodes may be lost
    Proposers,      \* participants whose user proposes transactions
    MaxProposals,   \* bound: proposals are made while nextId <= MaxProposals
    MaxForces,      \* bound: forced transactions
    MaxCrashes,     \* bound: process crashes
    MaxTimeouts     \* bound: layer 1 watches that time out

ASSUME BoundsAssumption ==
    /\ {AutoApprove, Lossy} \subseteq BOOLEAN
    /\ Proposers \subseteq Participants
    /\ {MaxProposals, MaxForces, MaxCrashes, MaxTimeouts} \subseteq Nat

(***************************************************************************)
(* Offline execution (external, the Move VM): scripts run on an open       *)
(* channel only, the channel's own layer 1 entry points always.            *)
(***************************************************************************)
VmExecutes(p, op) == op \in SoloOps \/ LocalStage(p) = "Opened"

Init ==
    /\ applied  = [p \in Participants |-> <<Travel(OpenTxn, 1)>>]
    /\ pending  = [p \in Participants |-> NoPending]
    /\ synced   = [p \in Participants |-> 1]
    /\ status   = [p \in Participants |-> "running"]
    /\ watching = [p \in Participants |-> None]
    /\ tasks    = [p \in Participants |-> {}]
    /\ timers   = [p \in Participants |-> {}]
    /\ cursor   = [p \in Participants |-> 1]
    /\ msgs     = {}
    /\ mempool  = {}
    /\ ledger   = <<EntryOf([p \in Participants |-> 0],
                            [txn |-> OpenTxn, sigs |-> Participants])>>
    /\ expired  = {}
    /\ nextId   = 1
    /\ forced   = {}
    /\ refused  = {}
    /\ answered = 0
    /\ crashes  = 0
    /\ timeouts = 0

-----------------------------------------------------------------------------
(***************************************************************************)
(* A user proposes: WalletHandle::execute_async sends Execute to the       *)
(* actor, and the node sends the request to the peer.  Execute fails, and  *)
(* nothing changes, while another transaction is pending.                  *)
(***************************************************************************)
Propose(p, op) ==
    LET t == GenerateProposal(p, op, applied[p])
    IN  /\ nextId <= MaxProposals
        /\ Ready(p)
        /\ pending[p] = NoPending
        /\ VmExecutes(p, op)
        /\ pending' = [pending EXCEPT ![p] = HandleProposalSignature(NewPending(t), p)]
        /\ msgs' = msgs \cup {Message("request", Peer(p), t, p,
                                      GenerateWitness(applied[p]))}
        /\ nextId' = nextId + 1
        /\ UNCHANGED <<applied, synced, volatile, chain,
                       forced, refused, answered, crashes, timeouts>>

-----------------------------------------------------------------------------
(***************************************************************************)
(* CollectProposalWithSigs, sent for a request (verify_txn) and for a      *)
(* response (verify_txn_response).                                         *)
(***************************************************************************)

(* The transaction is applied already: the own signature is in the store. *)
SignedBefore(p, m) ==
    /\ CheckApplied(applied[p], m.txn.csn)
    /\ TxnAt(applied[p], m.txn.csn).kind = "Offchain"
    /\ TxnAt(applied[p], m.txn.csn).txn = m.txn

Held(p, t) == IF pending[p] = NoPending THEN NewPending(t) ELSE pending[p]

(* Mutant of HandleNewProposal: any proposal passes for the pending one. *)
HandleAnyProposal(p, t) == t.csn >= Csn(p)

(* handle_new_proposal and verify_proposal succeed. *)
HandleNewProposal(p, t) ==
    /\ t.csn >= Csn(p)
    /\ \/ /\ pending[p] = NoPending
          /\ t.csn <= Csn(p)
          /\ VmExecutes(p, t.op)
       \/ pending[p].txn = t

(* verify_txn_sigs: the signer's witness must be the local one. *)
VerifyTxnSigs(p, m) ==
    \/ m.signer \in Held(p, m.txn).sigs
    \/ m.wit = GenerateWitness(applied[p])

(* can_auto_sign_pending_proposal; an operation always modifies a resource of
   its proposer. *)
AutoSigners(p, t) == IF t.op \in AutoSignOps /\ t.proposer # p THEN {p} ELSE {}

Verified(p, m) ==
    /\ ~CheckApplied(applied[p], m.txn.csn)
    /\ HandleNewProposal(p, m.txn)
    /\ VerifyTxnSigs(p, m)

CollectUnreachable(p, m) ==
    \E s \in {m.signer} \cup AutoSigners(p, m.txn) :
        SignatureUnreachable(Held(p, m.txn), s)

(* The pending transaction that CollectProposalWithSigs saves. *)
Collected(p, m) ==
    LET signed == HandleProposalSignature(Held(p, m.txn), m.signer)
    IN  IF AutoSigners(p, m.txn) = {} THEN signed
        ELSE HandleProposalSignature(signed, p)

(* verify_txn refuses a request that does not come from its proposer. *)
Acceptable(p, m) ==
    /\ m.kind = "request" => m.txn.proposer = Peer(p)
    /\ \/ SignedBefore(p, m)
       \/ Verified(p, m) /\ ~CollectUnreachable(p, m)

Task(step, t) == [step |-> step, txn |-> t]

(***************************************************************************)
(* Node::handle_channel_transaction_request up to its next actor message.  *)
(* Node::apply_txn sends the response before it applies.                   *)
(***************************************************************************)
RecvRequestAgain(p, m) ==
    /\ m \in msgs /\ m.kind = "request" /\ m.to = p
    /\ Ready(p)
    /\ Acceptable(p, m) /\ SignedBefore(p, m)
    /\ msgs' = (msgs \ {m}) \cup
          {Message("response", Peer(p), m.txn, p,
                   GenerateWitness(SubSeq(applied[p], 1, m.txn.csn)))}
    /\ tasks' = [tasks EXCEPT ![p] = @ \cup {Task("apply", m.txn)}]
    /\ UNCHANGED <<stored, status, watching, timers, cursor, chain, history>>

RecvRequest(p, m) ==
    LET pend == Collected(p, m)
    IN  /\ m \in msgs /\ m.kind = "request" /\ m.to = p
        /\ Ready(p)
        /\ Acceptable(p, m) /\ ~SignedBefore(p, m)
        /\ pending' = [pending EXCEPT ![p] = pend]
        /\ \/ /\ p \in pend.sigs
              /\ msgs' = (msgs \ {m}) \cup
                    {Message("response", Peer(p), m.txn, p, GenerateWitness(applied[p]))}
              /\ tasks' = [tasks EXCEPT ![p] = @ \cup {Task("apply", m.txn)}]
           \/ /\ p \notin pend.sigs
              /\ msgs' = msgs \ {m}
              /\ tasks' = [tasks EXCEPT ![p] =
                              @ \cup IF AutoApprove THEN {Task("grant", m.txn)} ELSE {}]
        /\ UNCHANGED <<applied, synced, status, watching, timers, cursor, chain, history>>

(* Node::handle_sender_channel up to apply_txn. *)
RecvResponse(p, m) ==
    /\ m \in msgs /\ m.kind = "response" /\ m.to = p
    /\ Ready(p)
    /\ Acceptable(p, m)
    /\ pending' = IF SignedBefore(p, m) THEN pending
                  ELSE [pending EXCEPT ![p] = Collected(p, m)]
    /\ tasks' = [tasks EXCEPT ![p] = @ \cup {Task("apply", m.txn)}]
    /\ msgs' = msgs \ {m}
    /\ UNCHANGED <<applied, synced, status, watching, timers, cursor, chain, history>>

(* The handler returns an error: the message is gone and nothing changed. *)
RecvInvalid(p, m) ==
    /\ m \in msgs /\ m.kind \in {"request", "response"} /\ m.to = p
    /\ Ready(p)
    /\ ~Acceptable(p, m)
    /\ ~(Verified(p, m) /\ CollectUnreachable(p, m))
    /\ msgs' = msgs \ {m}
    /\ UNCHANGED <<stored, volatile, chain, history>>

(* The signature comes too late: the actor panics in unreachable!(). *)
RecvTooLate(p, m) ==
    /\ m \in msgs /\ m.kind \in {"request", "response"} /\ m.to = p
    /\ Ready(p)
    /\ m.kind = "request" => m.txn.proposer = Peer(p)
    /\ Verified(p, m) /\ CollectUnreachable(p, m)
    /\ msgs' = msgs \ {m}
    /\ status' = [status EXCEPT ![p] = "unreachable"]
    /\ UNCHANGED <<stored, watching, tasks, timers, cursor, chain, history>>

-----------------------------------------------------------------------------
(***************************************************************************)
(* The user's answer to a proposal that was not signed automatically,      *)
(* Node::channel_transaction_proposal: GrantProposal and CancelPendingTxn  *)
(* accept the hash of the pending transaction before consensus, whoever    *)
(* proposed it.                                                            *)
(***************************************************************************)
(* Mutant of MayGrant: an agreed transaction passes too. *)
MayGrantAgreed(p, t) == pending[p].txn = t

(* What GrantProposal and CancelPendingTxn check of t. *)
MayGrant(p, t) == pending[p].txn = t /\ ~ConsensusReached(pending[p])

(* The user of p names the pending transaction, their own or the peer's. *)
Answers(p) ==
    /\ pending[p] # NoPending
    /\ MayGrant(p, pending[p].txn)
    /\ \/ pending[p].txn.proposer # p /\ answered' = answered
       \/ /\ pending[p].txn.proposer = p
          /\ answered < MaxOwnAnswers
          /\ answered' = answered + 1

(* GrantProposal, the response, and apply_txn as the handler's next step. *)
GrantProposal(p, t, rest) ==
    /\ MayGrant(p, t)
    /\ pending' = [pending EXCEPT ![p] = HandleProposalSignature(@, p)]
    /\ msgs' = msgs \cup {Message("response", Peer(p), t, p, GenerateWitness(applied[p]))}
    /\ tasks' = [tasks EXCEPT ![p] = rest \cup {Task("apply", t)}]
    /\ UNCHANGED <<applied, synced, status, watching, timers, cursor, chain, history>>

(* approve_txn by the user up to GrantProposal: get_pending_txn finds it. *)
Approve(p) ==
    /\ Ready(p)
    /\ Answers(p)
    /\ tasks' = [tasks EXCEPT ![p] = @ \cup {Task("grant", pending[p].txn)}]
    /\ UNCHANGED <<stored, status, watching, timers, cursor, msgs, chain,
                   nextId, forced, refused, crashes, timeouts>>

(* approve_txn from GrantProposal on, by the user or by a node that approves
   automatically; a failure ends the handler, not the actor. *)
GrantTxnRequest(p, k) ==
    /\ k \in tasks[p] /\ k.step = "grant"
    /\ Idle(p)
    /\ \/ GrantProposal(p, k.txn, tasks[p] \ {k})
       \/ /\ ~MayGrant(p, k.txn)
          /\ tasks' = [tasks EXCEPT ![p] = @ \ {k}]
          /\ UNCHANGED <<stored, status, watching, timers, cursor, msgs, chain, history>>

(* reject_txn (get_pending_txn, whose answer is only that there is one, and
   CancelPendingTxn) and the error message to the peer. *)
Reject(p) ==
    /\ Ready(p)
    /\ Answers(p)
    /\ pending' = [pending EXCEPT ![p] = NoPending]
    /\ msgs' = msgs \cup {Message("reject", Peer(p), pending[p].txn, p,
                                  GenerateWitness(applied[p]))}
    /\ UNCHANGED <<applied, synced, volatile, chain,
                   nextId, forced, refused, crashes, timeouts>>

(* Node::handle_error_message only completes the future of the caller. *)
RecvReject(p, m) ==
    /\ m \in msgs /\ m.kind = "reject" /\ m.to = p
    /\ status[p] # "down" /\ Serving(p)
    /\ msgs' = msgs \ {m}
    /\ refused' = refused \cup {t \in {m.txn} : t.proposer = p}
    /\ UNCHANGED <<stored, volatile, chain, nextId, forced, answered, crashes, timeouts>>

-----------------------------------------------------------------------------
(***************************************************************************)
(* ApplyPendingTxn.  An agreed off-chain transaction is applied; anything  *)
(* else travels: its proposer submits it, and both then watch layer 1.     *)
(***************************************************************************)
MayApply(p) == pending[p].life \in {Negotiating, Agreed}

Submission(pend) == [txn |-> pend.txn, sigs |-> pend.sigs]

ApplyPendingTxn(p) ==
    LET pend == HandleApplyProposal(pending[p])
    IN  /\ MayApply(p)
        /\ \/ /\ pend.life = Applying
              /\ pend.txn.csn = Csn(p)
              /\ applied' = [applied EXCEPT ![p] = Append(@, Offchain(pend.txn))]
              /\ pending' = [pending EXCEPT ![p] = NoPending]
              /\ mempool' = mempool
           \/ /\ pend.life = Traveling
              /\ pending' = [pending EXCEPT ![p] = pend]
              /\ mempool' = IF pend.txn.proposer = p
                            THEN mempool \cup {Submission(pend)} ELSE mempool
              /\ applied' = applied

(* Mutant of WatchTask: only a forced transaction is watched. *)
WatchUnagreed(pend) ==
    IF ConsensusReached(pend) THEN {} ELSE {Task("watch", pend.txn)}

(* The watch message a handler sends after ApplyPendingTxn. *)
WatchTask(pend) ==
    IF HandleApplyProposal(pend).life = Traveling THEN {Task("watch", pend.txn)} ELSE {}

(* WalletHandle::apply_txn: it applies whatever is pending by now. *)
ApplyTxn(p, k) ==
    /\ k \in tasks[p] /\ k.step = "apply"
    /\ Idle(p)
    /\ \/ /\ ApplyPendingTxn(p)
          /\ tasks' = [tasks EXCEPT ![p] = (@ \ {k}) \cup WatchTask(pending[p])]
       \/ /\ ~MayApply(p)
          /\ tasks' = [tasks EXCEPT ![p] = @ \ {k}]
          /\ UNCHANGED <<applied, pending, mempool>>
    /\ UNCHANGED <<synced, status, watching, timers, cursor, msgs,
                   ledger, expired, history>>

(* force_travel_txn by the user, whoever proposed what is pending. *)
MayForce(p) ==
    /\ Ready(p)
    /\ MayApply(p)
    /\ Cardinality(forced) < MaxForces

ForceTravelTxn(p) ==
    /\ MayForce(p)
    /\ ApplyPendingTxn(p)
    /\ tasks' = [tasks EXCEPT ![p] = @ \cup WatchTask(pending[p])]
    /\ forced' = forced \cup {pending[p].txn}
    /\ UNCHANGED <<synced, status, watching, timers, cursor, msgs, ledger, expired,
                   nextId, refused, answered, crashes, timeouts>>

(* The process of p dies, with everything it did not store. *)
Down(p) ==
    /\ status' = [status EXCEPT ![p] = "down"]
    /\ watching' = [watching EXCEPT ![p] = None]
    /\ tasks' = [tasks EXCEPT ![p] = {}]
    /\ timers' = [timers EXCEPT ![p] = {}]

(* The process dies after submit_transaction, before save_pending_txn. *)
CrashAfterSubmit(p) ==
    /\ crashes < MaxCrashes
    /\ Idle(p) /\ MayApply(p)
    /\ pending[p].txn.proposer = p
    /\ HandleApplyProposal(pending[p]).life = Traveling
    /\ \/ (\E k \in tasks[p] : k.step = "apply") /\ forced' = forced
       \/ MayForce(p) /\ forced' = forced \cup {pending[p].txn}
    /\ mempool' = mempool \cup {Submission(pending[p])}
    /\ Down(p)
    /\ crashes' = crashes + 1
    /\ UNCHANGED <<stored, cursor, msgs, ledger, expired,
                   nextId, refused, answered, timeouts>>

-----------------------------------------------------------------------------
(***************************************************************************)
(* solo_action: Execute, ApplyPendingTxn and a watch in one handler, on a  *)
(* store whose log is log and that has no pending transaction.  A crash    *)
(* inside it leaves what was saved until then.                             *)
(***************************************************************************)
SoloAction(p, op, log) ==
    LET t    == GenerateProposal(p, op, log)
        held == HandleProposalSignature(NewPending(t), p)
    IN  /\ nextId' = nextId + 1
        /\ \/ /\ pending' = [pending EXCEPT ![p] = HandleApplyProposal(held)]
              /\ mempool' = mempool \cup {Submission(held)}
              /\ tasks' = [tasks EXCEPT ![p] = @ \cup {Task("watch", t)}]
              /\ UNCHANGED <<status, crashes>>
           \/ /\ crashes < MaxCrashes
              /\ crashes' = crashes + 1
              /\ status' = [status EXCEPT ![p] = "down"]
              /\ tasks' = [tasks EXCEPT ![p] = {}]
              /\ \/ pending' = [pending EXCEPT ![p] = NoPending] /\ mempool' = mempool
                 \/ /\ pending' = [pending EXCEPT ![p] = held]
                    /\ mempool' \in {mempool, mempool \cup {Submission(held)}}

NoSoloAction == UNCHANGED <<nextId, mempool, tasks, crashes>>

(* A handler that returns Err; started() then stops the actor. *)
Fails(p) ==
    /\ status' = IF watching[p] # None /\ watching[p].boot
                 THEN [status EXCEPT ![p] = "stopped"] ELSE status
    /\ UNCHANGED <<applied, pending, synced, timers>>
    /\ NoSoloAction

(* Mutant of ApplyTravel: the channel state of the next version. *)
ApplyTravelNext(p, i) ==
    /\ applied' = [applied EXCEPT ![p] = Traveled(p, i)]
    /\ synced' = [synced EXCEPT ![p] = i + 1]

ApplyTravel(p, i) ==
    /\ applied' = [applied EXCEPT ![p] = Traveled(p, i)]
    /\ synced' = [synced EXCEPT ![p] = i]

StopIfClosed(p, i) ==
    status' = IF ledger[i].stage = "Closed"
              THEN [status EXCEPT ![p] = "stopped"] ELSE status

(* Mutant of Outdated: a late message is not recognised. *)
OutdatedAlways(p, i) ==
    /\ status' = [status EXCEPT ![p] = "unimplemented"]
    /\ UNCHANGED <<applied, pending, synced, timers>>
    /\ NoSoloAction

(* A transaction below the local channel sequence number: nothing to do when it
   is the one in the log, unimplemented!() otherwise. *)
Outdated(p, i) ==
    /\ status' = IF TxnAt(applied[p], ledger[i].txn.csn) = Travel(ledger[i].txn, i)
                 THEN status ELSE [status EXCEPT ![p] = "unimplemented"]
    /\ UNCHANGED <<applied, pending, synced, timers>>
    /\ NoSoloAction

ApplyCoSignedTxn(p, i) ==
    LET n == ledger[i].txn.csn
    IN  \/ n > Csn(p) /\ Fails(p)
        \/ n < Csn(p) /\ Outdated(p, i)
        \/ /\ n = Csn(p)
           /\ ApplyTravel(p, i)
           /\ pending' = [pending EXCEPT ![p] = NoPending]
           /\ StopIfClosed(p, i)
           /\ timers' = timers
           /\ NoSoloAction

(* Mutant of Challengeable: challenges the own transaction only. *)
ChallengeableOwn(p, i) ==
    /\ ledger[i].txn.proposer = p
    /\ TxnAt(applied[p], ledger[i].txn.csn).kind = "Offchain"

(* The peer put on layer 1 what is applied off-chain here. *)
Challengeable(p, i) ==
    /\ ledger[i].txn.proposer # p
    /\ TxnAt(applied[p], ledger[i].txn.csn).kind = "Offchain"

ApplySoloTxn(p, i) ==
    LET n == ledger[i].txn.csn
        e == ledger[i]
    IN  \/ n > Csn(p) /\ Fails(p)
        \/ n < Csn(p) /\ ~Challengeable(p, i) /\ Outdated(p, i)
        \/ n < Csn(p) /\ Challengeable(p, i) /\ pending[p] # NoPending /\ Fails(p)
        \/ /\ n < Csn(p) /\ Challengeable(p, i) /\ pending[p] = NoPending
           /\ SoloAction(p, "challenge", applied[p])
           /\ UNCHANGED <<applied, synced, timers>>
        \/ /\ n = Csn(p)
           /\ e.stage = "Locked" /\ e.txn.proposer # p
           /\ ApplyTravel(p, i)
           /\ SoloAction(p, "resolve", Traveled(p, i))
           /\ timers' = timers
        \/ /\ n = Csn(p)
           /\ ~(e.stage = "Locked" /\ e.txn.proposer # p)
           /\ ApplyTravel(p, i)
           /\ pending' = [pending EXCEPT ![p] = NoPending]
           /\ StopIfClosed(p, i)
           /\ timers' = IF e.stage = "Locked" THEN [timers EXCEPT ![p] = @ \cup {i}] ELSE timers
           /\ NoSoloAction

-----------------------------------------------------------------------------
(***************************************************************************)
(* WatchAndApplyTravelTxn: the actor is busy until layer 1 shows a         *)
(* transaction with the awaited sender and account sequence number, or the *)
(* watch times out.                                                        *)
(***************************************************************************)
Watch(t, boot) == [sender |-> t.proposer, seq |-> t.seq, boot |-> boot]

StartWatch(p, k) ==
    /\ k \in tasks[p] /\ k.step = "watch"
    /\ Idle(p)
    /\ watching' = [watching EXCEPT ![p] = Watch(k.txn, FALSE)]
    /\ tasks' = [tasks EXCEPT ![p] = @ \ {k}]
    /\ UNCHANGED <<stored, status, timers, cursor, msgs, chain, history>>

Watched(p) ==
    {i \in DOMAIN ledger : /\ ledger[i].txn.proposer = watching[p].sender
                           /\ ledger[i].txn.seq = watching[p].seq}

WatchAndApply(p) ==
    /\ status[p] = "running" /\ watching[p] # None
    /\ \E i \in Watched(p) : \/ IsAuthorized(ledger[i]) /\ ApplyCoSignedTxn(p, i)
                             \/ ~IsAuthorized(ledger[i]) /\ ApplySoloTxn(p, i)
    /\ watching' = [watching EXCEPT ![p] = None]
    /\ UNCHANGED <<cursor, msgs, ledger, expired, forced, refused, answered, timeouts>>

WatchTimeout(p) ==
    /\ timeouts < MaxTimeouts
    /\ status[p] = "running" /\ watching[p] # None
    /\ Watched(p) = {}
    /\ Fails(p)
    /\ watching' = [watching EXCEPT ![p] = None]
    /\ timeouts' = timeouts + 1
    /\ UNCHANGED <<cursor, msgs, ledger, expired, forced, refused, answered>>

(***************************************************************************)
(* channel_event_loop delivers the layer 1 events of the channel in order  *)
(* as ChannelStageChange.  Only unauthorized transactions of the peer that *)
(* are newer than the local channel state are applied.                     *)
(***************************************************************************)
StageChange(p) ==
    LET i == cursor[p] + 1
    IN  /\ Idle(p)
        /\ i \in DOMAIN ledger
        /\ cursor' = [cursor EXCEPT ![p] = i]
        /\ IF i > synced[p] /\ ~IsAuthorized(ledger[i]) /\ ledger[i].txn.proposer # p
           THEN ApplySoloTxn(p, i)
           ELSE UNCHANGED <<applied, pending, synced, status, timers>> /\ NoSoloAction
        /\ UNCHANGED <<watching, msgs, ledger, expired, forced, refused, answered, timeouts>>

(***************************************************************************)
(* ChannelLockTimeout, sent by the task of each own lock for every layer 1 *)
(* transaction past its time_lock until the handler succeeds once.  The    *)
(* handler asks whether the channel is locked, not by which lock.          *)
(***************************************************************************)
ChannelLockTimeout(p, i) ==
    /\ Idle(p)
    /\ i \in expired
    /\ LocalStage(p) # "Locked" \/ pending[p] = NoPending
    /\ IF LocalStage(p) # "Locked"
       THEN UNCHANGED <<pending, status>> /\ NoSoloAction
       ELSE SoloAction(p, "closeLock", applied[p])
    /\ timers' = [timers EXCEPT ![p] = @ \ {i}]
    /\ UNCHANGED <<applied, synced, watching, cursor, msgs, ledger, expired,
                   forced, refused, answered, timeouts>>

-----------------------------------------------------------------------------
(* Layer 1 commits a submitted transaction. *)
ChainCommit(x) ==
    /\ x \in mempool
    /\ Accepts(ledger, expired, x)
    /\ ledger' = Append(ledger, EntryOf(ledger[Len(ledger)].seqs, x))
    /\ mempool' = mempool \ {x}
    /\ UNCHANGED <<stored, volatile, msgs, expired, history>>

(* The time_lock of a lock passes, also when the lock has ended by then. *)
LockExpires(i) ==
    /\ ledger[i].stage = "Locked"
    /\ i \notin expired
    /\ \A j \in 1 .. i - 1 : ledger[j].stage = "Locked" => j \in expired
    /\ expired' = expired \cup {i}
    /\ UNCHANGED <<stored, volatile, msgs, mempool, ledger, history>>

-----------------------------------------------------------------------------
(* The connection breaks, or the node never sends the request of a forced
   proposal (Node::execute_script with force_execute). *)
Lose(m) ==
    /\ Lossy
    /\ msgs' = msgs \ {m}
    /\ UNCHANGED <<stored, volatile, chain, history>>

(* The process of p dies between two handlers, or while the actor watches. *)
Crash(p) ==
    /\ crashes < MaxCrashes
    /\ status[p] # "down"
    /\ LocalStage(p) # "Closed"
    /\ Down(p)
    /\ crashes' = crashes + 1
    /\ UNCHANGED <<stored, cursor, msgs, chain,
                   nextId, forced, refused, answered, timeouts>>

(* Mutant of LoadPending: the pending transaction was not persisted. *)
LoadNothing(p) == NoPending

(* The pending transaction found in the store at start. *)
LoadPending(p) == pending[p]

(* get_pending_txn_request: a negotiating transaction is sent to the peer again,
   with its proposer's signature, by whoever holds it. *)
Resend(p, pend) ==
    Message("request", Peer(p), pend.txn, pend.txn.proposer, GenerateWitness(applied[p]))

(* proposer_sigs.unwrap() panics: the node does not start. *)
RequestPanics(pend) ==
    pend.life = Negotiating /\ pend.txn.proposer \notin pend.sigs

(***************************************************************************)
(* Node::init.  It skips the request while the peer is not connected, and  *)
(* the node serves.  Otherwise it sends the request and waits for an       *)
(* answer, which only the network loop could take, and that loop is        *)
(* started after init.  What was sent to the dead process is lost.         *)
(***************************************************************************)
NodeInit(p, pend) ==
    LET rest == {m \in msgs : m.to # p}
    IN  /\ ~RequestPanics(pend)
        /\ \/ /\ tasks' = [tasks EXCEPT ![p] = {}]
              /\ msgs' = rest
           \/ /\ pend.life = Negotiating
              /\ status[Peer(p)] # "down"
              /\ tasks' = [tasks EXCEPT ![p] = {Task("init", pend.txn)}]
              /\ msgs' = rest \cup {Resend(p, pend)}

(* The future of the request times out: "init node error". *)
InitPanics(p, k) ==
    /\ k \in tasks[p] /\ k.step = "init"
    /\ status[p] # "down"
    /\ Down(p)
    /\ UNCHANGED <<stored, cursor, msgs, chain, history>>

(***************************************************************************)
(* Channel::load and Actor::started, then Node::init: an agreed            *)
(* transaction is applied, a traveling one is watched.                     *)
(***************************************************************************)
Restart(p) ==
    LET pend   == LoadPending(p)
        travel == \/ pend.life = Traveling
                  \/ pend.life = Agreed /\ IsTravelTxn(pend.txn.op)
    IN  /\ status[p] = "down"
        /\ status' = [status EXCEPT ![p] = "running"]
        /\ timers' = [timers EXCEPT ![p] = {}]
        /\ cursor' = [cursor EXCEPT ![p] = synced[p]]
        /\ watching' = [watching EXCEPT ![p] =
                            IF travel THEN Watch(pend.txn, TRUE) ELSE None]
        /\ IF pend.life = Agreed
           THEN ApplyPendingTxn(p)
           ELSE /\ pending' = [pending EXCEPT ![p] = pend]
                /\ UNCHANGED <<applied, mempool>>
        /\ NodeInit(p, pend)
        /\ UNCHANGED <<synced, ledger, expired, history>>

-----------------------------------------------------------------------------
Deliver(p, m) ==
    \/ RecvRequestAgain(p, m)
    \/ RecvRequest(p, m)
    \/ RecvResponse(p, m)
    \/ RecvInvalid(p, m)
    \/ RecvTooLate(p, m)
    \/ RecvReject(p, m)

TaskStep(p, k) ==
    \/ GrantTxnRequest(p, k)
    \/ ApplyTxn(p, k)
    \/ StartWatch(p, k)

UserStep(p) ==
    \/ p \in Proposers /\ \E op \in UserOps : Propose(p, op)
    \/ Approve(p)
    \/ Reject(p)
    \/ ForceTravelTxn(p)

ChainEvent(p) ==
    \/ WatchAndApply(p)
    \/ StageChange(p)
    \/ \E i \in timers[p] : ChannelLockTimeout(p, i)

Failure(p) ==
    \/ WatchTimeout(p)
    \/ CrashAfterSubmit(p)
    \/ Crash(p)
    \/ \E k \in tasks[p] : InitPanics(p, k)

Next ==
    \/ \E p \in Participants :
          \/ UserStep(p)
          \/ \E m \in msgs : Deliver(p, m)
          \/ \E k \in tasks[p] : TaskStep(p, k)
          \/ ChainEvent(p)
          \/ Failure(p)
          \/ Restart(p)
    \/ \E m \in msgs : Lose(m)
    \/ \E x \in mempool : ChainCommit(x)
    \/ \E i \in DOMAIN ledger : LockExpires(i)

Spec == Init /\ [][Next]_vars
=============================================================================
