---------------------------- MODULE ChannelState ----------------------------
(***************************************************************************)
(* The state of the two Channel actors of one opened channel, of the nodes *)
(* and messages between them and of layer 1, and what the actors promise   *)
(* of it.  Module Channel has the actions.                                 *)
(***************************************************************************)
EXTENDS ChainContract

(***************************************************************************)
(* Which proposals a user answers.  grant_txn_request, GrantProposal and   *)
(* CancelPendingTxn look at the hash and at consensus_reached only, so a   *)
(* user may also approve or reject a proposal of their own, by its hash.   *)
(* MaxOwnAnswers bounds how often they do.  The bound 0 is the assumption  *)
(* that users answer what get_waiting_proposal shows, the proposals of the *)
(* peer.                                                                   *)
(***************************************************************************)
CONSTANT MaxOwnAnswers

ASSUME OwnAnswersAssumption == MaxOwnAnswers \in Nat

AnswersOwn == MaxOwnAnswers > 0

VARIABLES
    applied,    \* persisted: the log of each ChannelStore
    pending,    \* persisted: the pending transaction of each ChannelStore
    synced,     \* persisted: layer 1 version of the channel state of the stm
    status,     \* actor status; "down" when the process is not running
    watching,   \* the layer 1 transaction a busy actor awaits, or None
    tasks,      \* node and wallet handlers waiting to message the actor
    timers,     \* the own locks, by ledger position, whose timeout is watched
    cursor,     \* last layer 1 event the channel_event_loop delivered
    msgs,       \* messages in flight between the two nodes
    mempool,    \* submitted to layer 1 and not committed
    ledger,     \* committed on layer 1
    expired,    \* ledger positions of the locks whose time_lock has passed
    nextId,     \* next transaction hash
    forced,     \* transactions a user asked to force
    refused,    \* transactions whose proposer was told of a rejection
    answered,   \* how often a user answered a proposal of their own
    crashes,
    timeouts

stored   == <<applied, pending, synced>>
volatile == <<status, watching, tasks, timers, cursor>>
chain    == <<mempool, ledger, expired>>
history  == <<nextId, forced, refused, answered, crashes, timeouts>>
vars     == <<stored, volatile, msgs, chain, history>>

Statuses == {"running", "stopped", "down", "unreachable", "unimplemented"}
Tasks    == [step : {"grant", "apply", "watch", "init"}, txn : Txns]
Watches  == [sender : Participants, seq : Nat, boot : BOOLEAN]
Messages == [kind : {"request", "response", "reject"}, to : Participants,
             txn : Txns, signer : Participants, wit : Witnesses]

Opener  == CHOOSE p \in Participants : TRUE
OpenTxn == [id |-> 0, op |-> "open", csn |-> 0, proposer |-> Opener, seq |-> 0]

Peer(p) == CHOOSE q \in Participants : q # p

(* ChannelStm::channel_sequence_number. *)
Csn(p) == Len(applied[p])

Idle(p) == status[p] = "running" /\ watching[p] = None

(***************************************************************************)
(* The node of p takes messages and commands: start_server first waits for *)
(* Node::init, which waits for started() of the actor and for the answer   *)
(* to a request that it sends again.                                       *)
(***************************************************************************)
Serving(p) ==
    /\ \A k \in tasks[p] : k.step # "init"
    /\ watching[p] # None => ~watching[p].boot

Ready(p) == Idle(p) /\ Serving(p)

(* The stage in the ChannelResource of the local channel state. *)
LocalStage(p) == ledger[synced[p]].stage

Message(kind, p, t, s, w) ==
    [kind |-> kind, to |-> p, txn |-> t, signer |-> s, wit |-> w]

(* ChannelStm::generate_proposal for a log that may just have grown. *)
GenerateProposal(p, op, log) ==
    [id |-> nextId, op |-> op, csn |-> Len(log), proposer |-> p,
     seq |-> AccountSeq(ledger, p)]

(* The log of p after apply_travel of the committed transaction i. *)
Traveled(p, i) == Append(applied[p], Travel(ledger[i].txn, i))

-----------------------------------------------------------------------------
(* Type correctness of the whole state. *)
TypeOK ==
    /\ applied \in [Participants -> Seq(AppliedTxns)]
    /\ pending \in [Participants -> PendingTxns]
    /\ synced \in [Participants -> Nat \ {0}]
    /\ \A p \in Participants : synced[p] <= Len(ledger)
    /\ status \in [Participants -> Statuses]
    /\ watching \in [Participants -> Watches \cup {None}]
    /\ tasks \in [Participants -> SUBSET Tasks]
    /\ timers \in [Participants -> SUBSET Nat]
    /\ cursor \in [Participants -> Nat]
    /\ msgs \subseteq Messages
    /\ mempool \subseteq Submissions
    /\ ledger \in Seq(LedgerEntries) /\ ledger # << >>
    /\ expired \subseteq Nat
    /\ forced \subseteq Txns /\ refused \subseteq Txns
    /\ {nextId, answered, crashes, timeouts} \subseteq Nat

(* The transactions on which a signature of p exists: in a message, in a store
   or on layer 1.  An off-chain transaction is stored with both signatures. *)
SignedBy(p) ==
    {m.txn : m \in {m \in msgs : m.kind # "reject" /\ m.signer = p}}
    \cup {pending[q].txn : q \in {q \in Participants : p \in pending[q].sigs}}
    \cup {x.txn : x \in {x \in mempool : p \in x.sigs}}
    \cup {ledger[i].txn : i \in {i \in DOMAIN ledger : p \in ledger[i].sigs}}
    \cup UNION {{applied[q][i].txn : i \in {i \in DOMAIN applied[q] :
                                               applied[q][i].kind = "Offchain"}}
                  : q \in Participants}

(***************************************************************************)
(* A participant never signs two different transactions with one channel   *)
(* sequence number: Execute, CollectProposalWithSigs, GrantProposal and    *)
(* solo_action sign only what becomes the single pending transaction, and  *)
(* a signed one is dropped only when its sequence number is used up, or by *)
(* CancelPendingTxn.  It holds of users who reject the peer's proposals    *)
(* only (~AnswersOwn).                                                     *)
(***************************************************************************)
SignOnce ==
    \A p \in Participants : \A t, u \in SignedBy(p) : t.csn = u.csn => t = u

(***************************************************************************)
(* The logs of the two ChannelStores never disagree: what both applied     *)
(* under one channel sequence number is one transaction, whichever way     *)
(* (off-chain, co-signed or forced) each of them came to apply it.  As     *)
(* SignOnce, it needs users who reject the peer's proposals only: "if the  *)
(* proposal is agreed by both, then channel will start to applying the     *)
(* transaction" (docs/design/sgwallet.md) fails without.                   *)
(***************************************************************************)
Agreement ==
    \A p, q \in Participants : \A i \in DOMAIN applied[p] \cap DOMAIN applied[q] :
        applied[p][i].txn = applied[q][i].txn

(***************************************************************************)
(* Layer 1 never contradicts a local log: a committed transaction whose    *)
(* channel sequence number a participant has passed is the one in its log. *)
(* It is what the FIXME branches of ApplyCoSignedTxn and ApplySoloTxn that *)
(* found "a different" transaction rely on, and needs what Agreement needs. *)
(***************************************************************************)
ChainAgrees ==
    \A p \in Participants : \A i \in DOMAIN ledger :
        ledger[i].txn.csn < Csn(p) => TxnAt(applied[p], ledger[i].txn.csn).txn = ledger[i].txn

(***************************************************************************)
(* Nobody builds off-chain on a state the peer does not have: when an      *)
(* off-chain transaction is in a log, the peer has applied everything      *)
(* before it.                                                              *)
(***************************************************************************)
OffchainTogether ==
    \A p, q \in Participants : \A i \in DOMAIN applied[p] :
        applied[p][i].kind = "Offchain" => Len(applied[q]) >= i - 1

(***************************************************************************)
(* An agreed transaction is never lost: the pending transaction of a store *)
(* that reached consensus (or travels) is replaced only when the log grew, *)
(* whatever is rejected, restarted or received meanwhile.                  *)
(***************************************************************************)
AgreedIsDurable ==
    [][\A p \in Participants :
          ConsensusReached(pending[p]) /\ pending'[p].txn # pending[p].txn
              => Len(applied'[p]) > Len(applied[p])]_vars
=============================================================================
