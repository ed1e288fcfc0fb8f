----------------------------- MODULE ChannelStm -----------------------------
(***************************************************************************)
(* The stateless channel state machine of                                  *)
(* sgwallet/src/channel/channel_stm.rs and the pending transaction of      *)
(* sgtypes/src/pending_txn.rs that it advances.  As in the source, nothing *)
(* here has state of its own: the Channel actor (module Channel) keeps the *)
(* pending transaction and passes it through these operators.              *)
(***************************************************************************)
EXTENDS Naturals, Sequences, FiniteSets

CONSTANTS
    Participants,   \* the two account addresses of the channel
    UserOps,        \* operations a user may propose
    TravelOps,      \* those whose output touches layer 1 (is_travel_txn)
    CloseOps,       \* those that close the channel when they travel
    AutoSignOps,    \* those that modify no resource of the receiver
    None            \* "no transaction", "no watch", "nobody"

(* The layer 1 entry points a channel calls on its own, through solo_action. *)
SoloOps == {"resolve", "challenge", "closeLock"}

Ops == UserOps \cup SoloOps \cup {"open"}

(***************************************************************************)
(* A ChannelTransaction.  id stands for its hash: the chain version and    *)
(* the expiration time that make two proposals of one operation differ.    *)
(* csn is channel_sequence_number, seq the proposer's account sequence     *)
(* number on layer 1.                                                      *)
(***************************************************************************)
Txns == [id : Nat, op : Ops, csn : Nat, proposer : Participants, seq : Nat]

ASSUME ParticipantsAssumption ==
    \E p, q \in Participants : p # q /\ Participants = {p, q}

ASSUME OpsAssumption ==
    /\ UserOps \cap (SoloOps \cup {"open"}) = {}
    /\ TravelOps \subseteq UserOps
    /\ CloseOps \subseteq TravelOps
    /\ AutoSignOps \subseteq UserOps \cup SoloOps

ASSUME NoneAssumption ==
    /\ None \notin Txns
    /\ None \notin Participants

(* TransactionOutput::is_travel_txn. *)
IsTravelTxn(op) == op \in TravelOps \cup SoloOps \cup {"open"}

(* enum ProposalLifecycle, with the order it derives from its discriminants. *)
Created     == 0
Negotiating == 1
Agreed      == 2
Applying    == 3
Traveling   == 4
ProposalLifecycle == Created .. Traveling

(* struct PendingTransaction; NoPending is Option::None in the store. *)
PendingTxns == [txn : Txns \cup {None},
                sigs : SUBSET Participants,
                life : ProposalLifecycle]

NoPending == [txn |-> None, sigs |-> {}, life |-> Created]

NewPending(t) == [txn |-> t, sigs |-> {}, life |-> Created]

ConsensusReached(pend) == pend.life >= Agreed

TryReachConsensus(pend) ==
    IF pend.life = Negotiating /\ pend.sigs = Participants
    THEN [pend EXCEPT !.life = Agreed]
    ELSE pend

AddSignature(pend, s) == [pend EXCEPT !.sigs = @ \cup {s}]

(***************************************************************************)
(* handle_proposal_signature for a signature that verifies.  A signature   *)
(* already held changes nothing.                                           *)
(***************************************************************************)
HandleProposalSignature(pend, s) ==
    IF s \in pend.sigs THEN pend
    ELSE IF pend.life = Created
         THEN [AddSignature(pend, s) EXCEPT !.life = Negotiating]
         ELSE TryReachConsensus(AddSignature(pend, s))

(* The match arm `_ => unreachable!()` of handle_proposal_signature. *)
SignatureUnreachable(pend, s) ==
    s \notin pend.sigs /\ pend.life \notin {Created, Negotiating}

(* Mutant of HandleApplyProposal: does not ask for consensus_reached. *)
HandleApplyUnagreed(pend) ==
    [pend EXCEPT !.life = IF IsTravelTxn(pend.txn.op) THEN Traveling ELSE Applying]

HandleApplyProposal(pend) ==
    [pend EXCEPT !.life = IF ConsensusReached(pend) /\ ~IsTravelTxn(pend.txn.op)
                          THEN Applying ELSE Traveling]

(***************************************************************************)
(* A log is the sequence of applied transactions of a ChannelStore: entry  *)
(* csn + 1 holds the transaction of channel sequence number csn, so the    *)
(* local channel_sequence_number is Len(log).  ver is the layer 1 version  *)
(* of a travel transaction, 0 for an off-chain one.                        *)
(***************************************************************************)
AppliedTxns == [kind : {"Offchain", "Travel"}, txn : Txns, ver : Nat]

Offchain(t) == [kind |-> "Offchain", txn |-> t, ver |-> 0]

Travel(t, v) == [kind |-> "Travel", txn |-> t, ver |-> v]

(***************************************************************************)
(* generate_witness: the write set of the latest off-chain transaction, an *)
(* empty one after a travel transaction.  A payload signature covers it.   *)
(***************************************************************************)
Witnesses == [csn : Nat, ws : Txns \cup {None}]

GenerateWitness(log) ==
    [csn |-> Len(log),
     ws  |-> IF log # << >> /\ log[Len(log)].kind = "Offchain"
             THEN log[Len(log)].txn ELSE None]

(* get_transaction_by_channel_seq_number, for a csn that check_applied found. *)
TxnAt(log, csn) == log[csn + 1]

CheckApplied(log, csn) == csn < Len(log)
=============================================================================
