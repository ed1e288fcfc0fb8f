--------------------------- MODULE ChainContract ---------------------------
(***************************************************************************)
(* Layer 1 as the wallet uses it (external: the contract is not part of    *)
(* this repository).  A ledger is the sequence of committed transactions   *)
(* of the channel; an entry carries the signatures the transaction was     *)
(* submitted with, the stage of the channel it leads to, while the channel *)
(* is locked who locked it (the ChannelLockedBy resource), and the account *)
(* sequence numbers after it.                                              *)
(***************************************************************************)
EXTENDS ChannelStm

Stages == {"Opened", "Locked", "Closed"}

LedgerEntries == [txn : Txns, sigs : SUBSET Participants,
                  stage : Stages, by : Participants \cup {None},
                  seqs : [Participants -> Nat]]

(* What submit_transaction hands to layer 1. *)
Submissions == [txn : Txns, sigs : SUBSET Participants]

(* ChannelTransactionPayload::is_authorized. *)
IsAuthorized(x) == x.sigs = Participants

(* The account sequence number of p on layer 1. *)
AccountSeq(ledger, p) == ledger[Len(ledger)].seqs[p]

(***************************************************************************)
(* The stage a transaction leads to: a co-signed one keeps the channel     *)
(* open or closes it, a solo one locks it; resolve, challenge and close    *)
(* end a lock.                                                             *)
(***************************************************************************)
StageAfter(x) ==
    CASE x.txn.op = "resolve"                  -> "Opened"
      [] x.txn.op \in {"challenge", "closeLock"} -> "Closed"
      [] x.txn.op \in CloseOps /\ IsAuthorized(x) -> "Closed"
      [] x.txn.op \notin SoloOps \cup CloseOps /\ IsAuthorized(x) -> "Opened"
      [] OTHER -> "Locked"

(* The entry of x, where seqs are the account sequence numbers before it. *)
EntryOf(seqs, x) ==
    [txn |-> x.txn, sigs |-> x.sigs, stage |-> StageAfter(x),
     by |-> IF StageAfter(x) = "Locked" THEN x.txn.proposer ELSE None,
     seqs |-> [seqs EXCEPT ![x.txn.proposer] = @ + 1]]

(***************************************************************************)
(* Layer 1 commits x when its account sequence number is the next one, its *)
(* witness is not older than the channel on chain, and the operation fits  *)
(* the stage.  expired holds the ledger positions of the locks whose       *)
(* time_lock has passed.  Anything else is discarded.                      *)
(***************************************************************************)
Accepts(ledger, expired, x) ==
    LET last == ledger[Len(ledger)]
    IN  /\ x.txn.seq = AccountSeq(ledger, x.txn.proposer)
        /\ x.txn.csn > last.txn.csn
        /\ \/ /\ last.stage = "Opened"
              /\ x.txn.op \in UserOps
           \/ /\ last.stage = "Locked"
              /\ x.txn.op \in {"resolve", "challenge"}
              /\ x.txn.proposer # last.by
           \/ /\ last.stage = "Locked"
              /\ x.txn.op = "closeLock"
              /\ x.txn.proposer = last.by
              /\ Len(ledger) \in expired
=============================================================================
