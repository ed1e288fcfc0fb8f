------------------------- MODULE ChannelProperties -------------------------
(***************************************************************************)
(* What Channel promises beyond the safety properties that are proved of   *)
(* it: that it implements the abstract log, its liveness properties under  *)
(* the fairness of the schedulers, and statements of the repository that   *)
(* the code does not keep.                                                 *)
(***************************************************************************)
EXTENDS Channel

(***************************************************************************)
(* Fairness of the scheduler: the network delivers, spawned handlers and   *)
(* actor mailboxes make progress, layer 1 commits what it accepts and      *)
(* reports it, a dead process is started again.  Users owe nothing, and a  *)
(* lock may last.                                                          *)
(***************************************************************************)
Fairness ==
    /\ \A p \in Participants :
          /\ WF_vars(\E m \in msgs : Deliver(p, m))
          /\ WF_vars(\E k \in tasks[p] : TaskStep(p, k))
          /\ WF_vars(WatchAndApply(p))
          /\ WF_vars(StageChange(p))
          /\ WF_vars(\E i \in timers[p] : ChannelLockTimeout(p, i))
          /\ WF_vars(Restart(p))
    /\ WF_vars(\E x \in mempool : ChainCommit(x))

FairSpec == Spec /\ Fairness

-----------------------------------------------------------------------------
(* No handler of layer 1 transactions ends in one of the unimplemented!() branches. *)
NoUnimplemented == \A p \in Participants : status[p] # "unimplemented"

(***************************************************************************)
(* The refinement mapping to ChannelLog: the agreed log is the longer of   *)
(* the two local ones.                                                     *)
(***************************************************************************)
LogOf(p) == [i \in DOMAIN applied[p] |-> applied[p][i].txn]

Ahead == CHOOSE p \in Participants : \A q \in Participants : Csn(q) <= Csn(p)

Log == INSTANCE ChannelLog
    WITH log     <- LogOf(Ahead),
         pos     <- [p \in Participants |-> Csn(p)],
         onchain <- {ledger[i].txn : i \in DOMAIN ledger}

(* The two actors and layer 1 implement one agreed, append-only log. *)
ImplementsChannelLog == Log!LogSpec

(***************************************************************************)
(* With one proposer and no failure, every proposal is settled: both       *)
(* participants apply it, or its proposer learns that it was rejected.     *)
(***************************************************************************)
EveryProposalSettles ==
    \A id \in 1 .. MaxProposals :
        (nextId > id) ~>
            \/ \A p \in Participants :
                  \E i \in DOMAIN applied[p] : applied[p][i].txn.id = id
            \/ \E t \in refused : t.id = id

(***************************************************************************)
(* A channel that one participant locked on layer 1 is resolved or         *)
(* challenged by the other, unless the lock expires first.                 *)
(***************************************************************************)
LockIsAnswered ==
    (ledger[Len(ledger)].stage = "Locked")
        ~> (ledger[Len(ledger)].stage # "Locked" \/ Len(ledger) \in expired)

-----------------------------------------------------------------------------
(* Statements of the repository. *)

(***************************************************************************)
(* "In this case, participant must submit a challenge_channel txn to       *)
(* layer1 chain with his latest witness data" (docs/design/sgwallet.md):   *)
(* a lock set with a transaction that the peer has applied off-chain ends, *)
(* unless it expires first.                                                *)
(***************************************************************************)
StaleIsChallenged ==
    \A p \in Participants :
        (/\ ledger[Len(ledger)].stage = "Locked"
         /\ ledger[Len(ledger)].txn.csn < Csn(p)
         /\ Challengeable(p, Len(ledger)))
            ~> (ledger[Len(ledger)].stage # "Locked" \/ Len(ledger) \in expired)

(***************************************************************************)
(* "After receiver reject the txn, sender should cancel his local pending  *)
(* txn to cleanup state." (wallet.rs, cancel_pending_request): when a user *)
(* learned of the rejection, nothing of the node cancels the transaction,  *)
(* unless the user finds its hash and rejects it too.                      *)
(***************************************************************************)
RejectedIsCancelled ==
    \A p \in Participants :
        (pending[p].txn \in refused) ~> (pending[p].txn \notin refused)

(***************************************************************************)
(* The arm `_ => unreachable!()` of handle_proposal_signature is not       *)
(* reached.                                                                *)
(***************************************************************************)
NoUnreachable == \A p \in Participants : status[p] # "unreachable"

(***************************************************************************)
(* The debug_assert of ApplySoloTxn, "Local state is stale, there must be  *)
(* some bugs": the solo transaction of the peer that the event loop hands  *)
(* to an idle actor is not ahead of its log.                               *)
(***************************************************************************)
LocalStateNotStale ==
    \A p \in Participants :
        LET i == cursor[p] + 1
        IN  /\ Idle(p)
            /\ i \in DOMAIN ledger /\ i > synced[p]
            /\ ~IsAuthorized(ledger[i]) /\ ledger[i].txn.proposer # p
            => ledger[i].txn.csn <= Csn(p)
=============================================================================
