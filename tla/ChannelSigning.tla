--------------------------- MODULE ChannelSigning ---------------------------
(***************************************************************************)
(* The inductive invariant SigningInv behind SignOnce, and what a step may *)
(* do to the logs, the pending transactions, the messages, the mempool and *)
(* the ledger so that it is preserved.                                     *)
(***************************************************************************)
EXTENDS ChannelState, TLAPS

-----------------------------------------------------------------------------
(* The operators of ChannelStm and ChainContract. *)

(* Peer(p) is the other one of the two participants. *)
LEMMA PeerIsOther ==
    ASSUME NEW p \in Participants
    PROVE  Peer(p) \in Participants /\ Peer(p) # p /\ Participants = {p, Peer(p)}
<1>1. PICK q \in Participants : q # p /\ Participants = {p, q}
  BY ParticipantsAssumption
<1>2. Peer(p) \in Participants /\ Peer(p) # p
  BY <1>1 DEF Peer
<1> QED
  BY <1>1, <1>2

(* The signature a log asks for is well typed. *)
LEMMA WitnessType ==
    ASSUME NEW log \in Seq(AppliedTxns)
    PROVE  GenerateWitness(log) \in Witnesses
<1>1. CASE log = << >>
  BY <1>1 DEF GenerateWitness, Witnesses
<1>2. CASE log # << >>
  <2>1. log[Len(log)] \in AppliedTxns
    BY <1>2
  <2> QED
    BY <2>1 DEF GenerateWitness, Witnesses, AppliedTxns
<1> QED
  BY <1>1, <1>2

(* The account sequence number is a natural number. *)
LEMMA AccountSeqType ==
    ASSUME NEW p \in Participants, NEW led \in Seq(LedgerEntries), led # << >>
    PROVE  AccountSeq(led, p) \in Nat
<1>1. led[Len(led)] \in LedgerEntries
  OBVIOUS
<1> QED
  BY <1>1 DEF AccountSeq, LedgerEntries

(* What handle_proposal_signature does to a pending transaction. *)
LEMMA SignatureEffect ==
    ASSUME NEW pend \in PendingTxns, NEW s \in Participants
    PROVE  /\ HandleProposalSignature(pend, s) \in PendingTxns
           /\ HandleProposalSignature(pend, s).txn = pend.txn
           /\ HandleProposalSignature(pend, s).sigs = pend.sigs \cup {s}
           /\ \/ HandleProposalSignature(pend, s).life = pend.life
              \/ /\ pend.life = Created
                 /\ HandleProposalSignature(pend, s).life = Negotiating
              \/ /\ pend.life = Negotiating
                 /\ HandleProposalSignature(pend, s).life = Agreed
                 /\ HandleProposalSignature(pend, s).sigs = Participants
           /\ pend.life = Created /\ s \notin pend.sigs
                 => HandleProposalSignature(pend, s).life = Negotiating
           /\ pend.life = Negotiating /\ pend.sigs # Participants
                 => \/ HandleProposalSignature(pend, s).life = Agreed
                    \/ HandleProposalSignature(pend, s).sigs # Participants
<1> DEFINE new == HandleProposalSignature(pend, s)
           add == AddSignature(pend, s)
<1>0. /\ pend.txn \in Txns \cup {None} /\ pend.sigs \in SUBSET Participants
      /\ pend.life \in 0 .. 4
      /\ pend = [txn |-> pend.txn, sigs |-> pend.sigs, life |-> pend.life]
  BY DEF PendingTxns, ProposalLifecycle, Created, Traveling
<1>1. add = [txn |-> pend.txn, sigs |-> pend.sigs \cup {s}, life |-> pend.life]
  BY <1>0 DEF AddSignature
<1>2. CASE s \in pend.sigs
  <2>1. new = pend
    BY <1>2 DEF HandleProposalSignature
  <2> QED
    BY <2>1, <1>2, <1>0
<1>3. CASE s \notin pend.sigs /\ pend.life = Created
  <2>1. new = [txn |-> pend.txn, sigs |-> pend.sigs \cup {s}, life |-> Negotiating]
    BY <1>3, <1>1 DEF HandleProposalSignature
  <2> QED
    BY <2>1, <1>3, <1>0 DEF PendingTxns, ProposalLifecycle, Created, Negotiating, Traveling
<1>4. CASE s \notin pend.sigs /\ pend.life # Created
  <2>1. new = IF pend.life = Negotiating /\ pend.sigs \cup {s} = Participants
              THEN [txn |-> pend.txn, sigs |-> pend.sigs \cup {s}, life |-> Agreed]
              ELSE [txn |-> pend.txn, sigs |-> pend.sigs \cup {s}, life |-> pend.life]
    BY <1>4, <1>1 DEF HandleProposalSignature, TryReachConsensus
  <2> QED
    BY <2>1, <1>4, <1>0 DEF PendingTxns, ProposalLifecycle, Created, Agreed, Traveling
<1> QED
  BY <1>2, <1>3, <1>4

(* What handle_apply_proposal does to a pending transaction. *)
LEMMA ApplyEffect ==
    ASSUME NEW pend \in PendingTxns
    PROVE  LET new == HandleApplyProposal(pend)
           IN  /\ new \in PendingTxns
               /\ new.txn = pend.txn
               /\ new.sigs = pend.sigs
               /\ new.life \in {Applying, Traveling}
               /\ new.life = Applying => pend.life >= Agreed
BY DEF HandleApplyProposal, ConsensusReached, PendingTxns,
       ProposalLifecycle, Created, Negotiating, Agreed, Applying, Traveling

(* A fresh pending transaction. *)
LEMMA NewPendingType ==
    /\ \A t \in Txns : NewPending(t) \in PendingTxns
    /\ NoPending \in PendingTxns
BY DEF NewPending, NoPending, PendingTxns, ProposalLifecycle, Created, Traveling

(* A generated proposal has the channel sequence number of the log. *)
LEMMA ProposalType ==
    ASSUME TypeOK, NEW p \in Participants, NEW op \in Ops, NEW log \in Seq(AppliedTxns)
    PROVE  /\ GenerateProposal(p, op, log) \in Txns
           /\ GenerateProposal(p, op, log).csn = Len(log)
           /\ GenerateProposal(p, op, log).proposer = p
           /\ GenerateProposal(p, op, log).op = op
<1>1. AccountSeq(ledger, p) \in Nat
  BY AccountSeqType DEF TypeOK
<1> QED
  BY <1>1 DEF GenerateProposal, Txns, TypeOK

(* Messages and tasks built from typed parts are typed. *)
LEMMA MessageType ==
    ASSUME NEW kind \in {"request", "response", "reject"}, NEW p \in Participants,
           NEW t \in Txns, NEW s \in Participants, NEW w \in Witnesses
    PROVE  Message(kind, p, t, s, w) \in Messages
BY DEF Message, Messages

(* The ledger entry of a typed submission is typed. *)
LEMMA EntryType ==
    ASSUME NEW x \in Submissions, NEW seqs \in [Participants -> Nat]
    PROVE  EntryOf(seqs, x) \in LedgerEntries
<1>1. StageAfter(x) \in Stages
  BY DEF StageAfter, Stages
<1>2. x.txn \in Txns /\ x.txn.proposer \in Participants /\ x.sigs \in SUBSET Participants
  BY DEF Submissions, Txns
<1>3. [seqs EXCEPT ![x.txn.proposer] = @ + 1] \in [Participants -> Nat]
  BY <1>2
<1> QED
  BY <1>1, <1>2, <1>3 DEF EntryOf, LedgerEntries

-----------------------------------------------------------------------------
(***************************************************************************)
(* Type correctness.  TypeOK alone is not inductive: what is pending must  *)
(* be known not to be None.                                                *)
(***************************************************************************)
TypeInv ==
    /\ TypeOK
    /\ \A p \in Participants : pending[p] # NoPending => pending[p].txn \in Txns

(* Fields of the typed state that the steps below read. *)
LEMMA TypeFacts ==
    ASSUME TypeInv, NEW p \in Participants
    PROVE  /\ applied[p] \in Seq(AppliedTxns)
           /\ pending[p] \in PendingTxns
           /\ tasks[p] \in SUBSET Tasks
           /\ \A m \in msgs : m.txn \in Txns /\ m.signer \in Participants
           /\ \A k \in tasks[p] : k.txn \in Txns
           /\ GenerateWitness(applied[p]) \in Witnesses
           /\ pending[p].life # Created => pending[p].txn \in Txns
<1>1. applied[p] \in Seq(AppliedTxns) /\ pending[p] \in PendingTxns
      /\ tasks[p] \in SUBSET Tasks
  BY DEF TypeInv, TypeOK
<1>2. \A m \in msgs : m.txn \in Txns /\ m.signer \in Participants
  BY DEF TypeInv, TypeOK, Messages
<1>3. \A k \in tasks[p] : k.txn \in Txns
  BY <1>1 DEF Tasks
<1>4. pending[p].life # Created => pending[p].txn \in Txns
  BY DEF TypeInv, NoPending
<1> QED
  BY <1>1, <1>2, <1>3, <1>4, WitnessType

-----------------------------------------------------------------------------
(* p is bound to t: t is what p holds pending and signed, or p is past it.  A
   user who rejects their own proposal frees p from it, but t is no newer than
   what p works on. *)
Spoken(p, t) ==
    \/ t.csn < Csn(p)
    \/ pending[p].txn = t /\ p \in pending[p].sigs
    \/ AnswersOwn /\ t.csn = Csn(p)

(* The proposer's signature is on what layer 1, the mempool or a store holds. *)
ProposerSigned(x) == AnswersOwn \/ x.txn.proposer \in x.sigs

(* A pending transaction of a store whose channel sequence number is n. *)
GoodPending(pend, n) ==
    \/ pend = NoPending
    \/ /\ pend.txn \in Txns
       /\ pend.txn.csn = n
       /\ ProposerSigned(pend)
       /\ pend.life \in {Negotiating, Agreed, Traveling}
       /\ pend.life = Agreed => pend.sigs = Participants
       /\ pend.life = Negotiating => pend.sigs # Participants

PendingGood == \A p \in Participants : GoodPending(pending[p], Csn(p))

(* Entry i of a log has channel sequence number i - 1; a Travel entry is on layer 1. *)
LogGood ==
    \A p \in Participants : \A i \in DOMAIN applied[p] :
        /\ applied[p][i].txn.csn = i - 1
        /\ applied[p][i].kind = "Travel" =>
              /\ applied[p][i].ver \in DOMAIN ledger
              /\ ledger[applied[p][i].ver].txn = applied[p][i].txn

(* Committed channel sequence numbers increase. *)
LedgerGood ==
    /\ \A i, j \in DOMAIN ledger : i < j => ledger[i].txn.csn < ledger[j].txn.csn
    /\ \A i \in DOMAIN ledger : ProposerSigned(ledger[i])

MempoolGood == \A x \in mempool : ProposerSigned(x)

(* A request or a response is about a transaction its proposer is bound to. *)
MessagesGood ==
    \A m \in msgs :
        /\ m.kind = "request" => m.signer = m.txn.proposer
        /\ m.kind = "response" => m.signer # m.to
        /\ m.kind # "reject" => AnswersOwn \/ Spoken(m.txn.proposer, m.txn)

SignersBound == \A p \in Participants : \A t \in SignedBy(p) : Spoken(p, t)

(***************************************************************************)
(* The inductive invariant.  Every signature of p that exists is on a      *)
(* transaction p is bound to, so none is newer than what p works on, and   *)
(* when users answer the peer's proposals only, p can sign something new   *)
(* only under a channel sequence number it has not signed for yet.         *)
(***************************************************************************)
SigningInv ==
    /\ TypeInv
    /\ PendingGood
    /\ LogGood
    /\ LedgerGood
    /\ MempoolGood
    /\ MessagesGood
    /\ SignersBound
    /\ AnswersOwn \/ SignOnce

-----------------------------------------------------------------------------
(***************************************************************************)
(* What a step may do to the logs, the pending transactions, the messages, *)
(* the mempool and the ledger.  Every action is one of these effects.      *)
(***************************************************************************)

(* Messages that carry no new signature: old ones and rejections. *)
NoNewSignature == \A m \in msgs' : m \in msgs \/ m.kind = "reject"

Quiet ==
    /\ UNCHANGED <<applied, pending, mempool, ledger>>
    /\ NoNewSignature

(* p signs again what is in its log (RecvRequestAgain). *)
Again(p, t) ==
    /\ UNCHANGED <<applied, pending, mempool, ledger>>
    /\ \E i \in DOMAIN applied[p] : applied[p][i].kind = "Offchain" /\ applied[p][i].txn = t
    /\ \A m \in msgs' :
          \/ m \in msgs
          \/ m.kind = "response" /\ m.signer = p /\ m.to # p /\ m.txn = t

(* p drops a transaction before consensus, one that it did not sign when users
   answer the peer's proposals only (Reject). *)
Release(p) ==
    /\ pending[p].life = Negotiating
    /\ AnswersOwn \/ p \notin pending[p].sigs
    /\ pending' = [pending EXCEPT ![p] = NoPending]
    /\ UNCHANGED <<applied, mempool, ledger>>
    /\ NoNewSignature

(* p holds pend: a new transaction, or more signatures on the one it held. *)
Hold(p, pend) ==
    /\ pending' = [pending EXCEPT ![p] = pend]
    /\ UNCHANGED <<applied, ledger>>
    /\ pend \in PendingTxns /\ pend # NoPending /\ GoodPending(pend, Csn(p))
    /\ \/ pending[p] = NoPending
       \/ pending[p].txn = pend.txn /\ pending[p].sigs \subseteq pend.sigs
    /\ \A s \in pend.sigs : s = p \/ pend.txn \in SignedBy(s)
    /\ \A m \in msgs' :
          \/ m \in msgs
          \/ /\ m.txn = pend.txn /\ m.signer \in pend.sigs
             /\ \/ m.kind = "request" /\ m.signer = pend.txn.proposer
                \/ m.kind = "response" /\ m.signer # m.to
    /\ \A x \in mempool' :
          \/ x \in mempool
          \/ x.txn = pend.txn /\ x.sigs \subseteq pend.sigs /\ ProposerSigned(x)

(* p applies the agreed transaction off-chain. *)
GrowOffchain(p) ==
    /\ pending[p].life = Agreed
    /\ applied' = [applied EXCEPT ![p] = Append(@, Offchain(pending[p].txn))]
    /\ pending' = [pending EXCEPT ![p] = NoPending]
    /\ msgs' \subseteq msgs
    /\ UNCHANGED <<mempool, ledger>>

(* p applies a committed transaction, and may propose on top of it. *)
GrowTravel(p, i, pend) ==
    /\ i \in DOMAIN ledger /\ ledger[i].txn.csn = Csn(p)
    /\ applied' = [applied EXCEPT ![p] = Traveled(p, i)]
    /\ pending' = [pending EXCEPT ![p] = pend]
    /\ \/ pend = NoPending
       \/ /\ GoodPending(pend, Csn(p) + 1) /\ pend # NoPending
          /\ pend.sigs = {p} /\ pend.txn.proposer = p
    /\ \A x \in mempool' :
          \/ x \in mempool
          \/ pend # NoPending /\ x.txn = pend.txn /\ x.sigs = {p}
    /\ UNCHANGED <<ledger, msgs>>

(* Layer 1 commits x. *)
Committed(x) ==
    /\ x \in mempool
    /\ x.txn.csn > ledger[Len(ledger)].txn.csn
    /\ ledger' = Append(ledger, EntryOf(ledger[Len(ledger)].seqs, x))
    /\ mempool' \subseteq mempool
    /\ UNCHANGED <<applied, pending, msgs>>

(* A step of p. *)
Effect(p) ==
    \/ Quiet
    \/ Release(p)
    \/ GrowOffchain(p)
    \/ \E t \in Txns : Again(p, t)
    \/ \E pend \in PendingTxns : Hold(p, pend)
    \/ \E i \in DOMAIN ledger : \E pend \in PendingTxns : GrowTravel(p, i, pend)

-----------------------------------------------------------------------------
(* Where a signature of p on t is, now and after a step. *)
LEMMA SignedByIs ==
    ASSUME NEW p, NEW t
    PROVE  t \in SignedBy(p) <=>
             \/ \E m \in msgs : m.kind # "reject" /\ m.signer = p /\ m.txn = t
             \/ \E q \in Participants : p \in pending[q].sigs /\ pending[q].txn = t
             \/ \E x \in mempool : p \in x.sigs /\ x.txn = t
             \/ \E i \in DOMAIN ledger : p \in ledger[i].sigs /\ ledger[i].txn = t
             \/ \E q \in Participants : \E i \in DOMAIN applied[q] :
                    applied[q][i].kind = "Offchain" /\ applied[q][i].txn = t
BY DEF SignedBy

(* The same for the state after a step. *)
LEMMA SignedByIsNext ==
    ASSUME NEW p, NEW t
    PROVE  t \in SignedBy(p)' <=>
             \/ \E m \in msgs' : m.kind # "reject" /\ m.signer = p /\ m.txn = t
             \/ \E q \in Participants : p \in pending'[q].sigs /\ pending'[q].txn = t
             \/ \E x \in mempool' : p \in x.sigs /\ x.txn = t
             \/ \E i \in DOMAIN ledger' : p \in ledger'[i].sigs /\ ledger'[i].txn = t
             \/ \E q \in Participants : \E i \in DOMAIN applied'[q] :
                    applied'[q][i].kind = "Offchain" /\ applied'[q][i].txn = t
BY DEF SignedBy

(* Signatures are on transactions. *)
LEMMA SignedTxns ==
    ASSUME SigningInv, NEW p \in Participants
    PROVE  SignedBy(p) \subseteq Txns
<1> SUFFICES ASSUME NEW t \in SignedBy(p)
             PROVE  t \in Txns
  OBVIOUS
<1>1. ASSUME NEW m \in msgs, m.txn = t
      PROVE  t \in Txns
  BY <1>1 DEF SigningInv, TypeInv, TypeOK, Messages
<1>2. ASSUME NEW q \in Participants, p \in pending[q].sigs, pending[q].txn = t
      PROVE  t \in Txns
  BY <1>2 DEF SigningInv, PendingGood, GoodPending, NoPending
<1>3. ASSUME NEW x \in mempool, x.txn = t
      PROVE  t \in Txns
  BY <1>3 DEF SigningInv, TypeInv, TypeOK, Submissions
<1>4. ASSUME NEW i \in DOMAIN ledger, ledger[i].txn = t
      PROVE  t \in Txns
  <2>1. ledger[i] \in LedgerEntries
    BY DEF SigningInv, TypeInv, TypeOK
  <2> QED
    BY <2>1, <1>4 DEF LedgerEntries
<1>5. ASSUME NEW q \in Participants, NEW i \in DOMAIN applied[q], applied[q][i].txn = t
      PROVE  t \in Txns
  <2>1. applied[q] \in Seq(AppliedTxns)
    BY DEF SigningInv, TypeInv, TypeOK
  <2>2. applied[q][i] \in AppliedTxns
    BY <2>1
  <2> QED
    BY <2>2, <1>5 DEF AppliedTxns
<1> QED
  BY <1>1, <1>2, <1>3, <1>4, <1>5, SignedByIs

(***************************************************************************)
(* The heart of SignOnce: when a step makes nobody less bound, and adds    *)
(* signatures on one transaction t only, by participants that are bound to *)
(* t after it and have signed nothing else with its channel sequence       *)
(* number, then signing once is preserved; without the last condition the  *)
(* signers stay bound.                                                     *)
(***************************************************************************)
LEMMA SignStep ==
    ASSUME SigningInv, NEW t,
           \A s \in Participants : \A u \in Txns : Spoken(s, u) => Spoken(s, u)',
           \A s \in Participants : \A u \in SignedBy(s)' :
               \/ u \in SignedBy(s)
               \/ /\ u = t /\ Spoken(s, t)'
                  /\ AnswersOwn \/ \A v \in SignedBy(s) : v.csn = t.csn => v = t
    PROVE  SignersBound' /\ (AnswersOwn \/ SignOnce')
<1>1. SignersBound'
  BY SignedTxns DEF SigningInv, SignersBound
<1>2. ASSUME NEW p \in Participants, NEW u \in SignedBy(p)', NEW v \in SignedBy(p)',
             u.csn = v.csn, ~AnswersOwn
      PROVE  u = v
  <2>1. u \in SignedBy(p) /\ v \in SignedBy(p) => u = v
    BY <1>2 DEF SigningInv, SignOnce
  <2> QED
    BY <2>1, <1>2
<1> QED
  BY <1>1, <1>2 DEF SignOnce

-----------------------------------------------------------------------------
(* Every effect preserves SigningInv. *)

(* The facts of SigningInv about one participant and about one message. *)
LEMMA HeldFacts ==
    ASSUME SigningInv, NEW p \in Participants
    PROVE  /\ Csn(p) \in Nat
           /\ pending[p] \in PendingTxns
           /\ GoodPending(pending[p], Csn(p))
           /\ pending[p] # NoPending =>
                /\ pending[p].txn \in Txns
                /\ pending[p].txn.csn = Csn(p)
                /\ ProposerSigned(pending[p])
           /\ \A s \in pending[p].sigs : pending[p] # NoPending /\ pending[p].txn \in SignedBy(s)
<1>1. applied[p] \in Seq(AppliedTxns) /\ pending[p] \in PendingTxns
  BY TypeFacts DEF SigningInv
<1>2. Csn(p) \in Nat
  BY <1>1 DEF Csn
<1>3. NoPending.sigs = {}
  BY DEF NoPending
<1>4. \A s \in pending[p].sigs : pending[p].txn \in SignedBy(s)
  BY SignedByIs
<1>5. GoodPending(pending[p], Csn(p))
  BY DEF SigningInv, PendingGood
<1> QED
  BY <1>1, <1>2, <1>3, <1>4, <1>5 DEF GoodPending

(* Nothing signed: Quiet, Release. *)
LEMMA QuietKeeps ==
    ASSUME SigningInv, TypeInv', NEW p \in Participants, Quiet \/ Release(p)
    PROVE  SigningInv'
<1>0. NoPending.sigs = {} /\ NoPending.txn = None
  BY DEF NoPending
<1>1. /\ UNCHANGED <<applied, mempool, ledger>> /\ NoNewSignature
      /\ \A q \in Participants :
            \/ pending'[q] = pending[q]
            \/ pending'[q] = NoPending /\ (AnswersOwn \/ q \notin pending[q].sigs)
  BY Zenon DEF Quiet, Release, SigningInv, TypeInv, TypeOK
<1>2. \A s \in Participants : \A u : Spoken(s, u) => Spoken(s, u)'
  BY <1>0, <1>1, HeldFacts DEF Spoken, Csn
<1>3. \A s \in Participants : \A u \in SignedBy(s)' : u \in SignedBy(s)
  <2> SUFFICES ASSUME NEW s \in Participants, NEW u \in SignedBy(s)'
               PROVE  u \in SignedBy(s)
    OBVIOUS
  <2> QED
    BY <1>0, <1>1, SignedByIs, SignedByIsNext DEF NoNewSignature
<1>4. SignersBound' /\ (AnswersOwn \/ SignOnce')
  BY <1>2, <1>3, SignStep
<1>5. PendingGood'
  BY <1>1 DEF SigningInv, PendingGood, GoodPending, Csn
<1>6. MessagesGood'
  <2> SUFFICES ASSUME NEW m \in msgs', m.kind # "reject"
               PROVE  /\ m.kind = "request" => m.signer = m.txn.proposer
                      /\ m.kind = "response" => m.signer # m.to
                      /\ AnswersOwn \/ Spoken(m.txn.proposer, m.txn)'
    BY DEF MessagesGood
  <2>1. m \in msgs /\ m.txn.proposer \in Participants
    BY <1>1, Zenon DEF NoNewSignature, SigningInv, TypeInv, TypeOK, Messages, Txns
  <2> QED
    BY <2>1, <1>2 DEF SigningInv, MessagesGood
<1>7. LogGood' /\ LedgerGood' /\ MempoolGood'
  BY <1>1 DEF SigningInv, LogGood, LedgerGood, MempoolGood
<1> QED
  BY <1>4, <1>5, <1>6, <1>7 DEF SigningInv

(* The messages of SigningInv, when a step makes nobody less bound. *)
LEMMA MessagesKeep ==
    ASSUME SigningInv,
           \A s \in Participants : \A u \in Txns : Spoken(s, u) => Spoken(s, u)',
           \A m \in msgs' :
               \/ m \in msgs
               \/ /\ m.kind = "request" => m.signer = m.txn.proposer
                  /\ m.kind = "response" => m.signer # m.to
                  /\ AnswersOwn \/ Spoken(m.txn.proposer, m.txn)'
    PROVE  MessagesGood'
<1>1. \A m \in msgs : m.txn \in Txns /\ m.txn.proposer \in Participants
  BY DEF SigningInv, TypeInv, TypeOK, Messages, Txns
<1> QED
  BY <1>1 DEF SigningInv, MessagesGood

(* An old signature on a logged transaction is given again. *)
LEMMA AgainKeeps ==
    ASSUME SigningInv, TypeInv', NEW p \in Participants, NEW t \in Txns, Again(p, t)
    PROVE  SigningInv'
<1>1. UNCHANGED <<applied, pending, mempool, ledger>>
  BY DEF Again
<1>2. \A s \in Participants : \A u : Spoken(s, u) => Spoken(s, u)'
  BY <1>1 DEF Spoken, Csn
<1>3. \A s \in Participants : t \in SignedBy(s)
  <2>1. \E i \in DOMAIN applied[p] : applied[p][i].kind = "Offchain" /\ applied[p][i].txn = t
    BY DEF Again
  <2> QED
    BY <2>1, SignedByIs
<1>4. \A s \in Participants : \A u \in SignedBy(s)' : u \in SignedBy(s)
  <2> SUFFICES ASSUME NEW s \in Participants, NEW u \in SignedBy(s)'
               PROVE  u \in SignedBy(s)
    OBVIOUS
  <2>1. ASSUME NEW m \in msgs', m.kind # "reject", m.signer = s, m.txn = u
        PROVE  u \in SignedBy(s)
    <3>1. CASE m \in msgs
      BY <3>1, <2>1, SignedByIs
    <3>2. CASE m \notin msgs
      BY <3>2, <2>1, <1>3 DEF Again
    <3> QED
      BY <3>1, <3>2
  <2> QED
    BY <2>1, <1>1, SignedByIs, SignedByIsNext
<1>5. SignersBound' /\ (AnswersOwn \/ SignOnce')
  BY <1>2, <1>4, SignStep
<1>6. t.proposer \in Participants /\ Spoken(t.proposer, t)'
  BY <1>2, <1>3 DEF Txns, SigningInv, SignersBound
<1>7. MessagesGood'
  BY <1>2, <1>6, MessagesKeep DEF Again
<1>8. PendingGood'
  BY <1>1 DEF SigningInv, PendingGood, GoodPending, Csn
<1>9. LogGood' /\ LedgerGood' /\ MempoolGood'
  BY <1>1 DEF SigningInv, LogGood, LedgerGood, MempoolGood
<1> QED
  BY <1>5, <1>7, <1>8, <1>9 DEF SigningInv

(* p takes on a transaction or collects signatures on it. *)
LEMMA HoldKeeps ==
    ASSUME SigningInv, TypeInv', NEW p \in Participants, NEW pend, Hold(p, pend)
    PROVE  SigningInv'
<1> DEFINE t == pend.txn
<1>0. /\ t \in Txns /\ t.csn = Csn(p) /\ t.proposer \in Participants
      /\ ProposerSigned(pend)
      /\ pend.sigs \subseteq Participants
  BY DEF Hold, GoodPending, PendingTxns, Txns
<1>1. /\ UNCHANGED <<applied, ledger>>
      /\ pending'[p] = pend
      /\ \A q \in Participants \ {p} : pending'[q] = pending[q]
  BY DEF Hold, SigningInv, TypeInv, TypeOK
<1>2. \A s \in Participants : \A u : Spoken(s, u) => Spoken(s, u)'
  <2> SUFFICES ASSUME NEW s \in Participants, NEW u, Spoken(s, u)
               PROVE  Spoken(s, u)'
    OBVIOUS
  <2>1. CASE s # p
    BY <2>1, <1>1 DEF Spoken, Csn
  <2>2. CASE s = p
    BY <2>2, <1>1, HeldFacts DEF Spoken, Csn, Hold
  <2> QED
    BY <2>1, <2>2
<1>3. \A s \in pend.sigs : Spoken(s, t)'
  <2> SUFFICES ASSUME NEW s \in pend.sigs
               PROVE  Spoken(s, t)'
    OBVIOUS
  <2>1. CASE s = p
    BY <2>1, <1>1 DEF Spoken
  <2>2. CASE s # p
    <3>1. t \in SignedBy(s)
      BY <2>2 DEF Hold
    <3> QED
      BY <3>1, <1>0, <1>2 DEF SigningInv, SignersBound
  <2> QED
    BY <2>1, <2>2
<1>4. \A s \in pend.sigs : AnswersOwn \/ \A v \in SignedBy(s) : v.csn = t.csn => v = t
  <2> SUFFICES ASSUME ~AnswersOwn,
                      NEW s \in pend.sigs, NEW v \in SignedBy(s), v.csn = t.csn
               PROVE  v = t
    OBVIOUS
  <2>1. CASE s = p
    <3>1. Spoken(p, v)
      BY <2>1 DEF SigningInv, SignersBound
    <3>2. pending[p].txn = v /\ p \in pending[p].sigs
      BY <3>1, <1>0, HeldFacts DEF Spoken
    <3> QED
      BY <3>2, HeldFacts DEF Hold
  <2>2. CASE s # p
    <3>1. t \in SignedBy(s)
      BY <2>2 DEF Hold
    <3> QED
      BY <3>1, <1>0 DEF SigningInv, SignOnce
  <2> QED
    BY <2>1, <2>2
<1>5. \A s \in Participants : \A u \in SignedBy(s)' :
          \/ u \in SignedBy(s)
          \/ u = t /\ s \in pend.sigs
  <2> SUFFICES ASSUME NEW s \in Participants, NEW u \in SignedBy(s)',
                      ~(u = t /\ s \in pend.sigs)
               PROVE  u \in SignedBy(s)
    OBVIOUS
  <2>1. ASSUME NEW m \in msgs', m.kind # "reject", m.signer = s, m.txn = u
        PROVE  m \in msgs
    BY <2>1 DEF Hold
  <2>2. ASSUME NEW q \in Participants, s \in pending'[q].sigs, pending'[q].txn = u
        PROVE  s \in pending[q].sigs /\ pending[q].txn = u
    BY <2>2, <1>1
  <2>3. ASSUME NEW x \in mempool', s \in x.sigs, x.txn = u
        PROVE  x \in mempool
    BY <2>3 DEF Hold
  <2> QED
    BY <2>1, <2>2, <2>3, <1>1, SignedByIs, SignedByIsNext
<1>6. SignersBound' /\ (AnswersOwn \/ SignOnce')
  <2> HIDE DEF t
  <2> QED
    BY <1>2, <1>3, <1>4, <1>5, SignStep
<1>7. MessagesGood'
  <2>1. AnswersOwn \/ Spoken(t.proposer, t)'
    BY <1>0, <1>3 DEF ProposerSigned
  <2> QED
    BY <2>1, <1>2, MessagesKeep DEF Hold
<1>8. PendingGood'
  BY <1>1 DEF SigningInv, PendingGood, GoodPending, Csn, Hold
<1>9. MempoolGood'
  BY DEF Hold, SigningInv, MempoolGood
<1>10. LogGood' /\ LedgerGood'
  BY <1>1 DEF SigningInv, LogGood, LedgerGood
<1> QED
  BY <1>6, <1>7, <1>8, <1>9, <1>10 DEF SigningInv

(* The log of a participant that grows by one entry. *)
LEMMA LogGrows ==
    ASSUME SigningInv, NEW p \in Participants, NEW e \in AppliedTxns, ledger' = ledger,
           applied' = [applied EXCEPT ![p] = Append(@, e)],
           e.txn.csn = Csn(p),
           e.kind = "Travel" => e.ver \in DOMAIN ledger /\ ledger[e.ver].txn = e.txn
    PROVE  /\ Csn(p)' = Csn(p) + 1
           /\ \A q \in Participants \ {p} : applied'[q] = applied[q]
           /\ \A i \in DOMAIN applied'[p] :
                 \/ i \in DOMAIN applied[p] /\ applied'[p][i] = applied[p][i]
                 \/ i = Csn(p) + 1 /\ applied'[p][i] = e
           /\ LogGood'
<1>1. /\ applied \in [Participants -> Seq(AppliedTxns)]
      /\ applied[p] \in Seq(AppliedTxns)
  BY DEF SigningInv, TypeInv, TypeOK
<1>2. applied'[p] = Append(applied[p], e)
  BY <1>1
<1>3. /\ Len(applied'[p]) = Len(applied[p]) + 1
      /\ \A i \in 1 .. Len(applied[p]) : applied'[p][i] = applied[p][i]
      /\ applied'[p][Len(applied[p]) + 1] = e
      /\ DOMAIN applied'[p] = 1 .. Len(applied[p]) + 1
      /\ DOMAIN applied[p] = 1 .. Len(applied[p])
      /\ Len(applied[p]) \in Nat
  BY <1>1, <1>2
<1>4. \A q \in Participants \ {p} : applied'[q] = applied[q]
  BY <1>1
<1>5. \A i \in DOMAIN applied'[p] :
         \/ i \in DOMAIN applied[p] /\ applied'[p][i] = applied[p][i]
         \/ i = Csn(p) + 1 /\ applied'[p][i] = e
  BY <1>3 DEF Csn
<1>6. \A i \in DOMAIN applied'[p] :
         /\ applied'[p][i].txn.csn = i - 1
         /\ applied'[p][i].kind = "Travel" =>
               /\ applied'[p][i].ver \in DOMAIN ledger'
               /\ ledger'[applied'[p][i].ver].txn = applied'[p][i].txn
  <2> SUFFICES ASSUME NEW i \in DOMAIN applied'[p]
               PROVE  /\ applied'[p][i].txn.csn = i - 1
                      /\ applied'[p][i].kind = "Travel" =>
                            /\ applied'[p][i].ver \in DOMAIN ledger'
                            /\ ledger'[applied'[p][i].ver].txn = applied'[p][i].txn
    OBVIOUS
  <2>1. CASE i \in DOMAIN applied[p] /\ applied'[p][i] = applied[p][i]
    BY <2>1 DEF SigningInv, LogGood
  <2>2. CASE i = Csn(p) + 1 /\ applied'[p][i] = e
    BY <2>2, <1>3 DEF Csn
  <2> QED
    BY <2>1, <2>2, <1>5
<1>7. Csn(p)' = Csn(p) + 1
  BY <1>3 DEF Csn
<1>8. LogGood'
  BY <1>4, <1>6 DEF SigningInv, LogGood
<1> QED
  BY <1>4, <1>5, <1>7, <1>8

(* A log that grows binds its owner no less. *)
LEMMA GrowBinds ==
    ASSUME SigningInv, NEW p \in Participants, Csn(p)' = Csn(p) + 1,
           \A q \in Participants \ {p} : applied'[q] = applied[q] /\ pending'[q] = pending[q]
    PROVE  \A s \in Participants : \A u \in Txns : Spoken(s, u) => Spoken(s, u)'
<1> SUFFICES ASSUME NEW s \in Participants, NEW u \in Txns, Spoken(s, u)
             PROVE  Spoken(s, u)'
  OBVIOUS
<1>0. u.csn \in Nat
  BY DEF Txns
<1>1. CASE s # p
  BY <1>1 DEF Spoken, Csn
<1>2. CASE s = p
  BY <1>0, <1>2, HeldFacts, SMTT(30) DEF Spoken
<1> QED
  BY <1>1, <1>2

(* p applies off-chain what both have signed. *)
LEMMA GrowOffchainKeeps ==
    ASSUME SigningInv, TypeInv', NEW p \in Participants, GrowOffchain(p)
    PROVE  SigningInv'
<1> DEFINE t == pending[p].txn
           e == Offchain(t)
<1>0. /\ pending[p] # NoPending /\ t \in Txns /\ t.csn = Csn(p)
      /\ pending[p].sigs = Participants
  <2>1. GoodPending(pending[p], Csn(p)) /\ pending[p].life = Agreed
    BY DEF GrowOffchain, SigningInv, PendingGood
  <2>2. NoPending.life # Agreed
    BY DEF NoPending, Agreed, Created
  <2> QED
    BY <2>1, <2>2 DEF GoodPending
<1>1. e \in AppliedTxns /\ e.txn = t /\ e.kind = "Offchain"
  BY <1>0 DEF Offchain, AppliedTxns
<1>2. /\ UNCHANGED <<mempool, ledger>> /\ msgs' \subseteq msgs
      /\ pending'[p] = NoPending
      /\ \A q \in Participants \ {p} : pending'[q] = pending[q]
      /\ applied' = [applied EXCEPT ![p] = Append(@, e)]
  BY Zenon DEF GrowOffchain, SigningInv, TypeInv, TypeOK
<1> HIDE DEF e
<1>3. /\ Csn(p)' = Csn(p) + 1
      /\ \A q \in Participants \ {p} : applied'[q] = applied[q]
      /\ \A i \in DOMAIN applied'[p] :
            \/ i \in DOMAIN applied[p] /\ applied'[p][i] = applied[p][i]
            \/ i = Csn(p) + 1 /\ applied'[p][i] = e
      /\ LogGood'
  BY <1>0, <1>1, <1>2, LogGrows, ZenonT(30)
<1>4. \A s \in Participants : \A u \in Txns : Spoken(s, u) => Spoken(s, u)'
  BY <1>2, <1>3, GrowBinds, ZenonT(30)
<1>5. \A s \in Participants : \A u \in SignedBy(s)' : u \in SignedBy(s)
  <2> SUFFICES ASSUME NEW s \in Participants, NEW u \in SignedBy(s)'
               PROVE  u \in SignedBy(s)
    OBVIOUS
  <2>1. t \in SignedBy(s)
    BY <1>0, HeldFacts
  <2>2. ASSUME NEW q \in Participants, s \in pending'[q].sigs, pending'[q].txn = u
        PROVE  s \in pending[q].sigs /\ pending[q].txn = u
    BY <2>2, <1>2 DEF NoPending
  <2>3. ASSUME NEW q \in Participants, NEW i \in DOMAIN applied'[q],
               applied'[q][i].kind = "Offchain", applied'[q][i].txn = u
        PROVE  u \in SignedBy(s)
    <3>1. CASE i \in DOMAIN applied[q] /\ applied'[q][i] = applied[q][i]
      BY <3>1, <2>3, SignedByIs
    <3>2. CASE applied'[q][i] = e
      BY <3>2, <2>3, <2>1, <1>1
    <3> QED
      BY <3>1, <3>2, <1>3
  <2> QED
    BY <2>2, <2>3, <1>2, SignedByIs, SignedByIsNext, SMTT(30)
<1>6. SignersBound' /\ (AnswersOwn \/ SignOnce')
  BY <1>4, <1>5, SignStep
<1>7. MessagesGood'
  BY <1>2, <1>4, MessagesKeep
<1>8. PendingGood'
  <2>1. GoodPending(pending'[p], Csn(p)')
    BY <1>2 DEF GoodPending
  <2>2. \A q \in Participants \ {p} : GoodPending(pending'[q], Csn(q)')
    BY <1>2, <1>3 DEF SigningInv, PendingGood, Csn
  <2> QED
    BY <2>1, <2>2 DEF PendingGood
<1>9. LedgerGood' /\ MempoolGood'
  BY <1>2 DEF SigningInv, LedgerGood, MempoolGood
<1> QED
  BY <1>3, <1>6, <1>7, <1>8, <1>9 DEF SigningInv

(* p applies a committed transaction and may sign the next one. *)
LEMMA GrowTravelKeeps ==
    ASSUME SigningInv, TypeInv', NEW p \in Participants, NEW i, NEW pend,
           GrowTravel(p, i, pend)
    PROVE  SigningInv'
<1> DEFINE e == Travel(ledger[i].txn, i)
<1>0. i \in DOMAIN ledger /\ ledger[i] \in LedgerEntries /\ i \in Nat
  <2>1. i \in DOMAIN ledger /\ ledger \in Seq(LedgerEntries)
    BY DEF GrowTravel, SigningInv, TypeInv, TypeOK
  <2> QED
    BY <2>1
<1>1. /\ e \in AppliedTxns /\ e.txn = ledger[i].txn /\ e.kind = "Travel" /\ e.ver = i
      /\ e.txn.csn = Csn(p)
  BY <1>0, SMTT(30) DEF Travel, AppliedTxns, LedgerEntries, GrowTravel
<1>2. /\ UNCHANGED <<ledger, msgs>>
      /\ pending'[p] = pend
      /\ \A q \in Participants \ {p} : pending'[q] = pending[q]
      /\ applied' = [applied EXCEPT ![p] = Append(@, e)]
  BY SMTT(30) DEF GrowTravel, Traveled, SigningInv, TypeInv, TypeOK
<1> HIDE DEF e
<1>3. /\ Csn(p)' = Csn(p) + 1
      /\ \A q \in Participants \ {p} : applied'[q] = applied[q]
      /\ \A j \in DOMAIN applied'[p] :
            \/ j \in DOMAIN applied[p] /\ applied'[p][j] = applied[p][j]
            \/ j = Csn(p) + 1 /\ applied'[p][j] = e
      /\ LogGood'
  BY <1>0, <1>1, <1>2, LogGrows, ZenonT(30)
<1>4. \A s \in Participants : \A u \in Txns : Spoken(s, u) => Spoken(s, u)'
  BY <1>2, <1>3, GrowBinds
<1>5. \A s \in Participants : \A u \in SignedBy(s)' :
          \/ u \in SignedBy(s)
          \/ u = pend.txn /\ s = p /\ pend # NoPending
  <2> SUFFICES ASSUME NEW s \in Participants, NEW u \in SignedBy(s)',
                      ~(u = pend.txn /\ s = p /\ pend # NoPending)
               PROVE  u \in SignedBy(s)
    OBVIOUS
  <2>1. ASSUME NEW q \in Participants, s \in pending'[q].sigs, pending'[q].txn = u
        PROVE  s \in pending[q].sigs /\ pending[q].txn = u
    <3>1. CASE q = p
      BY <3>1, <2>1, <1>2 DEF NoPending, GrowTravel
    <3>2. CASE q # p
      BY <3>2, <2>1, <1>2
    <3> QED
      BY <3>1, <3>2
  <2>2. ASSUME NEW x \in mempool', s \in x.sigs, x.txn = u
        PROVE  x \in mempool
    BY <2>2 DEF GrowTravel
  <2>3. ASSUME NEW q \in Participants, NEW j \in DOMAIN applied'[q],
               applied'[q][j].kind = "Offchain", applied'[q][j].txn = u
        PROVE  u \in SignedBy(s)
    <3>1. j \in DOMAIN applied[q] /\ applied'[q][j] = applied[q][j]
      BY <2>3, <1>1, <1>3
    <3> QED
      BY <3>1, <2>3, SignedByIs
  <2> QED
    BY <2>1, <2>2, <2>3, <1>2, SignedByIs, SignedByIsNext
<1>6. pend # NoPending =>
          /\ Spoken(p, pend.txn)'
          /\ \A v \in SignedBy(p) : v.csn = pend.txn.csn => v = pend.txn
  <2> SUFFICES ASSUME pend # NoPending
               PROVE  /\ Spoken(p, pend.txn)'
                      /\ \A v \in SignedBy(p) : v.csn # pend.txn.csn
    OBVIOUS
  <2>1. pend.sigs = {p} /\ pend.txn.csn = Csn(p) + 1
    BY DEF GrowTravel, GoodPending
  <2>2. Spoken(p, pend.txn)'
    BY <2>1, <1>2 DEF Spoken
  <2>3. ASSUME NEW v \in SignedBy(p)
        PROVE  v.csn # pend.txn.csn
    <3>1. v.csn \in Nat /\ Csn(p) \in Nat
      BY SignedTxns, HeldFacts, SMTT(30) DEF Txns
    <3>2. v.csn <= Csn(p)
      <4>1. Spoken(p, v)
        BY DEF SigningInv, SignersBound
      <4> QED
        BY <4>1, <3>1, HeldFacts DEF Spoken
    <3> QED
      BY <3>1, <3>2, <2>1
  <2> QED
    BY <2>2, <2>3
<1>7. SignersBound' /\ (AnswersOwn \/ SignOnce')
  <2> DEFINE t == pend.txn
  <2>1. \A s \in Participants : \A u \in SignedBy(s)' :
           \/ u \in SignedBy(s)
           \/ /\ u = t /\ Spoken(s, t)'
              /\ AnswersOwn \/ \A v \in SignedBy(s) : v.csn = t.csn => v = t
    BY <1>5, <1>6
  <2> HIDE DEF t
  <2> QED
    BY <2>1, <1>4, SignStep
<1>8. MessagesGood'
  BY <1>2, <1>4, MessagesKeep
<1>9. PendingGood'
  <2>1. GoodPending(pending'[p], Csn(p)')
    BY <1>2, <1>3, SMTT(30) DEF GoodPending, GrowTravel
  <2>2. \A q \in Participants \ {p} : GoodPending(pending'[q], Csn(q)')
    BY <1>2, <1>3 DEF SigningInv, PendingGood, Csn
  <2> QED
    BY <2>1, <2>2 DEF PendingGood
<1>10. LedgerGood' /\ MempoolGood'
  <2>1. ASSUME NEW x \in mempool', x \notin mempool
        PROVE  ProposerSigned(x)
    BY <2>1 DEF GrowTravel, ProposerSigned
  <2>2. MempoolGood'
    BY <2>1 DEF SigningInv, MempoolGood
  <2> QED
    BY <2>2, <1>2 DEF SigningInv, LedgerGood
<1> QED
  BY <1>3, <1>7, <1>8, <1>9, <1>10 DEF SigningInv

(* Layer 1 commits a transaction newer than every committed one. *)
LEMMA CommittedKeeps ==
    ASSUME SigningInv, TypeInv', NEW x, Committed(x)
    PROVE  SigningInv'
<1> DEFINE e == EntryOf(ledger[Len(ledger)].seqs, x)
<1>0. /\ ledger \in Seq(LedgerEntries) /\ ledger # << >>
      /\ x \in Submissions /\ ledger' = Append(ledger, e)
      /\ e \in LedgerEntries /\ e.txn = x.txn /\ e.sigs = x.sigs
  <2>1. /\ ledger \in Seq(LedgerEntries) /\ ledger # << >>
        /\ x \in Submissions /\ ledger' = Append(ledger, e)
    BY ZenonT(30) DEF Committed, SigningInv, TypeInv, TypeOK
  <2>2. e.txn = x.txn /\ e.sigs = x.sigs
    BY ZenonT(30) DEF EntryOf
  <2>3. ledger[Len(ledger)] \in LedgerEntries
    BY <2>1
  <2>4. ledger[Len(ledger)].seqs \in [Participants -> Nat]
    BY <2>3 DEF LedgerEntries
  <2> QED
    BY <2>1, <2>2, <2>4, EntryType
<1> HIDE DEF e
<1>1. /\ UNCHANGED <<applied, pending, msgs>>
      /\ mempool' \subseteq mempool /\ x \in mempool
  BY DEF Committed
<1>2. \A i \in DOMAIN ledger' :
          \/ i \in DOMAIN ledger /\ ledger'[i] = ledger[i]
          \/ i = Len(ledger) + 1 /\ ledger'[i] = e
  BY <1>0
<1>3. DOMAIN ledger \subseteq DOMAIN ledger' /\ \A i \in DOMAIN ledger : ledger'[i] = ledger[i]
  BY <1>0
<1>4. \A i \in DOMAIN ledger : ledger[i].txn.csn < x.txn.csn
  <2> SUFFICES ASSUME NEW i \in DOMAIN ledger
               PROVE  ledger[i].txn.csn < x.txn.csn
    OBVIOUS
  <2>1. /\ Len(ledger) \in DOMAIN ledger /\ i \in 1 .. Len(ledger)
        /\ ledger[i] \in LedgerEntries /\ ledger[Len(ledger)] \in LedgerEntries
    BY <1>0
  <2>2. /\ ledger[i].txn.csn \in Nat /\ ledger[Len(ledger)].txn.csn \in Nat
        /\ x.txn.csn \in Nat
    BY <2>1, <1>0, Zenon DEF LedgerEntries, Submissions, Txns
  <2>3. ledger[i].txn.csn <= ledger[Len(ledger)].txn.csn
    BY <2>1, <2>2 DEF SigningInv, LedgerGood
  <2>4. ledger[Len(ledger)].txn.csn < x.txn.csn
    BY <2>2 DEF Committed
  <2> QED
    BY <2>2, <2>3, <2>4
<1>5. \A i, j \in DOMAIN ledger' : i < j => ledger'[i].txn.csn < ledger'[j].txn.csn
  <2> SUFFICES ASSUME NEW i \in DOMAIN ledger', NEW j \in DOMAIN ledger', i < j
               PROVE  ledger'[i].txn.csn < ledger'[j].txn.csn
    OBVIOUS
  <2>1. i \in DOMAIN ledger /\ ledger'[i] = ledger[i]
    <3>1. j \in 1 .. Len(ledger) + 1 /\ i \in Nat
      BY <1>0, <1>2
    <3> QED
      BY <3>1, <1>0, <1>2
  <2>2. CASE j \in DOMAIN ledger /\ ledger'[j] = ledger[j]
    BY <2>1, <2>2 DEF SigningInv, LedgerGood
  <2>3. CASE ledger'[j] = e
    BY <2>1, <2>3, <1>0, <1>4, SMTT(30)
  <2> QED
    BY <2>2, <2>3, <1>2
<1>6. \A i \in DOMAIN ledger' : ProposerSigned(ledger'[i])
  BY <1>0, <1>1, <1>2 DEF SigningInv, LedgerGood, MempoolGood, ProposerSigned
<1>7. \A s \in Participants : \A u : Spoken(s, u) => Spoken(s, u)'
  BY <1>1 DEF Spoken, Csn
<1>8. \A s \in Participants : \A u \in SignedBy(s)' : u \in SignedBy(s)
  <2> SUFFICES ASSUME NEW s \in Participants, NEW u \in SignedBy(s)'
               PROVE  u \in SignedBy(s)
    OBVIOUS
  <2>1. ASSUME NEW i \in DOMAIN ledger', s \in ledger'[i].sigs, ledger'[i].txn = u
        PROVE  u \in SignedBy(s)
    <3>1. CASE i \in DOMAIN ledger /\ ledger'[i] = ledger[i]
      BY <3>1, <2>1, SignedByIs
    <3>2. CASE ledger'[i] = e
      BY <3>2, <2>1, <1>0, <1>1, SignedByIs
    <3> QED
      BY <3>1, <3>2, <1>2
  <2> QED
    BY <2>1, <1>1, SignedByIs, SignedByIsNext
<1>9. SignersBound' /\ (AnswersOwn \/ SignOnce')
  BY <1>7, <1>8, SignStep
<1>10. MessagesGood'
  BY <1>1, <1>7, MessagesKeep
<1>11. PendingGood'
  BY <1>1 DEF SigningInv, PendingGood, Csn
<1>12. LogGood'
  BY <1>1, <1>3 DEF SigningInv, LogGood
<1>13. LedgerGood' /\ MempoolGood'
  BY <1>1, <1>5, <1>6 DEF SigningInv, LedgerGood, MempoolGood
<1> QED
  BY <1>9, <1>10, <1>11, <1>12, <1>13 DEF SigningInv
=============================================================================
