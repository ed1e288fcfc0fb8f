--------------------------- MODULE ChannelEffects ---------------------------
(***************************************************************************)
(* The negotiation of a transaction, users and messages, has the effects   *)
(* of ChannelSigning in a state that satisfies SigningInv.                 *)
(***************************************************************************)
EXTENDS ChannelTypes

(* The effects, one by one. *)
LEMMA EffectOf ==
    ASSUME NEW p
    PROVE  /\ Quiet \/ Release(p) \/ GrowOffchain(p) => Effect(p)
           /\ \A t \in Txns : Again(p, t) => Effect(p)
           /\ \A pend : Hold(p, pend) => Effect(p)
           /\ \A i : \A pend \in PendingTxns : GrowTravel(p, i, pend) => Effect(p)
<1>1. \A pend : Hold(p, pend) => pend \in PendingTxns
  BY DEF Hold
<1>2. \A i : \A pend : GrowTravel(p, i, pend) => i \in DOMAIN ledger
  BY DEF GrowTravel
<1> QED
  BY <1>1, <1>2 DEF Effect

(* A signature added to a well-formed pending transaction. *)
LEMMA GoodSign ==
    ASSUME NEW pend \in PendingTxns, NEW n, GoodPending(pend, n), pend # NoPending,
           NEW s \in Participants
    PROVE  LET new == HandleProposalSignature(pend, s)
           IN  /\ new \in PendingTxns /\ new # NoPending /\ GoodPending(new, n)
               /\ new.txn = pend.txn /\ new.sigs = pend.sigs \cup {s}
<1> DEFINE new == HandleProposalSignature(pend, s)
<1>1. /\ new \in PendingTxns /\ new.txn = pend.txn /\ new.sigs = pend.sigs \cup {s}
      /\ \/ new.life = pend.life
         \/ pend.life = Created
         \/ new.life = Agreed /\ new.sigs = Participants
      /\ pend.life = Negotiating /\ pend.sigs # Participants
            => new.life = Agreed \/ new.sigs # Participants
  BY SignatureEffect
<1>2. /\ pend.txn \in Txns /\ pend.txn.csn = n /\ ProposerSigned(pend)
      /\ pend.life \in {Negotiating, Agreed, Traveling}
      /\ pend.life = Agreed => pend.sigs = Participants
      /\ pend.life = Negotiating => pend.sigs # Participants
      /\ pend.sigs \subseteq Participants
  BY DEF GoodPending, PendingTxns
<1>3. new # NoPending
  BY <1>1, <1>2, NoneAssumption DEF NoPending
<1>4. pend.life # Created
  BY <1>2 DEF Negotiating, Agreed, Traveling, Created
<1> HIDE DEF new
<1>5. GoodPending(new, n)
  BY <1>1, <1>2, <1>4 DEF GoodPending, ProposerSigned, Negotiating, Agreed
<1> QED
  BY <1>1, <1>3, <1>5 DEF new

(* A proposal that s has signed: its proposer (execute_proposal), or the peer, when
   the proposer dropped it before the signature came. *)
LEMMA FreshPending ==
    ASSUME NEW t \in Txns, NEW s \in Participants, AnswersOwn \/ s = t.proposer
    PROVE  LET pend == HandleProposalSignature(NewPending(t), s)
               new  == HandleApplyProposal(pend)
           IN  /\ pend \in PendingTxns /\ pend # NoPending /\ GoodPending(pend, t.csn)
               /\ pend.txn = t /\ pend.sigs = {s} /\ pend.life = Negotiating
               /\ new \in PendingTxns /\ new # NoPending /\ GoodPending(new, t.csn)
               /\ new.txn = t /\ new.sigs = {s}
<1> DEFINE pend == HandleProposalSignature(NewPending(t), s)
           new  == HandleApplyProposal(pend)
<1>0. /\ {s} # Participants
      /\ NewPending(t) \in PendingTxns /\ NewPending(t).txn = t
      /\ NewPending(t).sigs = {} /\ NewPending(t).life = Created
  BY NewPendingType, PeerIsOther DEF NewPending
<1>1. pend \in PendingTxns /\ pend.txn = t /\ pend.sigs = {s} /\ pend.life = Negotiating
  BY <1>0, SignatureEffect
<1>2. pend # NoPending
  BY <1>1, NoneAssumption DEF NoPending
<1> HIDE DEF pend
<1>3. new \in PendingTxns /\ new.txn = t /\ new.sigs = {s} /\ new.life = Traveling
  BY <1>1, ApplyEffect DEF Negotiating, Agreed
<1>4. new # NoPending
  BY <1>3, NoneAssumption DEF NoPending
<1> HIDE DEF new
<1>5. GoodPending(pend, t.csn) /\ GoodPending(new, t.csn)
  BY <1>0, <1>1, <1>3 DEF GoodPending, ProposerSigned, Negotiating, Agreed, Traveling
<1> QED
  BY <1>1, <1>2, <1>3, <1>4, <1>5 DEF pend, new

(* Execute by the user. *)
LEMMA ProposeEffect ==
    ASSUME SigningInv, NEW p \in Participants, NEW op \in UserOps, Propose(p, op)
    PROVE  Effect(p)
<1> DEFINE t    == GenerateProposal(p, op, applied[p])
           pend == HandleProposalSignature(NewPending(t), p)
           msg  == Message("request", Peer(p), t, p, GenerateWitness(applied[p]))
<1>1. t \in Txns /\ t.csn = Csn(p) /\ t.proposer = p
  BY TypeFacts, ProposalType DEF SigningInv, TypeInv, Ops, Csn
<1>2. /\ pending' = [pending EXCEPT ![p] = pend]
      /\ pending[p] = NoPending
      /\ msgs' = msgs \cup {msg}
      /\ UNCHANGED <<applied, ledger, mempool>>
  BY DEF Propose, chain
<1>3. msg.txn = t /\ msg.signer = p /\ msg.kind = "request"
  BY DEF Message
<1> HIDE DEF t, msg
<1>4. /\ pend \in PendingTxns /\ pend # NoPending /\ GoodPending(pend, Csn(p))
      /\ pend.txn = t /\ pend.sigs = {p}
  BY <1>1, FreshPending
<1> HIDE DEF pend
<1>5. Hold(p, pend)
  BY <1>1, <1>2, <1>3, <1>4 DEF Hold
<1> QED
  BY <1>5, EffectOf

(* CollectProposalWithSigs that saves a pending transaction. *)
LEMMA CollectedGood ==
    ASSUME SigningInv, NEW p \in Participants, NEW m \in msgs, m.kind # "reject",
           m.to = p, m.kind = "request" => m.txn.proposer = Peer(p), Verified(p, m)
    PROVE  LET pend == Collected(p, m)
           IN  /\ pend \in PendingTxns /\ pend # NoPending /\ GoodPending(pend, Csn(p))
               /\ pend.txn = m.txn
               /\ \/ pending[p] = NoPending
                  \/ pending[p].txn = pend.txn /\ pending[p].sigs \subseteq pend.sigs
               /\ \A s \in pend.sigs : s = p \/ pend.txn \in SignedBy(s)
<1> DEFINE signed == HandleProposalSignature(Held(p, m.txn), m.signer)
<1>0. /\ m.txn \in Txns /\ m.signer \in Participants /\ m.kind \in {"request", "response", "reject"}
      /\ m.txn.csn \in Nat /\ m.txn.proposer \in Participants
  <2>1. m \in Messages
    BY DEF SigningInv, TypeInv, TypeOK
  <2> QED
    BY <2>1 DEF Messages, Txns
<1>1. m.txn \in SignedBy(m.signer)
  BY SignedByIs
<1>2. /\ signed \in PendingTxns /\ signed # NoPending /\ GoodPending(signed, Csn(p))
      /\ signed.txn = m.txn
      /\ \/ pending[p] = NoPending
         \/ pending[p].txn = m.txn /\ pending[p].sigs \subseteq signed.sigs
      /\ \A s \in signed.sigs : s = p \/ m.txn \in SignedBy(s)
  <2>1. CASE pending[p] = NoPending
    <3>1. m.txn.csn = Csn(p)
      <4>1. NoPending.txn # m.txn
        BY <1>0, NoneAssumption DEF NoPending
      <4> QED
        BY <2>1, <4>1, <1>0, HeldFacts DEF Verified, HandleNewProposal
    <3>2. AnswersOwn \/ m.signer = m.txn.proposer
      <4>1. CASE m.kind = "request" \/ AnswersOwn
        BY <4>1 DEF SigningInv, MessagesGood
      <4>2. CASE m.kind = "response" /\ ~AnswersOwn
        <5>1. m.signer # p /\ Spoken(m.txn.proposer, m.txn)
          BY <4>2 DEF SigningInv, MessagesGood
        <5>2. m.txn.proposer # p
          <6> SUFFICES ASSUME m.txn.proposer = p PROVE FALSE
            OBVIOUS
          <6>1. m.txn.csn < Csn(p) \/ p \in pending[p].sigs
            BY <4>2, <5>1 DEF Spoken
          <6> QED
            BY <6>1, <2>1, <3>1, HeldFacts DEF NoPending
        <5> QED
          BY <5>1, <5>2, <1>0, PeerIsOther
      <4> QED
        BY <4>1, <4>2, <1>0
    <3>3. signed = HandleProposalSignature(NewPending(m.txn), m.signer)
      BY <2>1 DEF Held
    <3> QED
      BY <2>1, <3>1, <3>2, <3>3, <1>0, <1>1, FreshPending
  <2>2. CASE pending[p] # NoPending
    <3>1. Held(p, m.txn) = pending[p] /\ pending[p].txn = m.txn
      BY <2>2 DEF Held, Verified, HandleNewProposal
    <3>2. GoodPending(pending[p], Csn(p)) /\ pending[p] \in PendingTxns
      BY HeldFacts
    <3>3. /\ signed \in PendingTxns /\ signed # NoPending /\ GoodPending(signed, Csn(p))
          /\ signed.txn = m.txn /\ signed.sigs = pending[p].sigs \cup {m.signer}
      BY <2>2, <3>1, <3>2, <1>0, GoodSign
    <3>4. \A s \in pending[p].sigs : m.txn \in SignedBy(s)
      BY <3>1, HeldFacts
    <3> QED
      BY <3>1, <3>3, <3>4, <1>1
  <2> QED
    BY <2>1, <2>2
<1>3. Collected(p, m) \in {signed, HandleProposalSignature(signed, p)}
  BY DEF Collected
<1> HIDE DEF signed
<1>4. CASE Collected(p, m) = signed
  BY <1>2, <1>4
<1>5. CASE Collected(p, m) = HandleProposalSignature(signed, p)
  BY <1>2, <1>5, GoodSign
<1> QED
  BY <1>3, <1>4, <1>5

(* The handlers of network messages. *)
LEMMA DeliverEffect ==
    ASSUME SigningInv, NEW p \in Participants, NEW m \in msgs, Deliver(p, m)
    PROVE  Effect(p)
<1>0. /\ m.txn \in Txns /\ Peer(p) \in Participants /\ Peer(p) # p
      /\ pending = [pending EXCEPT ![p] = pending[p]]
  BY TypeFacts, PeerIsOther DEF SigningInv, TypeInv, TypeOK
<1> DEFINE pend == Collected(p, m)
<1>1. CASE RecvRequestAgain(p, m)
  <2> DEFINE w   == GenerateWitness(SubSeq(applied[p], 1, m.txn.csn))
             msg == Message("response", Peer(p), m.txn, p, w)
  <2>1. msgs' = (msgs \ {m}) \cup {msg} /\ UNCHANGED <<applied, pending, mempool, ledger>>
    BY <1>1 DEF RecvRequestAgain, stored, chain
  <2>2. msg.kind = "response" /\ msg.signer = p /\ msg.to = Peer(p) /\ msg.txn = m.txn
    BY DEF Message
  <2> HIDE DEF msg
  <2>3. \E i \in DOMAIN applied[p] :
            applied[p][i].kind = "Offchain" /\ applied[p][i].txn = m.txn
    <3> DEFINE i == m.txn.csn + 1
    <3>1. applied[p] \in Seq(AppliedTxns) /\ m.txn.csn \in Nat
      BY <1>0, TypeFacts DEF SigningInv, Txns
    <3>2. m.txn.csn < Len(applied[p]) /\ applied[p][i].kind = "Offchain"
          /\ applied[p][i].txn = m.txn
      BY <1>1 DEF RecvRequestAgain, SignedBefore, CheckApplied, TxnAt
    <3>3. i \in DOMAIN applied[p]
      BY <3>1, <3>2
    <3> QED
      BY <3>2, <3>3
  <2>4. \A n \in msgs' : \/ n \in msgs
                         \/ n.kind = "response" /\ n.signer = p /\ n.to # p /\ n.txn = m.txn
    BY <2>1, <2>2, <1>0
  <2>5. Again(p, m.txn)
    BY <2>1, <2>3, <2>4 DEF Again
  <2> QED
    BY <2>5, <1>0, EffectOf
<1>2. CASE RecvRequest(p, m)
  <2> DEFINE msg == Message("response", Peer(p), m.txn, p, GenerateWitness(applied[p]))
  <2>1. /\ pending' = [pending EXCEPT ![p] = pend]
        /\ UNCHANGED <<applied, mempool, ledger>>
        /\ \/ p \in pend.sigs /\ msgs' = (msgs \ {m}) \cup {msg}
           \/ msgs' = msgs \ {m}
    BY <1>2 DEF RecvRequest, chain
  <2>2. msg.kind = "response" /\ msg.signer = p /\ msg.to = Peer(p) /\ msg.txn = m.txn
    BY DEF Message
  <2> HIDE DEF msg
  <2>3. /\ m.kind = "request" /\ m.to = p /\ Verified(p, m) /\ m.txn.proposer = Peer(p)
    BY <1>2 DEF RecvRequest, Acceptable
  <2>4. /\ pend \in PendingTxns /\ pend # NoPending /\ GoodPending(pend, Csn(p))
        /\ pend.txn = m.txn
        /\ \/ pending[p] = NoPending
           \/ pending[p].txn = pend.txn /\ pending[p].sigs \subseteq pend.sigs
        /\ \A s \in pend.sigs : s = p \/ pend.txn \in SignedBy(s)
    BY <2>3, CollectedGood
  <2> HIDE DEF pend
  <2>5. Hold(p, pend)
    BY <2>1, <2>2, <2>4, <1>0 DEF Hold
  <2> QED
    BY <2>5, EffectOf
<1>3. CASE RecvResponse(p, m)
  <2>1. msgs' \subseteq msgs /\ UNCHANGED <<applied, mempool, ledger>>
    BY <1>3 DEF RecvResponse, chain
  <2>2. CASE SignedBefore(p, m)
    BY <2>1, <2>2, <1>3, EffectOf DEF RecvResponse, Quiet, NoNewSignature
  <2>3. CASE ~SignedBefore(p, m)
    <3>1. m.kind = "response" /\ m.to = p /\ Verified(p, m)
          /\ pending' = [pending EXCEPT ![p] = pend]
      BY <2>3, <1>3 DEF RecvResponse, Acceptable
    <3>2. /\ pend \in PendingTxns /\ pend # NoPending /\ GoodPending(pend, Csn(p))
          /\ pend.txn = m.txn
          /\ \/ pending[p] = NoPending
             \/ pending[p].txn = pend.txn /\ pending[p].sigs \subseteq pend.sigs
          /\ \A s \in pend.sigs : s = p \/ pend.txn \in SignedBy(s)
      BY <3>1, CollectedGood, SMTT(30)
    <3> HIDE DEF pend
    <3>3. Hold(p, pend)
      BY <2>1, <3>1, <3>2 DEF Hold
    <3> QED
      BY <3>3, EffectOf
  <2> QED
    BY <2>2, <2>3
<1>4. CASE RecvInvalid(p, m) \/ RecvTooLate(p, m) \/ RecvReject(p, m)
  <2>1. msgs' \subseteq msgs /\ UNCHANGED <<applied, pending, mempool, ledger>>
    BY <1>4 DEF RecvInvalid, RecvTooLate, RecvReject, stored, chain
  <2> QED
    BY <2>1, EffectOf DEF Quiet, NoNewSignature
<1> QED
  BY <1>1, <1>2, <1>3, <1>4, SMTT(30) DEF Deliver

(* GrantProposal, for the user or for the node. *)
LEMMA GrantEffect ==
    ASSUME SigningInv, NEW p \in Participants, NEW t \in Txns, NEW rest,
           GrantProposal(p, t, rest)
    PROVE  Effect(p)
<1> DEFINE pend == HandleProposalSignature(pending[p], p)
           msg  == Message("response", Peer(p), t, p, GenerateWitness(applied[p]))
<1>1. /\ pending' = [pending EXCEPT ![p] = pend] /\ pending[p].txn = t
      /\ msgs' = msgs \cup {msg}
      /\ UNCHANGED <<applied, mempool, ledger>>
  BY DEF GrantProposal, MayGrant, chain
<1>2. /\ msg.kind = "response" /\ msg.signer = p /\ msg.to = Peer(p) /\ msg.txn = t
      /\ Peer(p) # p
  BY PeerIsOther DEF Message
<1>3. pending[p] # NoPending
  BY <1>1, NoneAssumption, SMTT(30) DEF NoPending
<1>4. /\ pend \in PendingTxns /\ pend # NoPending /\ GoodPending(pend, Csn(p))
      /\ pend.txn = t /\ pend.sigs = pending[p].sigs \cup {p}
  BY <1>1, <1>3, HeldFacts, GoodSign
<1>5. \A s \in pending[p].sigs : t \in SignedBy(s)
  BY <1>1, HeldFacts
<1> HIDE DEF pend, msg
<1>6. Hold(p, pend)
  BY <1>1, <1>2, <1>4, <1>5 DEF Hold
<1> QED
  BY <1>6, EffectOf

(* The user answers the pending proposal. *)
LEMMA AnswerEffect ==
    ASSUME SigningInv, NEW p \in Participants, Approve(p) \/ Reject(p)
    PROVE  Effect(p)
<1>1. CASE Approve(p)
  BY <1>1, EffectOf DEF Approve, Quiet, NoNewSignature, stored, chain
<1>2. CASE Reject(p)
  <2>1. /\ pending[p] # NoPending /\ ~ConsensusReached(pending[p])
        /\ pending[p].txn.proposer # p \/ answered < MaxOwnAnswers
    BY <1>2 DEF Reject, Answers, MayGrant
  <2>2. pending[p].life = Negotiating /\ pending[p].sigs # Participants
    BY <2>1, HeldFacts DEF GoodPending, ConsensusReached, Negotiating, Agreed, Traveling
  <2>3. AnswersOwn \/ p \notin pending[p].sigs
    <3>1. CASE pending[p].txn.proposer # p
      <4>1. /\ ProposerSigned(pending[p]) /\ pending[p].sigs \subseteq Participants
            /\ pending[p].txn.proposer \in Participants
        BY <2>1, HeldFacts DEF PendingTxns, Txns
      <4> QED
        BY <3>1, <4>1, <2>2, PeerIsOther DEF ProposerSigned
    <3>2. CASE answered < MaxOwnAnswers
      BY <3>2, OwnAnswersAssumption DEF AnswersOwn, SigningInv, TypeInv, TypeOK
    <3> QED
      BY <2>1, <3>1, <3>2
  <2>4. Release(p)
    BY <1>2, <2>2, <2>3 DEF Reject, Release, NoNewSignature, Message, chain
  <2> QED
    BY <2>4, EffectOf
<1> QED
  BY <1>1, <1>2
=============================================================================
