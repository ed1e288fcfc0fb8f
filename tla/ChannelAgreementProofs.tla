----------------------- MODULE ChannelAgreementProofs -----------------------
(***************************************************************************)
(* Proofs about module Channel, for every set of operations and every      *)
(* bound.  Whatever users answer, nobody builds off-chain on what the peer *)
(* does not have, and nothing agreed is lost.  When users answer the       *)
(* peer's proposals only, a participant signs once per channel sequence    *)
(* number, so the two logs agree and layer 1 agrees with both.             *)
(***************************************************************************)
EXTENDS ChannelChainEffects

(* SigningInv is inductive. *)
LEMMA SigningStep ==
    ASSUME SigningInv, [Next]_vars
    PROVE  SigningInv'
<1>0. TypeInv'
  BY TypeStep DEF SigningInv
<1>1. ASSUME NEW p \in Participants, Effect(p)
      PROVE  SigningInv'
  BY <1>0, <1>1, QuietKeeps, AgainKeeps, HoldKeeps, GrowOffchainKeeps, GrowTravelKeeps
     DEF Effect
<1> QED
  BY <1>0, <1>1, StepEffect, CommittedKeeps

-----------------------------------------------------------------------------
(* What SigningInv says about the logs and layer 1. *)

(* Both participants signed what is in a log off-chain. *)
LEMMA OffchainSigned ==
    ASSUME SigningInv, NEW p \in Participants, NEW i \in DOMAIN applied[p],
           applied[p][i].kind = "Offchain", NEW s \in Participants
    PROVE  applied[p][i].txn \in SignedBy(s)
BY SignedByIs

(* A logged and a committed transaction with one channel sequence number are equal. *)
LEMMA LogMatchesChain ==
    ASSUME SigningInv, ~AnswersOwn, NEW p \in Participants, NEW i \in DOMAIN applied[p],
           NEW v \in DOMAIN ledger, ledger[v].txn.csn = applied[p][i].txn.csn
    PROVE  ledger[v].txn = applied[p][i].txn
<1>0. applied[p] \in Seq(AppliedTxns) /\ ledger \in Seq(LedgerEntries)
  BY DEF SigningInv, TypeInv, TypeOK
<1>1. applied[p][i] \in AppliedTxns /\ ledger[v] \in LedgerEntries
  BY <1>0
<1>2. CASE applied[p][i].kind = "Offchain"
  <2> DEFINE s == ledger[v].txn.proposer
  <2>1. s \in Participants /\ ledger[v].txn \in SignedBy(s)
    BY <1>1, SignedByIs DEF SigningInv, LedgerGood, ProposerSigned, LedgerEntries, Txns
  <2>2. applied[p][i].txn \in SignedBy(s)
    BY <2>1, <1>2, OffchainSigned
  <2> QED
    BY <2>1, <2>2 DEF SigningInv, SignOnce
<1>3. CASE applied[p][i].kind = "Travel"
  <2> DEFINE w == applied[p][i].ver
  <2>1. w \in DOMAIN ledger /\ ledger[w].txn = applied[p][i].txn
    BY <1>3 DEF SigningInv, LogGood
  <2>2. w \in Nat /\ v \in Nat /\ ledger[v].txn.csn \in Nat
    <3>1. DOMAIN ledger \subseteq Nat
      BY <1>0
    <3>2. ledger[v].txn.csn \in Nat
      BY <1>1 DEF LedgerEntries, Txns
    <3> QED
      BY <3>1, <3>2, <2>1
  <2>3. ~(v < w) /\ ~(w < v)
    <3>1. /\ v < w => ledger[v].txn.csn < ledger[w].txn.csn
          /\ w < v => ledger[w].txn.csn < ledger[v].txn.csn
      BY <2>1 DEF SigningInv, LedgerGood
    <3> HIDE DEF w
    <3> QED
      BY <3>1, <2>1, <2>2
  <2>4. v = w
    BY <2>2, <2>3
  <2> QED
    BY <2>1, <2>4
<1> QED
  BY <1>1, <1>2, <1>3 DEF AppliedTxns

(* Agreement and ChainAgrees follow from SigningInv when users answer the peer's
   proposals only. *)
LEMMA SigningInvAgrees ==
    ASSUME SigningInv, ~AnswersOwn
    PROVE  Agreement /\ ChainAgrees
<1>0. \A p \in Participants : applied[p] \in Seq(AppliedTxns)
  BY DEF SigningInv, TypeInv, TypeOK
<1>1. ASSUME NEW p \in Participants, NEW q \in Participants,
             NEW i \in DOMAIN applied[p] \cap DOMAIN applied[q]
      PROVE  applied[p][i].txn = applied[q][i].txn
  <2>1. applied[p][i].txn.csn = applied[q][i].txn.csn
    BY DEF SigningInv, LogGood
  <2>2. applied[p][i] \in AppliedTxns /\ applied[q][i] \in AppliedTxns
    BY <1>0
  <2>0. i \in DOMAIN applied[p] /\ i \in DOMAIN applied[q]
    OBVIOUS
  <2>3. CASE applied[p][i].kind = "Travel"
    <3>1. PICK v \in DOMAIN ledger : ledger[v].txn = applied[p][i].txn
      BY <2>0, <2>3 DEF SigningInv, LogGood
    <3> QED
      BY <3>1, <2>0, <2>1, LogMatchesChain
  <2>4. CASE applied[q][i].kind = "Travel"
    <3>1. PICK v \in DOMAIN ledger : ledger[v].txn = applied[q][i].txn
      BY <2>0, <2>4 DEF SigningInv, LogGood
    <3> QED
      BY <3>1, <2>0, <2>1, LogMatchesChain
  <2>5. CASE applied[p][i].kind = "Offchain" /\ applied[q][i].kind = "Offchain"
    <3>1. applied[p][i].txn \in SignedBy(p) /\ applied[q][i].txn \in SignedBy(p)
      BY <2>0, <2>5, OffchainSigned
    <3>2. SignOnce
      BY DEF SigningInv
    <3> QED
      BY <3>1, <3>2, <2>1 DEF SignOnce
  <2> QED
    BY <2>2, <2>3, <2>4, <2>5 DEF AppliedTxns
<1>2. ASSUME NEW p \in Participants, NEW v \in DOMAIN ledger, ledger[v].txn.csn < Csn(p)
      PROVE  TxnAt(applied[p], ledger[v].txn.csn).txn = ledger[v].txn
  <2> DEFINE i == ledger[v].txn.csn + 1
  <2>1. ledger[v] \in LedgerEntries
    BY DEF SigningInv, TypeInv, TypeOK
  <2>2. ledger[v].txn.csn \in Nat
    BY <2>1 DEF LedgerEntries, Txns
  <2>3. i \in DOMAIN applied[p]
    BY <2>2, <1>0, <1>2 DEF Csn
  <2>4. applied[p][i].txn.csn = ledger[v].txn.csn
    BY <2>2, <2>3 DEF SigningInv, LogGood
  <2> QED
    BY <2>3, <2>4, LogMatchesChain DEF TxnAt
<1>3. Agreement
  BY <1>1 DEF Agreement
<1>4. ChainAgrees
  BY <1>2 DEF ChainAgrees
<1> QED
  BY <1>3, <1>4

(* OffchainTogether follows from SigningInv: the peer signed the off-chain entry, so
   it is not newer than what the peer works on. *)
LEMMA SigningInvTogether ==
    ASSUME SigningInv
    PROVE  OffchainTogether
<1>1. ASSUME NEW p \in Participants, NEW q \in Participants, NEW i \in DOMAIN applied[p],
             applied[p][i].kind = "Offchain"
      PROVE  Len(applied[q]) >= i - 1
  <2> DEFINE t == applied[p][i].txn
  <2>1. t.csn = i - 1 /\ i \in Nat /\ Csn(q) \in Nat
    <3>1. t.csn = i - 1
      BY DEF SigningInv, LogGood
    <3>2. applied[p] \in Seq(AppliedTxns)
      BY TypeFacts DEF SigningInv
    <3>3. i \in Nat
      BY <3>2
    <3> QED
      BY <3>1, <3>3, HeldFacts
  <2>2. Spoken(q, t)
    BY <1>1, OffchainSigned DEF SigningInv, SignersBound
  <2>3. t.csn <= Csn(q)
    <3>1. CASE t.csn < Csn(q) \/ t.csn = Csn(q)
      BY <3>1, <2>1
    <3>2. CASE pending[q].txn = t /\ q \in pending[q].sigs
      BY <3>2, <2>1, HeldFacts
    <3> QED
      BY <3>1, <3>2, <2>2 DEF Spoken
  <2> QED
    BY <2>1, <2>3 DEF Csn
<1> QED
  BY <1>1 DEF OffchainTogether

(* An effect replaces an agreed or traveling transaction only with the log. *)
LEMMA EffectDurable ==
    ASSUME SigningInv, TypeInv', NEW p \in Participants, Effect(p), NEW q \in Participants,
           ConsensusReached(pending[q]), pending'[q].txn # pending[q].txn
    PROVE  Len(applied'[q]) > Len(applied[q])
<1>0. /\ pending \in [Participants -> PendingTxns]
      /\ applied \in [Participants -> Seq(AppliedTxns)]
      /\ pending[q].life >= Agreed
  BY ZenonT(30) DEF SigningInv, TypeInv, TypeOK, ConsensusReached
<1>1. pending' # pending
  OBVIOUS
<1>2. ASSUME NEW pend, pending' = [pending EXCEPT ![p] = pend]
      PROVE  q = p /\ pending'[p] = pend
  BY <1>0, <1>2
<1>3. CASE Release(p)
  BY <1>0, <1>2, <1>3 DEF Release, Negotiating, Agreed
<1>4. CASE GrowOffchain(p)
  <2>1. q = p
    BY <1>2, <1>4 DEF GrowOffchain
  <2> DEFINE e == Offchain(pending[p].txn)
  <2>2. applied'[p] = Append(applied[p], e)
    BY <1>0, <1>4 DEF GrowOffchain
  <2> HIDE DEF e
  <2> QED
    BY <2>1, <2>2, <1>0
<1>5. ASSUME NEW pend, Hold(p, pend)
      PROVE  FALSE
  BY <1>0, <1>2, <1>5, SMTT(30) DEF Hold, NoPending, Created, Agreed
<1>6. ASSUME NEW i, NEW pend, GrowTravel(p, i, pend)
      PROVE  Len(applied'[q]) > Len(applied[q])
  <2>1. q = p
    BY <1>2, <1>6 DEF GrowTravel
  <2> DEFINE e == Travel(ledger[i].txn, i)
  <2>2. applied'[p] = Append(applied[p], e)
    BY <1>0, <1>6 DEF GrowTravel, Traveled
  <2> HIDE DEF e
  <2> QED
    BY <2>1, <2>2, <1>0
<1>7. ~Quiet /\ \A t : ~Again(p, t)
  BY <1>1 DEF Quiet, Again
<1> QED
  BY <1>3, <1>4, <1>5, <1>6, <1>7, SMTT(30) DEF Effect

-----------------------------------------------------------------------------
(***************************************************************************)
(* When no user answers a proposal of their own, a participant never signs *)
(* two transactions with one channel sequence number, whatever is          *)
(* proposed, forced, rejected or lost in a crash.  CancelPendingTxn does   *)
(* not enforce the hypothesis, and the statement is false without it.      *)
(***************************************************************************)
THEOREM SignsOnce ==
    ASSUME MaxOwnAnswers = 0
    PROVE  Spec => []SignOnce
<1>1. SigningInv /\ [Next]_vars => SigningInv'
  BY SigningStep
<1>2. SigningInv => SignOnce
  BY DEF SigningInv, AnswersOwn
<1> QED
  BY <1>1, <1>2, InitSafe, PTL DEF Spec

(***************************************************************************)
(* When no user answers a proposal of their own, the logs of the two       *)
(* ChannelStores never disagree, and layer 1 never contradicts either of   *)
(* them.  As for SignsOnce, the code does not enforce the hypothesis.      *)
(***************************************************************************)
THEOREM ParticipantsAgree ==
    ASSUME MaxOwnAnswers = 0
    PROVE  Spec => [](Agreement /\ ChainAgrees)
<1>1. SigningInv /\ [Next]_vars => SigningInv'
  BY SigningStep
<1>2. SigningInv => Agreement /\ ChainAgrees
  BY SigningInvAgrees DEF AnswersOwn
<1> QED
  BY <1>1, <1>2, InitSafe, PTL DEF Spec

(***************************************************************************)
(* Whatever users answer, ApplyPendingTxn puts an off-chain transaction in *)
(* a log only on top of what the peer has.                                 *)
(***************************************************************************)
THEOREM NobodyRunsAhead == Spec => []OffchainTogether
<1>1. SigningInv /\ [Next]_vars => SigningInv'
  BY SigningStep
<1>2. SigningInv => OffchainTogether
  BY SigningInvTogether
<1> QED
  BY <1>1, <1>2, InitSafe, PTL DEF Spec

(***************************************************************************)
(* A pending transaction that reached consensus, or that travels, leaves   *)
(* the store only together with a new entry of the log: no rejection, of   *)
(* whosever proposal, message, crash or restart loses it.                  *)
(***************************************************************************)
THEOREM AgreedStays == Spec => AgreedIsDurable
<1>1. SigningInv /\ [Next]_vars => SigningInv'
  BY SigningStep
<1>2. SigningInv /\ [Next]_vars =>
        [\A p \in Participants :
            ConsensusReached(pending[p]) /\ pending'[p].txn # pending[p].txn
                => Len(applied'[p]) > Len(applied[p])]_vars
  <2> SUFFICES ASSUME SigningInv, [Next]_vars, NEW q \in Participants,
                      ConsensusReached(pending[q]), pending'[q].txn # pending[q].txn
               PROVE  Len(applied'[q]) > Len(applied[q])
    OBVIOUS
  <2>1. TypeInv'
    BY TypeStep DEF SigningInv
  <2>2. \A x \in mempool : ~Committed(x)
    BY DEF Committed
  <2> QED
    BY <2>1, <2>2, StepEffect, EffectDurable
<1> QED
  BY <1>1, <1>2, InitSafe, PTL DEF Spec, AgreedIsDurable
=============================================================================
