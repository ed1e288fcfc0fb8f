------------------------ MODULE ChannelChainEffects ------------------------
(***************************************************************************)
(* The application of a transaction, layer 1, crashes and restarts have    *)
(* the effects of ChannelSigning in a state that satisfies SigningInv, so  *)
(* every step of module Channel has.                                       *)
(***************************************************************************)
EXTENDS ChannelTypeProofs, ChannelEffects

(* ApplyPendingTxn. *)
LEMMA ApplyPendingEffect ==
    ASSUME SigningInv, NEW p \in Participants, ApplyPendingTxn(p),
           ledger' = ledger, msgs' \subseteq msgs
    PROVE  Effect(p)
<1> DEFINE pend == HandleApplyProposal(pending[p])
<1>0. /\ pending[p] # NoPending /\ pending[p] \in PendingTxns
      /\ pending[p].life \in {Negotiating, Agreed}
  BY HeldFacts DEF ApplyPendingTxn, MayApply, NoPending, Negotiating, Agreed, Created
<1>1. /\ pend \in PendingTxns /\ pend.txn = pending[p].txn /\ pend.sigs = pending[p].sigs
      /\ pend.life = Applying => pending[p].life >= Agreed
  BY <1>0, ApplyEffect
<1>2. \/ /\ pend.life = Applying
         /\ applied' = [applied EXCEPT ![p] = Append(@, Offchain(pend.txn))]
         /\ pending' = [pending EXCEPT ![p] = NoPending]
         /\ mempool' = mempool
      \/ /\ pend.life = Traveling
         /\ pending' = [pending EXCEPT ![p] = pend]
         /\ mempool' \subseteq mempool \cup {Submission(pend)}
         /\ applied' = applied
  BY DEF ApplyPendingTxn
<1>3. /\ pending[p].txn \in Txns /\ pending[p].txn.csn = Csn(p)
      /\ ProposerSigned(pending[p])
      /\ \A s \in pending[p].sigs : pending[p].txn \in SignedBy(s)
  BY <1>0, HeldFacts
<1> HIDE DEF pend
<1>4. CASE pend.life = Applying
  <2>1. pending[p].life = Agreed
    BY <1>0, <1>1, <1>4 DEF Negotiating, Agreed
  <2>2. GrowOffchain(p)
    BY <2>1, <1>1, <1>2, <1>4, SMTT(30) DEF GrowOffchain, Applying, Traveling
  <2> QED
    BY <2>2, EffectOf
<1>5. CASE pend.life = Traveling
  <2>1. pend # NoPending /\ GoodPending(pend, Csn(p))
    BY <1>1, <1>3, <1>5
       DEF NoPending, GoodPending, ProposerSigned, Traveling, Created, Agreed, Negotiating
  <2>2. /\ Submission(pend).txn = pend.txn /\ Submission(pend).sigs = pend.sigs
        /\ ProposerSigned(Submission(pend))
    BY <1>1, <1>3 DEF Submission, ProposerSigned
  <2>3. Hold(p, pend)
    BY <2>1, <2>2, <1>1, <1>2, <1>3, <1>5 DEF Hold, Applying, Traveling
  <2> QED
    BY <2>3, EffectOf
<1> QED
  BY <1>2, <1>4, <1>5

(* The handlers between two actor messages, and a forced transaction. *)
LEMMA TaskEffect ==
    ASSUME SigningInv, NEW p \in Participants,
           ForceTravelTxn(p) \/ \E k \in tasks[p] : TaskStep(p, k)
    PROVE  Effect(p)
<1>1. CASE ForceTravelTxn(p)
  BY <1>1, ApplyPendingEffect DEF ForceTravelTxn
<1>2. ASSUME NEW k \in tasks[p], TaskStep(p, k)
      PROVE  Effect(p)
  <2>0. k.txn \in Txns
    BY TypeFacts DEF SigningInv
  <2>1. CASE GrantProposal(p, k.txn, tasks[p] \ {k})
    BY <2>0, <2>1, GrantEffect
  <2>2. CASE ApplyPendingTxn(p) /\ UNCHANGED <<ledger, msgs>>
    BY <2>2, ApplyPendingEffect
  <2>3. CASE UNCHANGED <<applied, pending, mempool, ledger, msgs>>
    BY <2>3, EffectOf DEF Quiet, NoNewSignature
  <2>4. CASE GrantTxnRequest(p, k)
    BY <2>1, <2>3, <2>4 DEF GrantTxnRequest, stored, chain
  <2>5. CASE ApplyTxn(p, k)
    BY <2>2, <2>3, <2>5 DEF ApplyTxn
  <2>6. CASE StartWatch(p, k)
    BY <2>3, <2>6 DEF StartWatch, stored, chain
  <2> QED
    BY <2>4, <2>5, <2>6, <1>2, SMTT(30) DEF TaskStep
<1> QED
  BY <1>1, <1>2

(* A crash keeps what is stored; what was submitted before it was signed. *)
LEMMA CrashEffect ==
    ASSUME SigningInv, NEW p \in Participants,
           CrashAfterSubmit(p) \/ Crash(p) \/ \E k \in tasks[p] : InitPanics(p, k)
    PROVE  Effect(p)
<1>1. CASE Crash(p) \/ \E k \in tasks[p] : InitPanics(p, k)
  BY <1>1, EffectOf DEF Crash, InitPanics, Quiet, NoNewSignature, stored, chain
<1>2. CASE CrashAfterSubmit(p)
  <2> DEFINE pend == pending[p]
  <2>0. pend # NoPending
    <3>1. MayApply(p)
      BY <1>2, SMTT(30) DEF CrashAfterSubmit
    <3> QED
      BY <3>1 DEF MayApply, NoPending, Negotiating, Agreed, Created
  <2>1. /\ pending' = [pending EXCEPT ![p] = pend]
        /\ UNCHANGED <<applied, ledger, msgs>>
        /\ mempool' = mempool \cup {Submission(pend)}
    BY <1>2, ZenonT(30) DEF CrashAfterSubmit, stored, SigningInv, TypeInv, TypeOK
  <2>2. Submission(pend).txn = pend.txn /\ Submission(pend).sigs = pend.sigs
    BY DEF Submission
  <2>3. /\ pend \in PendingTxns /\ GoodPending(pend, Csn(p))
        /\ ProposerSigned(pend)
        /\ \A s \in pend.sigs : pend.txn \in SignedBy(s)
    BY <2>0, HeldFacts
  <2>4. Hold(p, pend)
    BY <2>0, <2>1, <2>2, <2>3, SMTT(30) DEF Hold, ProposerSigned
  <2> QED
    BY <2>4, EffectOf
<1> QED
  BY <1>1, <1>2

(* The pending transaction that solo_action leaves, and what it submits. *)
LEMMA SoloEffect ==
    ASSUME SigningInv, NEW p \in Participants, NEW op \in SoloOps,
           NEW log \in Seq(AppliedTxns), SoloAction(p, op, log)
    PROVE  \E pend \in PendingTxns :
              /\ pending' = [pending EXCEPT ![p] = pend]
              /\ \/ pend = NoPending
                 \/ /\ GoodPending(pend, Len(log)) /\ pend # NoPending
                    /\ pend.sigs = {p} /\ pend.txn.proposer = p
              /\ \A x \in mempool' :
                    \/ x \in mempool
                    \/ pend # NoPending /\ x.txn = pend.txn /\ x.sigs = {p}
<1> DEFINE t    == GenerateProposal(p, op, log)
           held == HandleProposalSignature(NewPending(t), p)
           new  == HandleApplyProposal(held)
<1>1. t \in Txns /\ t.csn = Len(log) /\ t.proposer = p
  BY ProposalType, SMTT(30) DEF SigningInv, TypeInv, Ops
<1>2. /\ held \in PendingTxns /\ held # NoPending /\ GoodPending(held, Len(log))
      /\ held.txn = t /\ held.sigs = {p}
      /\ new \in PendingTxns /\ new # NoPending /\ GoodPending(new, Len(log))
      /\ new.txn = t /\ new.sigs = {p}
  <2> HIDE DEF t
  <2>1. Len(log) = t.csn
    BY <1>1
  <2>2. AnswersOwn \/ p = t.proposer
    BY <1>1
  <2> QED
    BY <1>1, <2>1, <2>2, FreshPending, SMTT(30)
<1>3. \/ pending' = [pending EXCEPT ![p] = new] /\ mempool' = mempool \cup {Submission(held)}
      \/ pending' = [pending EXCEPT ![p] = NoPending] /\ mempool' = mempool
      \/ /\ pending' = [pending EXCEPT ![p] = held]
         /\ mempool' \in {mempool, mempool \cup {Submission(held)}}
  BY DEF SoloAction
<1>4. Submission(held).txn = held.txn /\ Submission(held).sigs = held.sigs
  BY DEF Submission
<1>5. NoPending \in PendingTxns
  BY NewPendingType
<1> HIDE DEF t, held, new
<1>6. CASE pending' = [pending EXCEPT ![p] = new] /\ mempool' = mempool \cup {Submission(held)}
  BY <1>1, <1>2, <1>4, <1>6, Zenon
<1>7. CASE pending' = [pending EXCEPT ![p] = NoPending] /\ mempool' = mempool
  BY <1>5, <1>7, Zenon
<1>8. CASE /\ pending' = [pending EXCEPT ![p] = held]
           /\ mempool' \in {mempool, mempool \cup {Submission(held)}}
  BY <1>1, <1>2, <1>4, <1>8, Zenon
<1> QED
  BY <1>3, <1>6, <1>7, <1>8, SMTT(30)

(* solo_action on top of the log: challenge and closeLock. *)
LEMMA SoloStepEffect ==
    ASSUME SigningInv, NEW p \in Participants, NEW op \in SoloOps,
           SoloAction(p, op, applied[p]), pending[p] = NoPending,
           UNCHANGED <<applied, ledger, msgs>>
    PROVE  Effect(p)
<1>0. applied[p] \in Seq(AppliedTxns) /\ Len(applied[p]) = Csn(p)
  BY TypeFacts DEF SigningInv, Csn
<1>1. PICK pend \in PendingTxns :
         /\ pending' = [pending EXCEPT ![p] = pend]
         /\ \/ pend = NoPending
            \/ /\ GoodPending(pend, Csn(p)) /\ pend # NoPending
               /\ pend.sigs = {p} /\ pend.txn.proposer = p
         /\ \A x \in mempool' :
               \/ x \in mempool
               \/ pend # NoPending /\ x.txn = pend.txn /\ x.sigs = {p}
  <2>1. \E pend \in PendingTxns :
           /\ pending' = [pending EXCEPT ![p] = pend]
           /\ \/ pend = NoPending
              \/ /\ GoodPending(pend, Len(applied[p])) /\ pend # NoPending
                 /\ pend.sigs = {p} /\ pend.txn.proposer = p
           /\ \A x \in mempool' :
                 \/ x \in mempool
                 \/ pend # NoPending /\ x.txn = pend.txn /\ x.sigs = {p}
    BY <1>0, SoloEffect, SMTT(30)
  <2> QED
    BY <2>1, Zenon DEF Csn
<1>2. CASE pend # NoPending
  <2>1. Hold(p, pend)
    BY <1>1, <1>2 DEF Hold, ProposerSigned
  <2> QED
    BY <2>1, EffectOf
<1>3. CASE pend = NoPending
  <2>1. mempool' = mempool
    <3> DEFINE t    == GenerateProposal(p, op, applied[p])
               held == HandleProposalSignature(NewPending(t), p)
               new  == HandleApplyProposal(held)
    <3>1. t \in Txns /\ t.proposer = p
      BY <1>0, ProposalType, SMTT(30) DEF SigningInv, TypeInv, Ops
    <3>2. held # NoPending /\ new # NoPending
      <4> HIDE DEF t
      <4> QED
        BY <3>1, FreshPending, SMTT(30)
    <3>3. pending'[p] = NoPending
      BY <1>1, <1>3, ZenonT(30) DEF SigningInv, TypeInv, TypeOK
    <3>4. \/ pending' = [pending EXCEPT ![p] = new]
          \/ pending' = [pending EXCEPT ![p] = held]
          \/ mempool' = mempool
      BY SMTT(30) DEF SoloAction
    <3> HIDE DEF t, held, new
    <3> QED
      BY <3>2, <3>3, <3>4, SMTT(30) DEF SigningInv, TypeInv, TypeOK
  <2>2. pending' = pending
    BY <1>1, <1>3 DEF SigningInv, TypeInv, TypeOK
  <2> QED
    BY <2>1, <2>2, EffectOf, SMTT(30) DEF Quiet, NoNewSignature
<1> QED
  BY <1>2, <1>3

(* ApplyCoSignedTxn and ApplySoloTxn. *)
LEMMA HandlerEffect ==
    ASSUME SigningInv, NEW p \in Participants, NEW i \in DOMAIN ledger,
           UNCHANGED <<ledger, msgs>>, ApplyCoSignedTxn(p, i) \/ ApplySoloTxn(p, i)
    PROVE  Effect(p)
<1>1. CASE UNCHANGED <<applied, pending>> /\ NoSoloAction
  BY <1>1, EffectOf DEF NoSoloAction, Quiet, NoNewSignature
<1>2. CASE /\ ledger[i].txn.csn = Csn(p) /\ ApplyTravel(p, i)
           /\ pending' = [pending EXCEPT ![p] = NoPending] /\ NoSoloAction
  <2>1. GrowTravel(p, i, NoPending)
    BY <1>2 DEF GrowTravel, ApplyTravel, NoSoloAction
  <2> QED
    BY <2>1, EffectOf, NewPendingType, SMTT(30)
<1>3. CASE /\ SoloAction(p, "challenge", applied[p]) /\ pending[p] = NoPending
           /\ applied' = applied
  BY <1>3, SoloStepEffect DEF SoloOps
<1>4. CASE /\ ledger[i].txn.csn = Csn(p) /\ ApplyTravel(p, i)
           /\ SoloAction(p, "resolve", Traveled(p, i))
  <2>1. Traveled(p, i) \in Seq(AppliedTxns) /\ Len(Traveled(p, i)) = Csn(p) + 1
    <3>1. ledger[i] \in LedgerEntries /\ i \in Nat
      BY DEF SigningInv, TypeInv, TypeOK
    <3>2. Travel(ledger[i].txn, i) \in AppliedTxns
      BY <3>1, SMTT(30) DEF Travel, AppliedTxns, LedgerEntries
    <3>3. applied[p] \in Seq(AppliedTxns)
      BY TypeFacts, SMTT(30) DEF SigningInv
    <3> QED
      BY <3>2, <3>3, SMTT(30) DEF Traveled, Csn
  <2>2. PICK pend \in PendingTxns :
           /\ pending' = [pending EXCEPT ![p] = pend]
           /\ \/ pend = NoPending
              \/ /\ GoodPending(pend, Len(Traveled(p, i))) /\ pend # NoPending
                 /\ pend.sigs = {p} /\ pend.txn.proposer = p
           /\ \A x \in mempool' :
                 \/ x \in mempool
                 \/ pend # NoPending /\ x.txn = pend.txn /\ x.sigs = {p}
    BY <2>1, <1>4, SoloEffect, ZenonT(30) DEF SoloOps
  <2>3. GrowTravel(p, i, pend)
    BY <2>1, <2>2, <1>4, SMTT(30) DEF GrowTravel, ApplyTravel
  <2> QED
    BY <2>3, EffectOf
<1>5. CASE ApplyCoSignedTxn(p, i)
  BY <1>5, <1>1, <1>2, ZenonT(30) DEF ApplyCoSignedTxn, Fails, Outdated
<1>6. CASE ApplySoloTxn(p, i)
  BY <1>6, <1>1, <1>2, <1>3, <1>4, ZenonT(30) DEF ApplySoloTxn, Fails, Outdated
<1> QED
  BY <1>5, <1>6

(* What layer 1 makes an actor do. *)
LEMMA ChainEventEffect ==
    ASSUME SigningInv, NEW p \in Participants, ChainEvent(p) \/ WatchTimeout(p)
    PROVE  Effect(p)
<1>1. CASE WatchAndApply(p)
  <2>1. PICK i \in DOMAIN ledger : ApplyCoSignedTxn(p, i) \/ ApplySoloTxn(p, i)
    BY <1>1 DEF WatchAndApply, Watched
  <2> QED
    BY <2>1, <1>1, HandlerEffect, SMTT(30) DEF WatchAndApply
<1>2. CASE UNCHANGED <<applied, pending, msgs, ledger>> /\ NoSoloAction
  BY <1>2, EffectOf DEF NoSoloAction, Quiet, NoNewSignature
<1>3. CASE StageChange(p)
  <2>1. CASE ApplySoloTxn(p, cursor[p] + 1)
    BY <2>1, <1>3, HandlerEffect, SMTT(30) DEF StageChange
  <2>2. CASE ~ApplySoloTxn(p, cursor[p] + 1)
    BY <2>2, <1>2, <1>3 DEF StageChange
  <2> QED
    BY <2>1, <2>2, SMTT(30)
<1>4. ASSUME NEW i \in timers[p], ChannelLockTimeout(p, i)
      PROVE  Effect(p)
  <2>1. CASE LocalStage(p) # "Locked"
    BY <2>1, <1>2, <1>4, SMTT(30) DEF ChannelLockTimeout
  <2>2. CASE LocalStage(p) = "Locked"
    BY <2>2, <1>4, SoloStepEffect, SMTT(30) DEF ChannelLockTimeout, SoloOps
  <2> QED
    BY <2>1, <2>2, SMTT(30)
<1>5. CASE WatchTimeout(p)
  BY <1>2, <1>5 DEF WatchTimeout, Fails
<1> QED
  BY <1>1, <1>3, <1>4, <1>5, SMTT(30) DEF ChainEvent

(* Restart: what is sent again is what was signed. *)
LEMMA RestartEffect ==
    ASSUME SigningInv, NEW p \in Participants, Restart(p)
    PROVE  Effect(p)
<1> DEFINE pend == pending[p]
           msg  == Resend(p, pend)
<1>0. /\ ledger' = ledger
      /\ \/ msgs' \subseteq msgs
         \/ /\ pend.life = Negotiating /\ pend.txn.proposer \in pend.sigs
            /\ msgs' \subseteq msgs \cup {msg}
      /\ pend.life = Agreed => ApplyPendingTxn(p)
      /\ pend.life # Agreed =>
            pending' = [pending EXCEPT ![p] = pend] /\ UNCHANGED <<applied, mempool>>
  BY Zenon DEF Restart, LoadPending, NodeInit, RequestPanics
<1>1. CASE pend.life = Agreed
  <2>1. ApplyPendingTxn(p) /\ msgs' \subseteq msgs
    BY <1>0, <1>1 DEF Agreed, Negotiating
  <2> QED
    BY <2>1, <1>0, ApplyPendingEffect, SMTT(30)
<1>2. CASE /\ pend.life = Negotiating /\ pend.txn.proposer \in pend.sigs
           /\ msgs' \subseteq msgs \cup {msg}
  <2>0. pend # NoPending /\ pend.life # Agreed
    BY <1>2 DEF NoPending, Negotiating, Agreed, Created
  <2>1. /\ pending' = [pending EXCEPT ![p] = pend]
        /\ UNCHANGED <<applied, mempool, ledger>>
    BY <1>0, <2>0, ZenonT(30)
  <2>2. msg.kind = "request" /\ msg.signer = pend.txn.proposer /\ msg.txn = pend.txn
    BY ZenonT(30) DEF Resend, Message
  <2>3. /\ pend \in PendingTxns /\ GoodPending(pend, Csn(p))
        /\ \A s \in pend.sigs : pend.txn \in SignedBy(s)
    BY <2>0, HeldFacts
  <2> HIDE DEF msg
  <2>4. Hold(p, pend)
    BY <2>0, <2>1, <2>2, <2>3, <1>2 DEF Hold
  <2> QED
    BY <2>4, EffectOf, SMTT(30)
<1>3. CASE pend.life # Agreed /\ msgs' \subseteq msgs
  <2>1. pending' = pending /\ UNCHANGED <<applied, mempool, ledger>>
    BY <1>0, <1>3, ZenonT(30) DEF SigningInv, TypeInv, TypeOK
  <2>2. Quiet
    BY <2>1, <1>3 DEF Quiet, NoNewSignature
  <2> QED
    BY <2>2, EffectOf
<1> QED
  BY <1>0, <1>1, <1>2, <1>3, ZenonT(30)

(* The opened channel: both signed the transaction that opened it. *)
LEMMA InitSafe == Init => SigningInv
<1> SUFFICES ASSUME Init PROVE SigningInv
  OBVIOUS
<1>1. TypeInv
  BY InitType
<1>2. /\ msgs = {} /\ mempool = {}
      /\ \A p \in Participants : pending[p] = NoPending
  BY DEF Init
<1>3. /\ DOMAIN ledger = {1}
      /\ ledger[1].txn = OpenTxn /\ ledger[1].sigs = Participants
  BY DEF Init, EntryOf
<1>4. \A p \in Participants :
         /\ Csn(p) = 1 /\ DOMAIN applied[p] = {1}
         /\ applied[p][1].kind = "Travel" /\ applied[p][1].txn = OpenTxn
         /\ applied[p][1].ver = 1
  BY DEF Init, Csn, Travel
<1>5. OpenTxn.csn = 0 /\ OpenTxn.proposer \in Participants
  <2>1. \E p : p \in Participants
    BY ParticipantsAssumption, SMTT(30)
  <2> QED
    BY <2>1 DEF OpenTxn, Opener
<1>6. \A p \in Participants : \A t \in SignedBy(p) : t = OpenTxn
  <2> SUFFICES ASSUME NEW p \in Participants, NEW t \in SignedBy(p)
               PROVE  t = OpenTxn
    OBVIOUS
  <2> QED
    BY <1>2, <1>3, <1>4, SignedByIs, SMTT(30) DEF NoPending
<1>7. SignersBound
  BY <1>4, <1>5, <1>6 DEF SignersBound, Spoken
<1>8. AnswersOwn \/ SignOnce
  BY <1>6 DEF SignOnce
<1>9. PendingGood /\ MempoolGood /\ MessagesGood
  BY <1>2 DEF PendingGood, GoodPending, MempoolGood, MessagesGood
<1>10. LogGood /\ LedgerGood
  BY <1>3, <1>4, <1>5 DEF LogGood, LedgerGood, ProposerSigned
<1> QED
  BY <1>1, <1>7, <1>8, <1>9, <1>10 DEF SigningInv

(* Every step is one of the effects. *)
LEMMA StepEffect ==
    ASSUME SigningInv, [Next]_vars
    PROVE  (\E p \in Participants : Effect(p)) \/ (\E x \in mempool : Committed(x))
<1>0. \E p : p \in Participants
  BY ParticipantsAssumption
<1>1. CASE UNCHANGED <<applied, pending, mempool, ledger, msgs>>
  <2>1. Quiet
    BY <1>1 DEF Quiet, NoNewSignature
  <2> QED
    BY <1>0, <2>1, EffectOf
<1>2. CASE UNCHANGED vars
  BY <1>1, <1>2, SMTT(30) DEF vars, stored, chain
<1>3. ASSUME NEW p \in Participants, UserStep(p)
      PROVE  Effect(p)
  BY <1>3, ProposeEffect, AnswerEffect, TaskEffect, SMTT(30) DEF UserStep
<1>4. ASSUME NEW p \in Participants, NEW m \in msgs, Deliver(p, m)
      PROVE  Effect(p)
  BY <1>4, DeliverEffect
<1>5. ASSUME NEW p \in Participants, NEW k \in tasks[p], TaskStep(p, k)
      PROVE  Effect(p)
  BY <1>5, TaskEffect
<1>6. ASSUME NEW p \in Participants, ChainEvent(p) \/ Failure(p) \/ Restart(p)
      PROVE  Effect(p)
  BY <1>6, ChainEventEffect, CrashEffect, RestartEffect, SMTT(30) DEF Failure
<1>7. ASSUME NEW x \in mempool, ChainCommit(x)
      PROVE  Committed(x)
  BY <1>7 DEF ChainCommit, Accepts, Committed, stored
<1>8. CASE \E i \in DOMAIN ledger : LockExpires(i)
  BY <1>1, <1>8 DEF LockExpires, stored
<1>9. ASSUME NEW m \in msgs, Lose(m)
      PROVE  \E p \in Participants : Effect(p)
  <2>1. Quiet
    BY <1>9 DEF Lose, Quiet, NoNewSignature, stored, chain
  <2> QED
    BY <1>0, <2>1, EffectOf
<1> QED
  BY <1>2, <1>3, <1>4, <1>5, <1>6, <1>7, <1>8, <1>9 DEF Next
=============================================================================
