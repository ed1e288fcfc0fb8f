# Stargate: a TLA+ verification of the channel layer

Stargate is a layer 2 network on Libra. Two participants open a *channel* on
layer 1, exchange co-signed channel transactions off-chain, and go back to
layer 1 when a transaction touches it ("travels") or when a participant does not
answer. This directory specifies the part of the system on which everything else
rests, the two channel actors of one channel with their nodes and layer 1,
checks it with TLC and proves its main safety properties with TLAPS.

## The system

| part | source | module | state |
|---|---|---|---|
| channel state machine, pending transaction | `sgwallet/src/channel/channel_stm.rs`, `sgtypes/src/pending_txn.rs` | `ChannelStm` | modelled |
| channel actor | `sgwallet/src/channel/channel.rs`, `channel/mod.rs` | `ChannelState`, `Channel` | modelled |
| applier and store | `sgwallet/src/tx_applier.rs`, `sgstorage/src/channel_store.rs` | `ChannelStm`, `Channel` | partly |
| wallet calls on a channel | `sgwallet/src/wallet.rs` | `Channel` | partly |
| node handlers of channel messages | `node/node_internal/src/node.rs` | `Channel` | partly |
| layer 1 contract (external) | used through `sgchain/src/star_chain_client.rs` | `ChainContract` | partly |
| wallet actor (enable, spawn, stop) | `sgwallet/src/wallet.rs` | | planned |
| multi-hop payments, invoices | `node.rs`, `invoice.rs` | | planned |
| message futures | `message_processor.rs` of node and router | | planned |
| chain watcher, data streams | `sgwallet/src/chain_watcher`, `data_stream.rs` | | planned |
| routers (table, ant), graph, statistics | `router/` | | planned |
| peer set, protocol behaviour, network service | `network-libp2p/`, `sgnetwork/` | | planned |
| command line, faucet, compiler, gRPC, configuration, wire types, transport | `cli/`, `sgfaucet/`, `sgcompiler/`, `node/node_service`, ... | | not modelled: no protocol state |

A proposal goes through `execute_async` (the actor signs and stores it as its
single pending transaction), a request to the peer, `verify_txn` there, an
automatic or a user's signature, a response, and `apply_txn` on both sides. An
agreed off-chain transaction is appended to the log of the store. Anything else
travels: the proposer submits it, both watch layer 1 and append it when it is
committed. A transaction that travels without the peer's signature (a *solo*
transaction) locks the channel; the peer resolves the lock, or challenges it when
its log already holds that transaction off-chain, and the proposer closes the
channel when the lock expires.

## Modules

- `ChannelStm` has the transactions, the `PendingTransaction` with its lifecycle
  (Created, Negotiating, Agreed, Applying, Traveling), `HandleProposalSignature`,
  `HandleApplyProposal`, and the log with its witness. Like the source, it has no
  state of its own.
- `ChainContract` is layer 1 as the wallet relies on it: stages, locks, account
  sequence numbers, and `Accepts`, the condition to commit. It is external: the
  contract is not part of the repository.
- `ChannelState` has the variables, their types and the safety properties that are
  proved; `Channel` has the actions. Persistent state: `applied` (the log; the local channel
  sequence number is its length), `pending`, `synced` (the layer 1 version of the
  channel state). Volatile state: `status`, `watching` (an actor that awaits
  layer 1 handles nothing else), `tasks` (node handlers between two of their actor
  messages), `timers` (the own locks whose timeout a task watches), `cursor` (the event
  loop). Environment: `msgs`, `mempool`, `ledger`, `expired`. The rest is bounds and
  history.
- `ChannelLog` is the abstract specification: one agreed append-only log, of
  which each participant has applied a prefix, and a layer 1 that commits entries
  of it in order and nothing that contradicts it.
- `ChannelProperties` has the refinement mapping to `ChannelLog`, fairness, the liveness
  properties and the statements of the repository that the code does not keep.
- `MCChannel` instantiates them for TLC.
- `ChannelSigning`, `ChannelTypes`, `ChannelTypeProofs`, `ChannelEffects`,
  `ChannelChainEffects`, `ChannelAgreementProofs` hold the proofs.

One action is one actor message together with everything the handler does before
it waits for something else. `Propose` is `Execute` and the sent request;
`RecvRequest`, `RecvRequestAgain`, `RecvResponse`, `RecvInvalid` and `RecvTooLate`
are `CollectProposalWithSigs` with the outcomes its caller distinguishes (signed or
to be approved, applied before, refused, `unreachable!()`); `Approve` (up to
`GetPendingTxn`), `GrantTxnRequest` (`GrantProposal`, also of a node that approves
automatically) and `Reject` answer a proposal; `ApplyTxn` and `ForceTravelTxn` are
`ApplyPendingTxn` with its two callers; `StartWatch` and `WatchAndApply` are the
two ends of `WatchAndApplyTravelTxn`, in which `ApplyCoSignedTxn` and
`ApplySoloTxn` run; `StageChange` and `ChannelLockTimeout` are the handlers of those
names; `SoloAction` is the resolve, challenge or close an actor starts itself.
`Crash`, `CrashAfterSubmit` and the second half of `SoloAction` are the death of a
process between handlers or inside one, at every point where something was stored
or submitted; `Restart` is `Channel::load`, `Actor::started` and `Node::init`.

### Answering a proposal

`approve_txn` and `reject_txn` check that something is pending, that it has the hash
the user names, and that it did not reach consensus (`MayGrant`). They do not ask who
proposed or signed it: a user may approve their own proposal, which then travels
without the peer's signature, or reject it after it was signed and sent. The query
`get_waiting_proposal` shows users the peer's proposals only. `MaxOwnAnswers` bounds
how often a user answers a proposal of their own; the bound 0 is the assumption *users
answer what `get_waiting_proposal` shows*. `SignOnce`, `Agreement`, `ChainAgrees` and the
refinement need it, and run `own_rejection` shows what happens without.
`OffchainTogether`, `NoUnimplemented`, `AgreedIsDurable` and `LockIsAnswered` do not, and
their runs allow own answers. `cancel_pending_request` has no caller, and sends what
`reject_txn` sends.

### Starting a node

`start_server` waits for `Node::init` before it starts the network and command loops
(`Serving`). For a channel with a negotiating transaction, `init` does nothing when the
peer is not connected, and the node serves. Otherwise it sends the request again and
waits for the future of the answer, which only the network loop could complete: the
node takes no message until the future times out, and then it panics (`InitPanics`) and
is down again. `Resend` is that request; it may be the peer's own proposal. A pending
transaction without its proposer's signature would panic in `get_pending_txn_request`
(`RequestPanics`).

### Abstractions

- A transaction is its hash (`id`), operation, channel sequence number, proposer
  and account sequence number. The operations of a configuration stand for the
  classes the code tells apart: automatically signed or not, off-chain or
  traveling, closing or not.
- Signatures verify exactly when the signer signed that transaction with the
  witness the receiver holds; cryptography and the Move VM are external.
- `applied`, `pending` and `synced` change atomically, as the store writes them in
  one batch.
- The state of `debug_assert`s is that of a release build: a failed one is followed
  by the `ensure!` behind it. Where an assertion states a property, a run checks it.
- An error message only completes a future of the node it reaches. The one that
  reports a rejection is kept; the others are left out. A request or response to an
  actor that stopped stays in `msgs` for ever, which is the same as its loss.
- The HTLC continuation of a request handler proposes another transaction: in this
  model that is a `Propose` by the same participant.
- `submit_transaction` that fails changes nothing and is a handler that did not run.
- Two messages, or two handlers of one node, that are identical and under way at once
  count as one. A copy that comes after the first one was taken (a request sent again, a
  second response, a handler spawned later for the same transaction) is a step of its own.
- The time to a panic in `init`, and an `init` without a timeout (0), differ only in
  whether `InitPanics` is ever taken; both are behaviours of the model.

## Runs

All runs use participants `a`, `b`; deadlock checking is off because the system may
rightly stop (users owe nothing, a closed channel does nothing, bounds are used up).
Bounds: `MaxProposals`, `MaxForces`, `MaxCrashes`, `MaxTimeouts`, `MaxOwnAnswers` (0 unless
the table says so). `Lossy` lets messages disappear; safety runs do without, since a
message that is never delivered is as good as lost.

| run | instance | shows |
|---|---|---|
| `offchain_agreement` | pay, script; both propose; 2 proposals, 1 forced | `TypeOK`, `SignOnce`, `Agreement`, `ChainAgrees` |
| `travel_agreement` | pay, withdraw; both propose; 2 proposals, 1 own answer, 1 watch timeout | `OffchainTogether`, `NoUnimplemented`, `AgreedIsDurable` |
| `crash_recovery` | pay, withdraw; `a` proposes twice, 1 forced, 1 crash of either | `SignOnce`, `ImplementsChannelLog` |
| `proposal_settles` | each operation once, automatic approval, fair | `EveryProposalSettles` |
| `lock_is_answered` | pay, withdraw; one proposal, forced at any time, 1 own answer; lossy, fair | `LockIsAnswered` |

Two proposals are what crossing and reordering need: one transaction can be agreed
off-chain, forced or rejected while the next is negotiated, and the resolve or
challenge that follows a forced one does not count against the bound. One crash is
enough for each point of a handler, since a restart leaves no volatile state.
`travel_agreement` has no forced transaction but the approval of an own proposal, which
sends it to layer 1 unsigned by the peer as a forced one. With a forced transaction
in addition the instance has 5,953,951 distinct states, too many for a run
of this project; TLC found no violation in them.

Fairness (`FairSpec`): weak fairness of delivery, of spawned handlers, of the actor
mailbox, of layer 1 commits and events and of a restart. tokio runs every spawned
task, the mailbox is a queue, and layer 1 is live. Nothing is assumed of users, of
losses (a message in flight is delivered or lost) or of the expiry of a lock.

Seven further runs show that a statement in the repository is not true of the code.
The manifest quotes each statement.

| run | statement | what happens |
|---|---|---|
| `late_signature` | `unreachable!()` in `handle_proposal_signature` | the response arrives after the proposer forced the transaction |
| `stale_receiver` | "Local state is stale, there must be some bugs" | the peer's resolve is delivered before the proposer's watch has applied the forced transaction |
| `own_rejection` | a transaction is applied "if the proposal is agreed by both" | a user rejects their own proposal, which the peer signs and applies, and forces another one with its sequence number: the logs differ |
| `outdated_solo` | "why whould I applied an offchain txn, while still submit a outdated solo txn" | death between submit and save, a start while the peer is offline, the late answer applied off-chain; the next watch finds the earlier submission |
| `rejected_proposal` | "sender should cancel his local pending txn" | nothing in the node cancels it; only the user could, by rejecting their own proposal |
| `restart_in_lock` | "if it's locked ... resolve/challenge it" | death between applying the lock and resolving it |
| `challenge_blocked` | "participant must submit a challenge_channel txn" | `Execute` fails while an own proposal is pending |

## Proofs

The theorems hold for every set of operations and every bound: any number of
proposals, forced transactions, losses, crashes and timeouts.
Assumptions: there are two participants (`ParticipantsAssumption`), user and solo
operations are disjoint and `TravelOps`, `CloseOps` are user operations
(`OpsAssumption`), `None` is no transaction (`NoneAssumption`), bounds are naturals
(`BoundsAssumption`, `OwnAnswersAssumption`). TLC evaluates them in every run.

- `TypeCorrect`: `Spec => []TypeOK`. `TypeInv` adds that a pending transaction, where
  there is one, is a transaction (`ChannelTypes`, `ChannelTypeProofs`).
- `SignsOnce`: `ASSUME MaxOwnAnswers = 0 PROVE Spec => []SignOnce`.
- `ParticipantsAgree`: `ASSUME MaxOwnAnswers = 0 PROVE Spec => [](Agreement /\ ChainAgrees)`.
- `NobodyRunsAhead`: `Spec => []OffchainTogether`, whatever users answer.
- `AgreedStays`: `Spec => AgreedIsDurable`, whatever users answer.

The hypothesis `MaxOwnAnswers = 0` says that users answer the peer's proposals only. The
code does not enforce it, and `own_rejection` shows that `ParticipantsAgree` fails
without it.

`SignOnce` is not inductive: it does not say why a participant is free to sign.
`SigningInv` does: every signature of `p` that exists anywhere is on a transaction
`p` is *bound to* (`Spoken`), which means that it is `p`'s pending transaction with
`p`'s signature, or that `p`'s log is past its sequence number. It also says that
pending transactions have the sequence number of the log, that travel entries of a
log are on layer 1, that layer 1 sequence numbers increase, and that a proposer is
bound to what it proposed. One invariant serves both cases: where a user may drop or
approve a proposal of their own (`AnswersOwn`), `Spoken` also allows a signature under
the current sequence number of the log, and the conjuncts on messages, on signed
proposals and on `SignOnce` are disjunctions with `AnswersOwn`. What is left is what
`NobodyRunsAhead` needs. `SigningInv` was model-checked before it was proved, on the
instances of `offchain_agreement` and `crash_recovery` and, with own answers, on those
of `own_rejection`, `travel_agreement` and `lock_is_answered` (no violation in 1,591,656
distinct states); it is no run of its own, since the theorems cover it.

The proof goes through *effects* (`ChannelSigning`). A step of `p` leaves the logs,
pending transactions, mempool and ledger alone and adds no signature (`Quiet`), drops
a transaction `p` did not sign, or any before consensus when users answer their own
(`Release`), appends the agreed pending transaction
(`GrowOffchain`), signs again what is in the log (`Again`), takes or extends its pending
transaction (`Hold`), or appends a committed transaction (`GrowTravel`); layer 1 commits
(`Committed`). `ChannelSigning` proves that each effect preserves `SigningInv`; it knows
the state and none of the actions. `ChannelEffects` (negotiation) and
`ChannelChainEffects` (application, layer 1, crashes, restarts) prove that every action
is one of the effects, and `ChannelAgreementProofs` draws the conclusions: two logs
agree because an off-chain entry carries both signatures and a travel entry is the one
on layer 1, signed by its proposer.

Only model-checked: the refinement `ImplementsChannelLog`, `NoUnimplemented` and the
liveness properties (fairness and `ENABLED` are outside the prover's reach). That a
timed-out watch leaves a traveling transaction unwatched until a restart is modelled;
no property speaks about it, since nothing in the repository promises otherwise.

## Plan

1. `MessageProcessor` (futures, timeouts, errors), `MultiHop` (HTLC forwarding over several
   channels, composed with an abstract channel), `WalletActor`.
2. `ChannelStore` (batches, startup info, witness), `DataStream` and `ChainWatcher`, with
   the event cursor of `Channel` as their abstract specification.
3. `PeersState` and `Peerset` (slot accounting, with an inductive invariant to prove),
   `CustomProto` composed with it, `Network` (acknowledgements).
4. `Stats`, `GraphStore`, `TableRouter`, `AntRouter`.
5. Proofs: `ImplementsChannelLog` from the effects, slot accounting, futures.

The hazards of the manifest without a property name the module that will cover
them, or say why there is none.
