----------------------------- MODULE ChannelLog -----------------------------
(***************************************************************************)
(* What a channel promises: one log of transactions, agreed by both        *)
(* participants, of which each has applied a prefix, and a layer 1 that    *)
(* commits some of its entries and no transaction that contradicts it.     *)
(* Entry csn + 1 of the log is the transaction with channel sequence       *)
(* number csn.                                                             *)
(***************************************************************************)
EXTENDS Naturals, Sequences

CONSTANT Participants

VARIABLES
    log,        \* the agreed transactions
    pos,        \* how many of them each participant has applied
    onchain     \* the transactions committed on layer 1

logVars == <<log, pos, onchain>>

LogInit ==
    /\ Len(log) = 1
    /\ pos = [p \in Participants |-> 1]
    /\ onchain = {log[1]}

Advance(p) == pos' = [pos EXCEPT ![p] = @ + 1]

(* The log grows by one entry, and keeps the others. *)
Grows == Len(log') = Len(log) + 1 /\ SubSeq(log', 1, Len(log)) = log

NewEntry == log'[Len(log')]

(* Off-chain, both stand at the end of the log, and layer 1 knows nothing else. *)
ApplyOffchain(p) ==
    /\ Advance(p)
    /\ \A q \in Participants : pos[q] = Len(log)
    /\ Grows
    /\ \A t \in onchain : t.csn >= Len(log) => t = NewEntry
    /\ onchain' = onchain

(* What layer 1 committed at the end of the log is applied, agreed or not. *)
ApplyOnchain(p) ==
    /\ Advance(p)
    /\ pos[p] = Len(log)
    /\ Grows
    /\ NewEntry \in onchain /\ NewEntry.csn = Len(log)
    /\ onchain' = onchain

CatchUp(p) ==
    /\ Advance(p)
    /\ pos[p] < Len(log)
    /\ UNCHANGED <<log, onchain>>

(* Layer 1 commits in the order of the log, and never another transaction
   than the one the log holds. *)
Commit ==
    /\ \E t \in onchain' \ onchain :
          /\ onchain' = onchain \cup {t}
          /\ \A u \in onchain : u.csn < t.csn
          /\ t.csn <= Len(log)
          /\ t.csn < Len(log) => t = log[t.csn + 1]
    /\ UNCHANGED <<log, pos>>

LogNext ==
    \/ \E p \in Participants : ApplyOffchain(p) \/ ApplyOnchain(p) \/ CatchUp(p)
    \/ Commit

LogSpec == LogInit /\ [][LogNext]_logVars
=============================================================================
