------------------------------- MODULE Bridge -------------------------------
(***************************************************************************)
(* The ChainBridge pallet: relayers vote on proposals (calls that other    *)
(* chains ask for), a proposal with enough votes is executed or cancelled, *)
(* and transfers out of this chain get the next deposit nonce of their     *)
(* destination.                                                            *)
(*                                                                         *)
(* A proposal is identified by its source chain, its nonce and its call.   *)
(* The calls of the pallet are not transactional: when the execution of an *)
(* approved proposal fails, the call returns the error but the vote and    *)
(* the status stay.  What the executed call does is left open: "works"     *)
(* says whether it returns Ok.                                             *)
(*                                                                         *)
(* Time is relative: a proposal's record holds the number of blocks left   *)
(* until its expiry.  "dispatched" and "succeeded" are history: they count *)
(* the executions of each proposal, which the pallet reports as events.    *)
(***************************************************************************)
EXTENDS Integers, Sequences, FiniteSets

CONSTANTS Account,          \* accounts that may become relayers
          Chain,            \* bridged chains, this chain excluded
          Proposal,         \* pairs of a nonce and a call
          Thresholds,       \* vote thresholds the committee may set
          DefaultThreshold, \* DEFAULT_RELAYER_THRESHOLD
          ProposalLifetime, \* in blocks
          MaxNonce,         \* bound: deposits to each chain
          None              \* an absent storage entry

ASSUME BridgeAssumption ==
    /\ Thresholds \subseteq Nat
    /\ DefaultThreshold \in Nat \ {0}
    /\ ProposalLifetime \in Nat \ {0}
    /\ MaxNonce \in Nat
    /\ None \notin Nat
    /\ None \notin [votes_for : Seq(Account), votes_against : Seq(Account),
                    status : {"Initiated", "Approved", "Rejected"}, left : 0..ProposalLifetime]

VARIABLES ChainNonces,      \* the last deposit nonce of each whitelisted chain
          RelayerThreshold,
          Relayers,         \* the accounts whose entry is true
          RelayerCount,
          Votes,            \* ProposalVotes of each chain and proposal
          BridgeEvents,     \* the transfers out of this chain in this block
          dispatched, succeeded

adminVars == <<RelayerThreshold, Relayers, RelayerCount>>
proposalVars == <<Votes, dispatched, succeeded>>
transferVars == <<ChainNonces, BridgeEvents>>
vars == <<adminVars, proposalVars, transferVars>>

chain_whitelisted(id) == ChainNonces[id] # None

\* A ProposalVotes record that is not stored yet.
NewVotes == [votes_for |-> <<>>, votes_against |-> <<>>, status |-> "Initiated",
             left |-> ProposalLifetime]

is_complete(votes) == votes.status # "Initiated"
is_expired(votes) == votes.left = 0

Voters(voted) == {voted[i] : i \in DOMAIN voted}
has_voted(votes, who) == who \in Voters(votes.votes_for) \cup Voters(votes.votes_against)

Init ==
    /\ ChainNonces = [id \in Chain |-> None]
    /\ RelayerThreshold = DefaultThreshold
    /\ Relayers = {}
    /\ RelayerCount = 0
    /\ Votes = [id \in Chain |-> [prop \in Proposal |-> None]]
    /\ BridgeEvents = <<>>
    /\ dispatched = [id \in Chain |-> [prop \in Proposal |-> 0]]
    /\ succeeded = [id \in Chain |-> [prop \in Proposal |-> 0]]

-----------------------------------------------------------------------------
(* The committee *)

set_threshold(threshold) ==
    /\ threshold > 0
    /\ RelayerThreshold' = threshold
    /\ UNCHANGED <<Relayers, RelayerCount, proposalVars, transferVars>>

whitelist_chain(id) ==
    /\ ~chain_whitelisted(id)
    /\ ChainNonces' = [ChainNonces EXCEPT ![id] = 0]
    /\ UNCHANGED <<adminVars, proposalVars, BridgeEvents>>

\* Mutant of add_relayer: an account that is a relayer already is counted again.
add_relayer_Again(v) ==
    /\ Relayers' = Relayers \cup {v}
    /\ RelayerCount' = RelayerCount + 1
    /\ UNCHANGED <<RelayerThreshold, proposalVars, transferVars>>

add_relayer(v) ==
    /\ v \notin Relayers
    /\ Relayers' = Relayers \cup {v}
    /\ RelayerCount' = RelayerCount + 1
    /\ UNCHANGED <<RelayerThreshold, proposalVars, transferVars>>

\* Mutant of remove_relayer: an account that is no relayer is subtracted too.
remove_relayer_Again(v) ==
    /\ Relayers' = Relayers \ {v}
    /\ RelayerCount' = RelayerCount - 1
    /\ UNCHANGED <<RelayerThreshold, proposalVars, transferVars>>

remove_relayer(v) ==
    /\ v \in Relayers
    /\ Relayers' = Relayers \ {v}
    /\ RelayerCount' = RelayerCount - 1
    /\ UNCHANGED <<RelayerThreshold, proposalVars, transferVars>>

-----------------------------------------------------------------------------
(* Voting *)

\* The record with the vote of "who" in it.
commit_vote(votes, who, in_favour) ==
    IF in_favour
    THEN [votes_for |-> Append(votes.votes_for, who), votes_against |-> votes.votes_against,
          status |-> votes.status, left |-> votes.left]
    ELSE [votes_for |-> votes.votes_for, votes_against |-> Append(votes.votes_against, who),
          status |-> votes.status, left |-> votes.left]

\* Mutant of may_vote: the votes of the other side are not looked at.
may_vote_BothSides(votes, who) ==
    ~is_complete(votes) /\ ~is_expired(votes) /\ who \notin Voters(votes.votes_for)

\* What commit_vote ensures before.
may_vote(votes, who) == ~is_complete(votes) /\ ~is_expired(votes) /\ ~has_voted(votes, who)

approves(votes) == Len(votes.votes_for) >= RelayerThreshold

rejects(votes) ==
    /\ ~approves(votes)
    /\ RelayerCount >= RelayerThreshold
    /\ Len(votes.votes_against) + RelayerThreshold > RelayerCount

\* The status after try_to_complete.
try_to_complete(votes) ==
    IF approves(votes) THEN "Approved"
    ELSE IF rejects(votes) THEN "Rejected" ELSE votes.status

\* Mutant of try_resolve_proposal: a proposal whose execution fails stays open.
try_resolve_proposal_Retried(id, prop, votes, works) ==
    LET status == try_to_complete(votes)
    IN  /\ Votes' = [Votes EXCEPT ![id][prop] =
                       IF status = "Approved" /\ ~works THEN votes ELSE [votes EXCEPT !.status = status]]
        /\ dispatched' = [dispatched EXCEPT ![id][prop] = IF status = "Approved" THEN @ + 1 ELSE @]
        /\ UNCHANGED succeeded

\* try_resolve_proposal: an approved proposal is executed at once.
try_resolve_proposal(id, prop, votes, works) ==
    LET status == try_to_complete(votes)
    IN  /\ Votes' = [Votes EXCEPT ![id][prop] =
                       [votes_for |-> votes.votes_for, votes_against |-> votes.votes_against,
                        status |-> status, left |-> votes.left]]
        /\ \/ /\ status = "Approved"
              /\ dispatched' = [dispatched EXCEPT ![id][prop] = @ + 1]
              /\ succeeded' = [succeeded EXCEPT ![id][prop] = IF works THEN @ + 1 ELSE @]
           \/ /\ status # "Approved"
              /\ UNCHANGED <<dispatched, succeeded>>

\* Mutant of vote: a vote against is recorded without evaluating the proposal.
vote_Unresolved(who, id, prop, in_favour, works) ==
    LET votes == IF Votes[id][prop] = None THEN NewVotes ELSE Votes[id][prop]
    IN  /\ who \in Relayers
        /\ chain_whitelisted(id)
        /\ may_vote(votes, who)
        /\ \/ in_favour /\ try_resolve_proposal(id, prop, commit_vote(votes, who, TRUE), works)
           \/ /\ ~in_favour
              /\ Votes' = [Votes EXCEPT ![id][prop] = commit_vote(votes, who, FALSE)]
              /\ UNCHANGED <<dispatched, succeeded>>
        /\ UNCHANGED <<adminVars, transferVars>>

\* acknowledge_proposal and reject_proposal.  A vote against may find enough votes in favour,
\* when the threshold was lowered meanwhile.
vote(who, id, prop, in_favour, works) ==
    LET votes == IF Votes[id][prop] = None THEN NewVotes ELSE Votes[id][prop]
    IN  /\ who \in Relayers
        /\ chain_whitelisted(id)
        /\ may_vote(votes, who)
        /\ try_resolve_proposal(id, prop, commit_vote(votes, who, in_favour), works)
        /\ UNCHANGED <<adminVars, transferVars>>

\* Mutant of eval_vote_state: a complete proposal is evaluated again.
eval_vote_state_Complete(id, prop, works) ==
    /\ Votes[id][prop] # None
    /\ ~is_expired(Votes[id][prop])
    /\ try_resolve_proposal(id, prop, Votes[id][prop], works)
    /\ UNCHANGED <<adminVars, transferVars>>

\* Anybody may have a proposal evaluated again.
eval_vote_state(id, prop, works) ==
    /\ Votes[id][prop] # None
    /\ ~is_complete(Votes[id][prop])
    /\ ~is_expired(Votes[id][prop])
    /\ try_resolve_proposal(id, prop, Votes[id][prop], works)
    /\ UNCHANGED <<adminVars, transferVars>>

-----------------------------------------------------------------------------
(* Transfers out, and blocks *)

\* Mutant of transfer: the event carries the nonce from before.
transfer_OldNonce(dest_id) ==
    /\ chain_whitelisted(dest_id)
    /\ ChainNonces[dest_id] < MaxNonce
    /\ ChainNonces' = [ChainNonces EXCEPT ![dest_id] = @ + 1]
    /\ BridgeEvents' = Append(BridgeEvents, [dest |-> dest_id, nonce |-> ChainNonces[dest_id]])
    /\ UNCHANGED <<adminVars, proposalVars>>

\* transfer_fungible, transfer_nonfungible and transfer_generic, which differ in the payload.
transfer(dest_id) ==
    /\ chain_whitelisted(dest_id)
    /\ ChainNonces[dest_id] < MaxNonce
    /\ ChainNonces' = [ChainNonces EXCEPT ![dest_id] = @ + 1]
    /\ BridgeEvents' = Append(BridgeEvents, [dest |-> dest_id, nonce |-> ChainNonces[dest_id] + 1])
    /\ UNCHANGED <<adminVars, proposalVars>>

\* A proposal's record a block later.
Older(votes) ==
    IF votes = None \/ votes.left = 0 THEN votes
    ELSE [votes_for |-> votes.votes_for, votes_against |-> votes.votes_against,
          status |-> votes.status, left |-> votes.left - 1]

on_initialize ==
    /\ BridgeEvents' = <<>>
    /\ Votes' = [id \in Chain |-> [prop \in Proposal |-> Older(Votes[id][prop])]]
    /\ UNCHANGED <<adminVars, ChainNonces, dispatched, succeeded>>

Next ==
    \/ \E threshold \in Thresholds : set_threshold(threshold)
    \/ \E v \in Account : add_relayer(v) \/ remove_relayer(v)
    \/ \E id \in Chain : whitelist_chain(id) \/ transfer(id)
    \/ \E id \in Chain, prop \in Proposal, works \in BOOLEAN :
          \/ \E who \in Account, in_favour \in BOOLEAN : vote(who, id, prop, in_favour, works)
          \/ eval_vote_state(id, prop, works)
    \/ on_initialize

Spec == Init /\ [][Next]_vars

-----------------------------------------------------------------------------
(* Properties *)

ProposalVotes ==
    [votes_for : Seq(Account), votes_against : Seq(Account),
     status : {"Initiated", "Approved", "Rejected"}, left : 0..ProposalLifetime]

\* Every storage item has its declared shape; the relayer count in particular is a natural
\* number, as a removal never takes it below zero.
TypeOK ==
    /\ ChainNonces \in [Chain -> 0..MaxNonce \cup {None}]
    /\ RelayerThreshold \in Nat \ {0}
    /\ Relayers \subseteq Account
    /\ RelayerCount \in Nat
    /\ Votes \in [Chain -> [Proposal -> ProposalVotes \cup {None}]]
    /\ BridgeEvents \in Seq([dest : Chain, nonce : 1..MaxNonce])
    /\ dispatched \in [Chain -> [Proposal -> Nat]]
    /\ succeeded \in [Chain -> [Proposal -> Nat]]

\* RelayerCount, against which rejections are decided, is the number of relayers.
RelayerCountExact == RelayerCount = Cardinality(Relayers)

\* No account occurs twice in a proposal's votes.
Distinct(votes) ==
    /\ \A i, j \in DOMAIN votes.votes_for :
          votes.votes_for[i] = votes.votes_for[j] => i = j
    /\ \A i, j \in DOMAIN votes.votes_against :
          votes.votes_against[i] = votes.votes_against[j] => i = j
    /\ Voters(votes.votes_for) \cap Voters(votes.votes_against) = {}

\* The votes that count for a decision are those of different accounts, and no account votes
\* on both sides, also when it leaves the relayers and comes back.
VotesDistinct ==
    \A id \in Chain, prop \in Proposal : Votes[id][prop] # None => Distinct(Votes[id][prop])

IsApproved(id, prop) == Votes[id][prop] # None /\ Votes[id][prop].status = "Approved"

\* A proposal is executed exactly once when it is approved, whichever vote or evaluation
\* approves it, and never otherwise; an execution that failed is not repeated.
ExecutedOnce ==
    \A id \in Chain, prop \in Proposal :
        /\ dispatched[id][prop] = IF IsApproved(id, prop) THEN 1 ELSE 0
        /\ succeeded[id][prop] <= dispatched[id][prop]

\* The events of this block after the i-th that are to the same destination.
Later(i) ==
    {j \in DOMAIN BridgeEvents : j > i /\ BridgeEvents[j].dest = BridgeEvents[i].dest}

\* Relayers read the transfers of each block from BridgeEvents: the nonces of each destination
\* follow each other without a gap up to the nonce that is stored.
NoncesConsecutive ==
    \A i \in DOMAIN BridgeEvents :
        BridgeEvents[i].nonce + Cardinality(Later(i)) = ChainNonces[BridgeEvents[i].dest]

\* "Ensure the proposal isn't complete": a decision is final, no later vote, evaluation,
\* threshold or set of relayers changes it or executes the proposal again.
DecisionIsFinal ==
    [][\A id \in Chain, prop \in Proposal :
          Votes[id][prop] # None /\ is_complete(Votes[id][prop]) =>
              /\ Votes'[id][prop].votes_for = Votes[id][prop].votes_for
              /\ Votes'[id][prop].votes_against = Votes[id][prop].votes_against
              /\ Votes'[id][prop].status = Votes[id][prop].status
              /\ dispatched'[id][prop] = dispatched[id][prop]]_vars

\* An open proposal whose votes are enough for a decision.
Undecided(id, prop) ==
    /\ Votes[id][prop] # None
    /\ ~is_complete(Votes[id][prop])
    /\ ~is_expired(Votes[id][prop])
    /\ approves(Votes[id][prop]) \/ rejects(Votes[id][prop])

\* Every vote is followed by the decision it makes possible, so that eval_vote_state is only
\* needed after the committee changed the threshold or the relayers.
NoDecisionMissed ==
    [][\A id \in Chain, prop \in Proposal :
          ~Undecided(id, prop) /\ Undecided(id, prop)' =>
              RelayerThreshold' # RelayerThreshold \/ RelayerCount' # RelayerCount]_vars
=============================================================================
