---------------------------- MODULE BridgeProofs ----------------------------
(***************************************************************************)
(* What is proved of the bridge, for any set of accounts, chains and       *)
(* proposals: the inductive invariant BridgeInv and the properties that    *)
(* follow from it.                                                         *)
(***************************************************************************)
EXTENDS Bridge, FiniteSetTheorems, TLAPS

\* The set of relayers is finite, so that it can be counted.
RelayersCounted == IsFiniteSet(Relayers) /\ RelayerCountExact

BridgeInv == TypeOK /\ RelayersCounted /\ VotesDistinct /\ ExecutedOnce

-----------------------------------------------------------------------------
(* The records of votes *)

\* The record of a proposal that is not stored yet is well formed and holds no vote.
LEMMA NewVotesFit == NewVotes \in ProposalVotes /\ Distinct(NewVotes)
<1>1. << >> \in Seq(Account) /\ DOMAIN << >> = {}
  OBVIOUS
<1>2. NewVotes \in ProposalVotes
  BY <1>1, BridgeAssumption DEF NewVotes, ProposalVotes
<1>3. Distinct(NewVotes)
  BY <1>1 DEF NewVotes, Distinct, Voters
<1> QED
  BY <1>2, <1>3

\* The votes of one side with a new voter in it (votes.push): no account occurs twice.
LEMMA PushDistinct ==
    ASSUME NEW voted \in Seq(Account), NEW who \in Account, who \notin Voters(voted),
           \A i, j \in DOMAIN voted : voted[i] = voted[j] => i = j
    PROVE  /\ Append(voted, who) \in Seq(Account)
           /\ \A i, j \in DOMAIN Append(voted, who) :
                 Append(voted, who)[i] = Append(voted, who)[j] => i = j
           /\ Voters(Append(voted, who)) = Voters(voted) \cup {who}
<1> DEFINE pushed == Append(voted, who)
<1>1. /\ pushed \in Seq(Account)
      /\ DOMAIN pushed = 1..(Len(voted) + 1)
      /\ DOMAIN voted = 1..Len(voted)
      /\ Len(voted) \in Nat
  OBVIOUS
<1>2. \A i \in 1..Len(voted) : pushed[i] = voted[i]
  OBVIOUS
<1>3. pushed[Len(voted) + 1] = who
  OBVIOUS
<1>4. \A i \in 1..Len(voted) : pushed[i] # who
  BY <1>1, <1>2 DEF Voters
<1>5. ASSUME NEW i \in DOMAIN pushed, NEW j \in DOMAIN pushed, pushed[i] = pushed[j]
      PROVE  i = j
  <2> HIDE DEF pushed
  <2>1. CASE i \in 1..Len(voted) /\ j \in 1..Len(voted)
    BY <1>1, <1>2, <1>5, <2>1
  <2>2. CASE i = Len(voted) + 1 \/ j = Len(voted) + 1
    BY <1>1, <1>3, <1>4, <1>5, <2>2
  <2> QED
    BY <1>1, <2>1, <2>2
<1>6. Voters(pushed) = Voters(voted) \cup {who}
  <2> HIDE DEF pushed
  <2>1. Voters(pushed) \subseteq Voters(voted) \cup {who}
    BY <1>1, <1>2, <1>3 DEF Voters
  <2>2. Voters(voted) \subseteq Voters(pushed)
    BY <1>1, <1>2 DEF Voters
  <2>3. who \in Voters(pushed)
    BY <1>1, <1>3 DEF Voters
  <2> QED
    BY <2>1, <2>2, <2>3
<1> QED
  BY <1>1, <1>5, <1>6

\* A vote that commit_vote lets pass keeps the record well formed and its voters distinct.
LEMMA CommitVoteFits ==
    ASSUME NEW votes \in ProposalVotes, Distinct(votes), NEW who \in Account,
           NEW in_favour \in BOOLEAN, may_vote(votes, who)
    PROVE  /\ commit_vote(votes, who, in_favour) \in ProposalVotes
           /\ Distinct(commit_vote(votes, who, in_favour))
           /\ commit_vote(votes, who, in_favour).status = votes.status
           /\ commit_vote(votes, who, in_favour).left = votes.left
<1>1. /\ votes.votes_for \in Seq(Account)
      /\ votes.votes_against \in Seq(Account)
      /\ votes.status \in {"Initiated", "Approved", "Rejected"}
      /\ votes.left \in 0..ProposalLifetime
  BY DEF ProposalVotes
<1>2. who \notin Voters(votes.votes_for) /\ who \notin Voters(votes.votes_against)
  BY DEF may_vote, has_voted
<1>3. /\ \A i, j \in DOMAIN votes.votes_for : votes.votes_for[i] = votes.votes_for[j] => i = j
      /\ \A i, j \in DOMAIN votes.votes_against :
            votes.votes_against[i] = votes.votes_against[j] => i = j
      /\ Voters(votes.votes_for) \cap Voters(votes.votes_against) = {}
  BY DEF Distinct
<1>4. CASE in_favour
  <2> DEFINE pushed == Append(votes.votes_for, who)
  <2>1. /\ pushed \in Seq(Account)
        /\ \A i, j \in DOMAIN pushed : pushed[i] = pushed[j] => i = j
        /\ Voters(pushed) = Voters(votes.votes_for) \cup {who}
    BY <1>1, <1>2, <1>3, PushDistinct
  <2> HIDE DEF pushed
  <2>2. commit_vote(votes, who, in_favour) =
          [votes_for |-> pushed, votes_against |-> votes.votes_against,
           status |-> votes.status, left |-> votes.left]
    BY <1>4 DEF commit_vote, pushed
  <2>3. Voters(pushed) \cap Voters(votes.votes_against) = {}
    BY <1>2, <1>3, <2>1
  <2> QED
    BY <1>1, <1>3, <2>1, <2>2, <2>3 DEF ProposalVotes, Distinct
<1>5. CASE ~in_favour
  <2> DEFINE pushed == Append(votes.votes_against, who)
  <2>1. /\ pushed \in Seq(Account)
        /\ \A i, j \in DOMAIN pushed : pushed[i] = pushed[j] => i = j
        /\ Voters(pushed) = Voters(votes.votes_against) \cup {who}
    BY <1>1, <1>2, <1>3, PushDistinct
  <2> HIDE DEF pushed
  <2>2. commit_vote(votes, who, in_favour) =
          [votes_for |-> votes.votes_for, votes_against |-> pushed,
           status |-> votes.status, left |-> votes.left]
    BY <1>5 DEF commit_vote, pushed
  <2>3. Voters(votes.votes_for) \cap Voters(pushed) = {}
    BY <1>2, <1>3, <2>1
  <2> QED
    BY <1>1, <1>3, <2>1, <2>2, <2>3 DEF ProposalVotes, Distinct
<1> QED
  BY <1>4, <1>5

-----------------------------------------------------------------------------
(* Deciding *)

\* try_resolve_proposal on an open record keeps the proposals' part of the invariant: the
\* proposal is executed if and only if it is approved by this very step.
LEMMA ResolveKeepsInv ==
    ASSUME BridgeInv, NEW id \in Chain, NEW prop \in Proposal, NEW works \in BOOLEAN,
           NEW votes \in ProposalVotes, Distinct(votes), ~is_complete(votes),
           ~IsApproved(id, prop), try_resolve_proposal(id, prop, votes, works)
    PROVE  /\ Votes' \in [Chain -> [Proposal -> ProposalVotes \cup {None}]]
           /\ dispatched' \in [Chain -> [Proposal -> Nat]]
           /\ succeeded' \in [Chain -> [Proposal -> Nat]]
           /\ VotesDistinct'
           /\ ExecutedOnce'
<1> DEFINE status == try_to_complete(votes)
           resolved == [votes_for |-> votes.votes_for, votes_against |-> votes.votes_against,
                        status |-> status, left |-> votes.left]
<1>1. /\ Votes \in [Chain -> [Proposal -> ProposalVotes \cup {None}]]
      /\ dispatched \in [Chain -> [Proposal -> Nat]]
      /\ succeeded \in [Chain -> [Proposal -> Nat]]
  BY DEF BridgeInv, TypeOK
<1>2. status \in {"Initiated", "Approved", "Rejected"}
  BY DEF try_to_complete, is_complete, ProposalVotes
<1>3. resolved \in ProposalVotes
  BY <1>2 DEF ProposalVotes
<1>4. Distinct(resolved)
  BY DEF Distinct
<1>5. Votes' = [Votes EXCEPT ![id][prop] = resolved]
  BY DEF try_resolve_proposal
<1>6. resolved.status = status
  OBVIOUS
<1>7. \/ /\ status = "Approved"
         /\ dispatched' = [dispatched EXCEPT ![id][prop] = @ + 1]
         /\ succeeded' = [succeeded EXCEPT ![id][prop] = IF works THEN @ + 1 ELSE @]
      \/ /\ status # "Approved"
         /\ dispatched' = dispatched
         /\ succeeded' = succeeded
  BY DEF try_resolve_proposal
<1> HIDE DEF status, resolved
<1>8. /\ Votes' \in [Chain -> [Proposal -> ProposalVotes \cup {None}]]
      /\ Votes'[id][prop] = resolved
      /\ \A i \in Chain, p \in Proposal :
            i # id \/ p # prop => Votes'[i][p] = Votes[i][p]
  BY <1>1, <1>3, <1>5
<1>9. resolved # None
  BY <1>3, BridgeAssumption DEF ProposalVotes
<1>10. /\ dispatched' \in [Chain -> [Proposal -> Nat]]
       /\ succeeded' \in [Chain -> [Proposal -> Nat]]
       /\ \A i \in Chain, p \in Proposal :
             i # id \/ p # prop =>
                 dispatched'[i][p] = dispatched[i][p] /\ succeeded'[i][p] = succeeded[i][p]
  <2>1. CASE status = "Approved"
    <3>1. \A i \in Chain, p \in Proposal :
             dispatched'[i][p] = IF i = id /\ p = prop THEN dispatched[i][p] + 1
                                 ELSE dispatched[i][p]
      BY <1>1, <1>7, <2>1
    <3>2. \A i \in Chain, p \in Proposal :
             succeeded'[i][p] = IF i = id /\ p = prop /\ works THEN succeeded[i][p] + 1
                                ELSE succeeded[i][p]
      BY <1>1, <1>7, <2>1
    <3> DEFINE bumped == [dispatched[id] EXCEPT ![prop] = @ + 1]
               bumped_ok == [succeeded[id] EXCEPT ![prop] = IF works THEN @ + 1 ELSE @]
    <3>a. bumped \in [Proposal -> Nat] /\ bumped_ok \in [Proposal -> Nat]
      BY <1>1
    <3>b. /\ dispatched' = [dispatched EXCEPT ![id] = bumped]
          /\ succeeded' = [succeeded EXCEPT ![id] = bumped_ok]
      BY <1>7, <2>1
    <3> HIDE DEF bumped, bumped_ok
    <3>3. dispatched' \in [Chain -> [Proposal -> Nat]]
      BY <1>1, <3>a, <3>b
    <3>4. succeeded' \in [Chain -> [Proposal -> Nat]]
      BY <1>1, <3>a, <3>b
    <3> QED
      BY <3>1, <3>2, <3>3, <3>4
  <2>2. CASE status # "Approved"
    BY <1>1, <1>7, <2>2
  <2> QED
    BY <2>1, <2>2
<1>11. dispatched[id][prop] = 0 /\ succeeded[id][prop] = 0
  BY <1>1 DEF BridgeInv, ExecutedOnce
<1>12. /\ dispatched'[id][prop] = IF status = "Approved" THEN 1 ELSE 0
       /\ succeeded'[id][prop] <= dispatched'[id][prop]
  BY <1>1, <1>7, <1>11
<1>13. VotesDistinct'
  <2> SUFFICES ASSUME NEW i \in Chain, NEW p \in Proposal, Votes'[i][p] # None
               PROVE  Distinct(Votes'[i][p])
    BY DEF VotesDistinct
  <2>1. CASE i = id /\ p = prop
    BY <1>4, <1>8, <2>1
  <2>2. CASE i # id \/ p # prop
    BY <1>8, <2>2 DEF BridgeInv, VotesDistinct
  <2> QED
    BY <2>1, <2>2
<1>14. ExecutedOnce'
  <2> SUFFICES ASSUME NEW i \in Chain, NEW p \in Proposal
               PROVE  /\ dispatched'[i][p] = IF IsApproved(i, p)' THEN 1 ELSE 0
                      /\ succeeded'[i][p] <= dispatched'[i][p]
    BY DEF ExecutedOnce
  <2>1. CASE i = id /\ p = prop
    BY <1>6, <1>8, <1>9, <1>12, <2>1 DEF IsApproved
  <2>2. CASE i # id \/ p # prop
    <3>1. Votes'[i][p] = Votes[i][p]
      BY <1>8, <2>2
    <3>2. dispatched'[i][p] = dispatched[i][p] /\ succeeded'[i][p] = succeeded[i][p]
      BY <1>10, <2>2
    <3>3. /\ dispatched[i][p] = IF IsApproved(i, p) THEN 1 ELSE 0
          /\ succeeded[i][p] <= dispatched[i][p]
      BY DEF BridgeInv, ExecutedOnce
    <3> QED BY <3>1, <3>2, <3>3 DEF IsApproved
  <2> QED
    BY <2>1, <2>2
<1> QED
  BY <1>8, <1>10, <1>13, <1>14

-----------------------------------------------------------------------------
(* The invariant is inductive: one lemma for each kind of step *)

LEMMA InitEstablishesInv == Init => BridgeInv
<1> SUFFICES ASSUME Init PROVE BridgeInv
  OBVIOUS
<1> USE DEF Init
<1>1. << >> \in Seq([dest : Chain, nonce : 1..MaxNonce])
  OBVIOUS
<1>2. TypeOK
  BY <1>1, BridgeAssumption DEF TypeOK
<1>3. RelayersCounted
  BY FS_EmptySet DEF RelayersCounted, RelayerCountExact
<1>4. VotesDistinct
  BY DEF VotesDistinct
<1>5. ExecutedOnce
  BY DEF ExecutedOnce, IsApproved
<1> QED
  BY <1>2, <1>3, <1>4, <1>5 DEF BridgeInv

\* A step that leaves the proposals alone keeps their part of the invariant.
LEMMA ProposalsUntouched ==
    ASSUME VotesDistinct, ExecutedOnce, UNCHANGED proposalVars
    PROVE  VotesDistinct' /\ ExecutedOnce'
  BY DEF proposalVars, VotesDistinct, ExecutedOnce, IsApproved

\* A step that leaves the relayers alone keeps their count.
LEMMA RelayersUntouched ==
    ASSUME RelayersCounted, UNCHANGED <<Relayers, RelayerCount>>
    PROVE  RelayersCounted'
  BY DEF RelayersCounted, RelayerCountExact

LEMMA CommitteeKeepsInv ==
    ASSUME BridgeInv,
           \/ \E threshold \in Thresholds : set_threshold(threshold)
           \/ \E v \in Account : add_relayer(v) \/ remove_relayer(v)
           \/ \E id \in Chain : whitelist_chain(id)
    PROVE  BridgeInv'
<1> USE DEF BridgeInv
<1>1. ASSUME NEW threshold \in Thresholds, set_threshold(threshold) PROVE BridgeInv'
  <2>1. TypeOK'
    BY <1>1, BridgeAssumption DEF set_threshold, TypeOK, proposalVars, transferVars
  <2> QED
    BY <1>1, <2>1, ProposalsUntouched, RelayersUntouched DEF set_threshold
<1>2. ASSUME NEW v \in Account, add_relayer(v) PROVE BridgeInv'
  <2>1. RelayersCounted'
    BY <1>2, FS_AddElement DEF add_relayer, RelayersCounted, RelayerCountExact
  <2>2. TypeOK'
    BY <1>2 DEF add_relayer, TypeOK, proposalVars, transferVars
  <2> QED
    BY <1>2, <2>1, <2>2, ProposalsUntouched DEF add_relayer
<1>3. ASSUME NEW v \in Account, remove_relayer(v) PROVE BridgeInv'
  <2>1. RelayersCounted'
    BY <1>3, FS_RemoveElement DEF remove_relayer, RelayersCounted, RelayerCountExact
  <2>2. RelayerCount' \in Nat
    BY <2>1, FS_CardinalityType DEF RelayersCounted, RelayerCountExact
  <2>3. TypeOK'
    BY <1>3, <2>2 DEF remove_relayer, TypeOK, proposalVars, transferVars
  <2> QED
    BY <1>3, <2>1, <2>3, ProposalsUntouched DEF remove_relayer
<1>4. ASSUME NEW id \in Chain, whitelist_chain(id) PROVE BridgeInv'
  <2>1. TypeOK'
    BY <1>4, BridgeAssumption DEF whitelist_chain, TypeOK, proposalVars, adminVars
  <2>2. UNCHANGED <<Relayers, RelayerCount>> /\ UNCHANGED proposalVars
    BY <1>4 DEF whitelist_chain, adminVars
  <2> QED
    BY <2>1, <2>2, ProposalsUntouched, RelayersUntouched
<1> QED
  BY <1>1, <1>2, <1>3, <1>4

LEMMA TransferKeepsInv ==
    ASSUME BridgeInv, NEW id \in Chain, transfer(id)
    PROVE  BridgeInv'
<1>1. ChainNonces[id] \in 0..MaxNonce /\ ChainNonces[id] < MaxNonce
  BY DEF BridgeInv, TypeOK, transfer, chain_whitelisted
<1> DEFINE event == [dest |-> id, nonce |-> ChainNonces[id] + 1]
<1>2. event \in [dest : Chain, nonce : 1..MaxNonce]
  BY <1>1, BridgeAssumption
<1>3. BridgeEvents' = Append(BridgeEvents, event)
  BY DEF transfer
<1> HIDE DEF event
<1>4. BridgeEvents' \in Seq([dest : Chain, nonce : 1..MaxNonce])
  BY <1>2, <1>3 DEF BridgeInv, TypeOK
<1>5. ChainNonces' \in [Chain -> 0..MaxNonce \cup {None}]
  BY <1>1, BridgeAssumption DEF BridgeInv, TypeOK, transfer
<1>6. UNCHANGED adminVars /\ UNCHANGED proposalVars
  BY DEF transfer
<1>7. TypeOK'
  BY <1>4, <1>5, <1>6 DEF BridgeInv, TypeOK, adminVars, proposalVars
<1> QED
  BY <1>6, <1>7, ProposalsUntouched, RelayersUntouched DEF BridgeInv, adminVars

\* Every call that evaluates a proposal.
LEMMA EvaluationKeepsInv ==
    ASSUME BridgeInv, NEW id \in Chain, NEW prop \in Proposal, NEW works \in BOOLEAN,
           \/ \E who \in Account, in_favour \in BOOLEAN : vote(who, id, prop, in_favour, works)
           \/ eval_vote_state(id, prop, works)
    PROVE  BridgeInv'
<1>1. ASSUME NEW votes \in ProposalVotes, Distinct(votes), ~is_complete(votes),
             ~IsApproved(id, prop), try_resolve_proposal(id, prop, votes, works),
             UNCHANGED adminVars, UNCHANGED transferVars
      PROVE  BridgeInv'
  <2>1. /\ Votes' \in [Chain -> [Proposal -> ProposalVotes \cup {None}]]
        /\ dispatched' \in [Chain -> [Proposal -> Nat]]
        /\ succeeded' \in [Chain -> [Proposal -> Nat]]
        /\ VotesDistinct'
        /\ ExecutedOnce'
    BY <1>1, ResolveKeepsInv
  <2>2. TypeOK'
    BY <1>1, <2>1 DEF BridgeInv, TypeOK, adminVars, transferVars
  <2> QED
    BY <1>1, <2>1, <2>2, RelayersUntouched DEF BridgeInv, adminVars
<1>2. Votes[id][prop] \in ProposalVotes \cup {None}
  BY DEF BridgeInv, TypeOK
<1>3. ASSUME NEW who \in Account, NEW in_favour \in BOOLEAN,
             vote(who, id, prop, in_favour, works)
      PROVE  BridgeInv'
  <2>1. PICK old : old = IF Votes[id][prop] = None THEN NewVotes ELSE Votes[id][prop]
    OBVIOUS
  <2>2. old \in ProposalVotes /\ Distinct(old)
    BY <1>2, <2>1, NewVotesFit DEF BridgeInv, VotesDistinct
  <2>3. /\ may_vote(old, who)
        /\ try_resolve_proposal(id, prop, commit_vote(old, who, in_favour), works)
        /\ UNCHANGED adminVars
        /\ UNCHANGED transferVars
    BY <1>3, <2>1 DEF vote
  <2>4. ~is_complete(old)
    BY <2>3 DEF may_vote
  <2>5. /\ commit_vote(old, who, in_favour) \in ProposalVotes
        /\ Distinct(commit_vote(old, who, in_favour))
        /\ ~is_complete(commit_vote(old, who, in_favour))
    BY <2>2, <2>3, <2>4, CommitVoteFits DEF is_complete
  <2>6. ~IsApproved(id, prop)
    BY <2>1, <2>4 DEF IsApproved, is_complete
  <2> QED
    BY <1>1, <2>3, <2>5, <2>6
<1>4. ASSUME eval_vote_state(id, prop, works) PROVE BridgeInv'
  <2>1. PICK old : old = Votes[id][prop]
    OBVIOUS
  <2>2. /\ old \in ProposalVotes
        /\ Distinct(old)
        /\ ~is_complete(old)
    BY <1>2, <1>4, <2>1 DEF eval_vote_state, BridgeInv, VotesDistinct
  <2>3. /\ try_resolve_proposal(id, prop, old, works)
        /\ UNCHANGED adminVars
        /\ UNCHANGED transferVars
    BY <1>4, <2>1 DEF eval_vote_state
  <2>4. ~IsApproved(id, prop)
    BY <2>1, <2>2 DEF IsApproved, is_complete
  <2> QED
    BY <1>1, <2>2, <2>3, <2>4
<1> QED
  BY <1>3, <1>4

LEMMA NewBlockKeepsInv ==
    ASSUME BridgeInv, on_initialize
    PROVE  BridgeInv'
<1>1. ASSUME NEW id \in Chain, NEW prop \in Proposal
      PROVE  /\ Votes'[id][prop] \in ProposalVotes \cup {None}
             /\ Votes'[id][prop] = None <=> Votes[id][prop] = None
             /\ Votes[id][prop] # None =>
                  /\ Votes'[id][prop].votes_for = Votes[id][prop].votes_for
                  /\ Votes'[id][prop].votes_against = Votes[id][prop].votes_against
                  /\ Votes'[id][prop].status = Votes[id][prop].status
  <2>1. Votes[id][prop] \in ProposalVotes \cup {None}
    BY DEF BridgeInv, TypeOK
  <2>2. Votes'[id][prop] = Older(Votes[id][prop])
    BY DEF on_initialize
  <2>3. None \notin ProposalVotes
    BY BridgeAssumption DEF ProposalVotes
  <2>4. CASE Votes[id][prop] = None
    BY <2>2, <2>4 DEF Older
  <2>5. CASE Votes[id][prop] \in ProposalVotes
    <3>1. Older(Votes[id][prop]) \in ProposalVotes
      BY <2>5, BridgeAssumption DEF Older, ProposalVotes
    <3> QED
      BY <2>2, <2>3, <2>5, <3>1 DEF Older
  <2> QED
    BY <2>1, <2>4, <2>5
<1>2. Votes' \in [Chain -> [Proposal -> ProposalVotes \cup {None}]]
  BY <1>1 DEF on_initialize
<1>3. << >> \in Seq([dest : Chain, nonce : 1..MaxNonce])
  OBVIOUS
<1>4. TypeOK'
  BY <1>2, <1>3 DEF on_initialize, BridgeInv, TypeOK, adminVars
<1>5. VotesDistinct'
  <2> SUFFICES ASSUME NEW id \in Chain, NEW prop \in Proposal, Votes'[id][prop] # None
               PROVE  Distinct(Votes'[id][prop])
    BY DEF VotesDistinct
  <2>1. Distinct(Votes[id][prop])
    BY <1>1 DEF BridgeInv, VotesDistinct
  <2> QED
    BY <1>1, <2>1 DEF Distinct
<1>6. ExecutedOnce'
  BY <1>1 DEF on_initialize, BridgeInv, ExecutedOnce, IsApproved
<1> QED
  BY <1>4, <1>5, <1>6, RelayersUntouched DEF on_initialize, BridgeInv, adminVars

LEMMA NextKeepsInv == BridgeInv /\ [Next]_vars => BridgeInv'
<1> SUFFICES ASSUME BridgeInv, [Next]_vars PROVE BridgeInv'
  OBVIOUS
<1>1. CASE UNCHANGED vars
  <2>1. UNCHANGED proposalVars /\ UNCHANGED <<Relayers, RelayerCount>>
    BY <1>1 DEF vars, adminVars
  <2>2. TypeOK'
    BY <1>1 DEF vars, adminVars, proposalVars, transferVars, BridgeInv, TypeOK
  <2> QED
    BY <2>1, <2>2, ProposalsUntouched, RelayersUntouched DEF BridgeInv
<1>2. CASE Next
  BY <1>2, CommitteeKeepsInv, TransferKeepsInv, EvaluationKeepsInv, NewBlockKeepsInv DEF Next
<1> QED
  BY <1>1, <1>2

-----------------------------------------------------------------------------
(* The theorems *)

\* The inductive invariant holds in every reachable state of the bridge.
THEOREM BridgeInvariant == Spec => []BridgeInv
  BY InitEstablishesInv, NextKeepsInv, PTL DEF Spec

\* Every storage item always has its declared shape; RelayerCount in particular never wraps.
THEOREM BridgeTypeCorrect == Spec => []TypeOK
<1>1. BridgeInv => TypeOK
  BY DEF BridgeInv
<1> QED
  BY <1>1, BridgeInvariant, PTL

\* The relayer count is always the number of relayers.
THEOREM RelayersAreCounted == Spec => []RelayerCountExact
<1>1. BridgeInv => RelayerCountExact
  BY DEF BridgeInv, RelayersCounted
<1> QED
  BY <1>1, BridgeInvariant, PTL

\* Only votes of different accounts count, each on one side.
THEOREM VotersAreDistinct == Spec => []VotesDistinct
<1>1. BridgeInv => VotesDistinct
  BY DEF BridgeInv
<1> QED
  BY <1>1, BridgeInvariant, PTL

\* A proposal is executed once if it is approved and never if it is not, however the votes,
\* the evaluations and the committee's changes interleave.
THEOREM ProposalsExecuteOnce == Spec => []ExecutedOnce
<1>1. BridgeInv => ExecutedOnce
  BY DEF BridgeInv
<1> QED
  BY <1>1, BridgeInvariant, PTL

\* A decision is final: nothing that a relayer, the committee or anybody else does changes
\* the votes or the status of a complete proposal, or executes it again.
THEOREM DecisionsAreFinal == Spec => DecisionIsFinal
<1> DEFINE Final ==
      \A id \in Chain, prop \in Proposal :
          Votes[id][prop] # None /\ is_complete(Votes[id][prop]) =>
              /\ Votes'[id][prop].votes_for = Votes[id][prop].votes_for
              /\ Votes'[id][prop].votes_against = Votes[id][prop].votes_against
              /\ Votes'[id][prop].status = Votes[id][prop].status
              /\ dispatched'[id][prop] = dispatched[id][prop]
<1>1. TypeOK /\ [Next]_vars => [Final]_vars
  <2> SUFFICES ASSUME TypeOK, Next,
                      NEW id \in Chain, NEW prop \in Proposal,
                      Votes[id][prop] # None, is_complete(Votes[id][prop])
               PROVE  /\ Votes'[id][prop].votes_for = Votes[id][prop].votes_for
                      /\ Votes'[id][prop].votes_against = Votes[id][prop].votes_against
                      /\ Votes'[id][prop].status = Votes[id][prop].status
                      /\ dispatched'[id][prop] = dispatched[id][prop]
    OBVIOUS
  <2>1. CASE UNCHANGED proposalVars
    BY <2>1 DEF proposalVars
  <2>2. ASSUME NEW c \in Chain, NEW p \in Proposal, NEW votes, NEW works \in BOOLEAN,
               try_resolve_proposal(c, p, votes, works), c # id \/ p # prop
        PROVE  Votes'[id][prop] = Votes[id][prop] /\ dispatched'[id][prop] = dispatched[id][prop]
    BY <2>2 DEF TypeOK, try_resolve_proposal
  <2>3. ASSUME NEW c \in Chain, NEW p \in Proposal, NEW works \in BOOLEAN,
               NEW who \in Account, NEW in_favour \in BOOLEAN,
               vote(who, c, p, in_favour, works)
        PROVE  Votes'[id][prop] = Votes[id][prop] /\ dispatched'[id][prop] = dispatched[id][prop]
    <3>1. PICK old : old = IF Votes[c][p] = None THEN NewVotes ELSE Votes[c][p]
      OBVIOUS
    <3>2. /\ may_vote(old, who)
          /\ try_resolve_proposal(c, p, commit_vote(old, who, in_favour), works)
      BY <2>3, <3>1 DEF vote
    <3>3. c # id \/ p # prop
      BY <3>1, <3>2 DEF may_vote
    <3> QED
      BY <2>2, <3>2, <3>3
  <2>4. ASSUME NEW c \in Chain, NEW p \in Proposal, NEW works \in BOOLEAN,
               eval_vote_state(c, p, works)
        PROVE  Votes'[id][prop] = Votes[id][prop] /\ dispatched'[id][prop] = dispatched[id][prop]
    <3>1. PICK old : old = Votes[c][p]
      OBVIOUS
    <3>2. c # id \/ p # prop
      BY <2>4 DEF eval_vote_state
    <3> QED
      BY <2>2, <2>4, <3>1, <3>2 DEF eval_vote_state
  <2>5. CASE on_initialize
    BY <2>5 DEF on_initialize, Older
  <2>6. ASSUME NEW c \in Chain, transfer(c) PROVE UNCHANGED proposalVars
    BY <2>6 DEF transfer
  <2>7. ASSUME NEW c \in Chain, whitelist_chain(c) PROVE UNCHANGED proposalVars
    BY <2>7 DEF whitelist_chain
  <2>8. ASSUME NEW t \in Thresholds, set_threshold(t) PROVE UNCHANGED proposalVars
    BY <2>8 DEF set_threshold
  <2>9. ASSUME NEW v \in Account, add_relayer(v) \/ remove_relayer(v)
        PROVE  UNCHANGED proposalVars
    BY <2>9 DEF add_relayer, remove_relayer
  <2> QED
    BY <2>1, <2>3, <2>4, <2>5, <2>6, <2>7, <2>8, <2>9 DEF Next
<1> QED
  BY <1>1, BridgeTypeCorrect, PTL DEF Spec, DecisionIsFinal

\* Every vote is followed by the decision it makes possible: only a change of the threshold
\* or of the number of relayers leaves a proposal undecided that could be decided.
THEOREM NoDecisionIsMissed == Spec => NoDecisionMissed
<1> DEFINE Prompt ==
      \A id \in Chain, prop \in Proposal :
          ~Undecided(id, prop) /\ Undecided(id, prop)' =>
              RelayerThreshold' # RelayerThreshold \/ RelayerCount' # RelayerCount
<1>1. TypeOK /\ [Next]_vars => [Prompt]_vars
  <2> SUFFICES ASSUME TypeOK, Next, NEW id \in Chain, NEW prop \in Proposal,
                      ~Undecided(id, prop),
                      RelayerThreshold' = RelayerThreshold, RelayerCount' = RelayerCount
               PROVE  ~Undecided(id, prop)'
    OBVIOUS
  <2>1. ASSUME Votes'[id][prop] = Votes[id][prop] PROVE ~Undecided(id, prop)'
    BY <2>1 DEF Undecided, is_complete, is_expired, approves, rejects
  <2>2. ASSUME NEW c \in Chain, NEW p \in Proposal, NEW votes, NEW works \in BOOLEAN,
               try_resolve_proposal(c, p, votes, works)
        PROVE  ~Undecided(id, prop)'
    <3>1. CASE c # id \/ p # prop
      <4>1. Votes'[id][prop] = Votes[id][prop]
        BY <2>2, <3>1 DEF TypeOK, try_resolve_proposal
      <4> QED
        BY <4>1, <2>1
    <3>2. CASE c = id /\ p = prop
      <4>1. Votes'[id][prop] =
              [votes_for |-> votes.votes_for, votes_against |-> votes.votes_against,
               status |-> try_to_complete(votes), left |-> votes.left]
        BY <2>2, <3>2 DEF TypeOK, try_resolve_proposal
      <4>2. CASE approves(votes) \/ rejects(votes)
        BY <4>1, <4>2 DEF try_to_complete, Undecided, is_complete
      <4>3. CASE ~approves(votes) /\ ~rejects(votes)
        BY <4>1, <4>3 DEF Undecided, approves, rejects
      <4> QED
        BY <4>2, <4>3
    <3> QED
      BY <3>1, <3>2
  <2>3. ASSUME NEW c \in Chain, NEW p \in Proposal, NEW works \in BOOLEAN,
               NEW who \in Account, NEW in_favour \in BOOLEAN,
               vote(who, c, p, in_favour, works)
        PROVE  ~Undecided(id, prop)'
    <3>1. PICK old : old = IF Votes[c][p] = None THEN NewVotes ELSE Votes[c][p]
      OBVIOUS
    <3>2. try_resolve_proposal(c, p, commit_vote(old, who, in_favour), works)
      BY <2>3, <3>1 DEF vote
    <3> QED
      BY <2>2, <3>2
  <2>4. ASSUME NEW c \in Chain, NEW p \in Proposal, NEW works \in BOOLEAN,
               eval_vote_state(c, p, works)
        PROVE  ~Undecided(id, prop)'
    <3>1. PICK old : old = Votes[c][p]
      OBVIOUS
    <3>2. try_resolve_proposal(c, p, old, works)
      BY <2>4, <3>1 DEF eval_vote_state
    <3> QED
      BY <2>2, <3>2
  <2>5. CASE on_initialize
    <3>1. Votes[id][prop] \in ProposalVotes \cup {None}
      BY DEF TypeOK
    <3>2. Votes'[id][prop] = Older(Votes[id][prop])
      BY <2>5 DEF on_initialize
    <3>3. CASE Votes[id][prop] = None \/ Votes[id][prop].left = 0
      BY <2>1, <3>2, <3>3 DEF Older
    <3>4. CASE Votes[id][prop] # None /\ Votes[id][prop].left # 0
      <4>1. /\ Votes'[id][prop].votes_for = Votes[id][prop].votes_for
            /\ Votes'[id][prop].votes_against = Votes[id][prop].votes_against
            /\ Votes'[id][prop].status = Votes[id][prop].status
        BY <3>2, <3>4 DEF Older
      <4> QED
        BY <3>4, <4>1 DEF Undecided, is_complete, is_expired, approves, rejects
    <3> QED
      BY <3>3, <3>4
  <2>6. ASSUME NEW c \in Chain, transfer(c) \/ whitelist_chain(c)
        PROVE  Votes'[id][prop] = Votes[id][prop]
    BY <2>6 DEF transfer, whitelist_chain, proposalVars
  <2>7. ASSUME NEW t \in Thresholds, set_threshold(t) PROVE Votes'[id][prop] = Votes[id][prop]
    BY <2>7 DEF set_threshold, proposalVars
  <2>8. ASSUME NEW v \in Account, add_relayer(v) \/ remove_relayer(v)
        PROVE  Votes'[id][prop] = Votes[id][prop]
    BY <2>8 DEF add_relayer, remove_relayer, proposalVars
  <2> QED
    BY <2>1, <2>3, <2>4, <2>5, <2>6, <2>7, <2>8 DEF Next
<1> QED
  BY <1>1, BridgeTypeCorrect, PTL DEF Spec, NoDecisionMissed

-----------------------------------------------------------------------------
(* Deposit nonces *)

\* Every event of the block has a destination and a nonce.
LEMMA EventTypes ==
    ASSUME TypeOK
    PROVE  \A i \in DOMAIN BridgeEvents :
              BridgeEvents[i].dest \in Chain /\ BridgeEvents[i].nonce \in Nat
<1>1. ASSUME NEW S, NEW s \in Seq(S), NEW i \in DOMAIN s PROVE s[i] \in S
  BY <1>1
<1>2. BridgeEvents \in Seq([dest : Chain, nonce : 1..MaxNonce])
  BY DEF TypeOK
<1>3. \A i \in DOMAIN BridgeEvents : BridgeEvents[i] \in [dest : Chain, nonce : 1..MaxNonce]
  BY <1>1, <1>2
<1>4. 1..MaxNonce \subseteq Nat
  BY BridgeAssumption
<1> QED BY <1>3, <1>4

\* The later events of a destination are finitely many.
LEMMA LaterFinite ==
    ASSUME TypeOK
    PROVE  \A i \in DOMAIN BridgeEvents : IsFiniteSet(Later(i)) /\ Cardinality(Later(i)) \in Nat
<1> SUFFICES ASSUME NEW i \in DOMAIN BridgeEvents
             PROVE  IsFiniteSet(Later(i)) /\ Cardinality(Later(i)) \in Nat
  OBVIOUS
<1>1. Len(BridgeEvents) \in Nat /\ DOMAIN BridgeEvents = 1..Len(BridgeEvents)
  BY DEF TypeOK
<1>2. IsFiniteSet(1..Len(BridgeEvents))
  BY <1>1, FS_Interval
<1>3. Later(i) \subseteq 1..Len(BridgeEvents)
  BY <1>1 DEF Later
<1> QED
  BY <1>2, <1>3, FS_Subset, FS_CardinalityType

\* A transfer adds its event after those of the block, with the next nonce.
LEMMA TransferKeepsNonces ==
    ASSUME TypeOK, NoncesConsecutive, NEW id \in Chain, transfer(id)
    PROVE  NoncesConsecutive'
<1> DEFINE n == Len(BridgeEvents)
           last == [dest |-> id, nonce |-> ChainNonces[id] + 1]
<1>1. /\ ChainNonces[id] \in Nat
      /\ ChainNonces' = [ChainNonces EXCEPT ![id] = ChainNonces[id] + 1]
      /\ DOMAIN ChainNonces = Chain
      /\ BridgeEvents' = Append(BridgeEvents, last)
  BY DEF transfer, chain_whitelisted, TypeOK
<1>2. /\ BridgeEvents \in Seq([dest : Chain, nonce : 1..MaxNonce])
      /\ n \in Nat /\ DOMAIN BridgeEvents = 1..n
  BY DEF TypeOK
<1>3. /\ DOMAIN BridgeEvents' = 1..(n + 1)
      /\ BridgeEvents'[n + 1] = last
      /\ \A i \in 1..n : BridgeEvents'[i] = BridgeEvents[i]
  <2> HIDE DEF last
  <2> QED BY <1>1, <1>2
<1>4. \A i \in 1..n : BridgeEvents[i].dest \in Chain /\ BridgeEvents[i].nonce \in Nat
  BY <1>2, EventTypes
<1>5. last.dest = id /\ last.nonce = ChainNonces[id] + 1
  OBVIOUS
<1> HIDE DEF n, last
<1> SUFFICES ASSUME NEW i \in 1..(n + 1)
             PROVE  BridgeEvents'[i].nonce + Cardinality(Later(i)')
                      = ChainNonces'[BridgeEvents'[i].dest]
  BY <1>3 DEF NoncesConsecutive
<1>6. CASE i = n + 1
  <2>1. Later(i)' = {}
    BY <1>2, <1>3, <1>6 DEF Later
  <2>2. Cardinality(Later(i)') = 0
    BY <2>1, FS_EmptySet
  <2>3. BridgeEvents'[i].nonce = ChainNonces[id] + 1 /\ BridgeEvents'[i].dest = id
    BY <1>3, <1>5, <1>6
  <2>4. ChainNonces'[id] = ChainNonces[id] + 1
    BY <1>1
  <2> QED BY <1>1, <2>2, <2>3, <2>4
<1>7. CASE i # n + 1
  <2>1. i \in 1..n /\ BridgeEvents'[i] = BridgeEvents[i]
    BY <1>2, <1>3, <1>7
  <2>2. /\ BridgeEvents[i].nonce + Cardinality(Later(i)) = ChainNonces[BridgeEvents[i].dest]
        /\ IsFiniteSet(Later(i)) /\ Cardinality(Later(i)) \in Nat
    BY <1>2, <2>1, LaterFinite DEF NoncesConsecutive
  <2>3. CASE BridgeEvents[i].dest = id
    <3>1. Later(i)' = Later(i) \cup {n + 1} /\ n + 1 \notin Later(i)
      BY <1>2, <1>3, <1>5, <2>1, <2>3 DEF Later
    <3>2. Cardinality(Later(i)') = Cardinality(Later(i)) + 1
      BY <2>2, <3>1, FS_AddElement
    <3>3. ChainNonces'[BridgeEvents'[i].dest] = ChainNonces[id] + 1
      BY <1>1, <2>1, <2>3
    <3>4. BridgeEvents[i].nonce \in Nat
      BY <1>4, <2>1
    <3> QED BY <2>1, <2>2, <2>3, <3>2, <3>3, <3>4
  <2>4. CASE BridgeEvents[i].dest # id
    <3>1. Later(i)' = Later(i)
      BY <1>2, <1>3, <1>5, <2>1, <2>4 DEF Later
    <3>2. ChainNonces'[BridgeEvents'[i].dest] = ChainNonces[BridgeEvents[i].dest]
      BY <1>1, <1>4, <2>1, <2>4
    <3> QED BY <2>1, <2>2, <3>1, <3>2
  <2> QED BY <2>3, <2>4
<1> QED BY <1>6, <1>7

\* A chain that is whitelisted has no event: it had no nonce.
LEMMA WhitelistKeepsNonces ==
    ASSUME TypeOK, NoncesConsecutive, NEW id \in Chain, whitelist_chain(id)
    PROVE  NoncesConsecutive'
<1>1. /\ ChainNonces[id] = None /\ DOMAIN ChainNonces = Chain
      /\ ChainNonces' = [ChainNonces EXCEPT ![id] = 0] /\ BridgeEvents' = BridgeEvents
  BY DEF whitelist_chain, chain_whitelisted, TypeOK
<1> SUFFICES ASSUME NEW i \in DOMAIN BridgeEvents
             PROVE  BridgeEvents[i].nonce + Cardinality(Later(i))
                      = ChainNonces'[BridgeEvents[i].dest]
  BY <1>1 DEF NoncesConsecutive, Later
<1>2. BridgeEvents[i].nonce + Cardinality(Later(i)) = ChainNonces[BridgeEvents[i].dest]
  BY DEF NoncesConsecutive
<1>3. BridgeEvents[i].dest \in Chain /\ BridgeEvents[i].nonce \in Nat
  BY EventTypes
<1>4. BridgeEvents[i].nonce + Cardinality(Later(i)) \in Nat
  BY <1>3, LaterFinite
<1>5. BridgeEvents[i].dest # id
  BY <1>1, <1>2, <1>4, BridgeAssumption
<1> QED BY <1>1, <1>2, <1>3, <1>5

LEMMA NextKeepsNonces == TypeOK /\ NoncesConsecutive /\ [Next]_vars => NoncesConsecutive'
<1> SUFFICES ASSUME TypeOK, NoncesConsecutive, [Next]_vars PROVE NoncesConsecutive'
  OBVIOUS
<1>1. CASE UNCHANGED transferVars
  BY <1>1 DEF transferVars, NoncesConsecutive, Later
<1>2. CASE \E id \in Chain : whitelist_chain(id)
  BY <1>2, WhitelistKeepsNonces
<1>3. CASE \E id \in Chain : transfer(id)
  BY <1>3, TransferKeepsNonces
<1>4. CASE on_initialize
  BY <1>4 DEF on_initialize, NoncesConsecutive
<1>5. CASE UNCHANGED vars
  BY <1>1, <1>5 DEF vars
<1>6. CASE Next
  BY <1>1, <1>2, <1>3, <1>4, <1>6
     DEF Next, set_threshold, add_relayer, remove_relayer, vote, eval_vote_state
<1> QED BY <1>5, <1>6

\* A relayer that reads each block's transfers from BridgeEvents sees, for each destination, the
\* nonces without a gap and without a repetition, up to the stored nonce: however transfers to
\* several chains, new chains and blocks interleave.
THEOREM NoncesAreConsecutive == Spec => []NoncesConsecutive
<1>1. Init => NoncesConsecutive
  BY DEF Init, NoncesConsecutive
<1> QED
  BY <1>1, NextKeepsNonces, BridgeTypeCorrect, PTL DEF Spec
=============================================================================
