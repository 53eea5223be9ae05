------------------------------ MODULE Registry ------------------------------
(***************************************************************************)
(* The registry pallet (pallets/phala/src/registry.rs): which workers are  *)
(* known and how they scored, and how the gatekeepers come to one master   *)
(* key.  Governance keeps the allow lists and names the gatekeepers, the   *)
(* workers report through the message queue, anybody hands in a worker's   *)
(* attestation.                                                            *)
(*                                                                         *)
(* An attestation is taken to be genuine, fresh and about the registered   *)
(* key (utils/attestation.rs checks signatures, age and the hash of what   *)
(* is registered); what it says of the enclave's program and of the relay  *)
(* chain is compared with the allow lists.  The operator of a worker is    *)
(* left out: it decides only who may call, and callers are left open.      *)
(***************************************************************************)
EXTENDS Integers

CONSTANTS Worker,
          Key,        \* keys a worker may report as the master key
          PRuntime,   \* digests of worker programs
          Genesis,    \* hashes of relay chain genesis blocks
          Iterations, \* iterations a benchmark may count
          Second,     \* ticks of the clock in a second
          MAX_SCORE,
          None        \* an absent storage entry

VARIABLES Workers, Gatekeeper, GatekeeperMasterPubkey,
          PRuntimeAllowList, GenesisAllowList,
          \* What the messages of the launch have told the workers: the first gatekeeper, those
          \* that joined, the master key; and, as history, who reported the key.
          announced

registryVars == <<Workers, Gatekeeper, GatekeeperMasterPubkey,
                  PRuntimeAllowList, GenesisAllowList, announced>>

WorkerInfo == [initial_score : (0..MAX_SCORE) \cup {None}]

Unscored == [initial_score |-> None]

\* A chain without genesis workers and gatekeepers.  (genesis_build, for tests, may register
\* several gatekeepers before there is a master key; such a chain is left out.)
Init ==
    /\ Workers = [w \in Worker |-> None]
    /\ Gatekeeper = {}
    /\ GatekeeperMasterPubkey = None
    /\ PRuntimeAllowList = {}
    /\ GenesisAllowList = {}
    /\ announced = [first |-> None, joined |-> {}, key |-> None, author |-> None]

-----------------------------------------------------------------------------
\* Root may register a worker again; its score is gone then.
force_register_worker(w) ==
    /\ Workers' = [Workers EXCEPT ![w] = Unscored]
    /\ UNCHANGED <<Gatekeeper, GatekeeperMasterPubkey, PRuntimeAllowList, GenesisAllowList,
                   announced>>

\* A worker that registers again keeps its score until the benchmark is done again.
register_worker(w, pruntime, genesis) ==
    /\ pruntime \in PRuntimeAllowList
    /\ genesis \in GenesisAllowList
    /\ Workers' = [Workers EXCEPT ![w] = IF @ = None THEN Unscored ELSE @]
    /\ UNCHANGED <<Gatekeeper, GatekeeperMasterPubkey, PRuntimeAllowList, GenesisAllowList,
                   announced>>

\* Mutant of register_gatekeeper: the master key is not waited for.
register_gatekeeper_Unready(w) ==
    /\ w \notin Gatekeeper
    /\ Workers[w] # None
    /\ Gatekeeper' = Gatekeeper \cup {w}
    /\ announced' = [first |-> IF Gatekeeper = {} THEN w ELSE announced.first,
                     joined |-> announced.joined \cup (IF Gatekeeper = {} THEN {} ELSE {w}),
                     key |-> announced.key, author |-> announced.author]
    /\ UNCHANGED <<Workers, GatekeeperMasterPubkey, PRuntimeAllowList, GenesisAllowList>>

\* The first gatekeeper makes the master key; the others wait until it is on the chain.  (To
\* register a gatekeeper again does nothing.)
register_gatekeeper(w) ==
    /\ Gatekeeper = {} \/ GatekeeperMasterPubkey # None
    /\ w \notin Gatekeeper
    /\ Workers[w] # None
    /\ Gatekeeper' = Gatekeeper \cup {w}
    /\ announced' = [first |-> IF Gatekeeper = {} THEN w ELSE announced.first,
                     joined |-> announced.joined \cup (IF Gatekeeper = {} THEN {} ELSE {w}),
                     key |-> announced.key, author |-> announced.author]
    /\ UNCHANGED <<Workers, GatekeeperMasterPubkey, PRuntimeAllowList, GenesisAllowList>>

\* add_pruntime, remove_pruntime, and the same for the genesis hashes.
AllowLists(pruntimes, genesis) ==
    /\ PRuntimeAllowList' = pruntimes
    /\ GenesisAllowList' = genesis
    /\ UNCHANGED <<Workers, Gatekeeper, GatekeeperMasterPubkey, announced>>

add_pruntime(p) ==
    /\ p \notin PRuntimeAllowList
    /\ AllowLists(PRuntimeAllowList \cup {p}, GenesisAllowList)

remove_pruntime(p) ==
    /\ p \in PRuntimeAllowList
    /\ AllowLists(PRuntimeAllowList \ {p}, GenesisAllowList)

add_relaychain_genesis_block_hash(g) ==
    /\ g \notin GenesisAllowList
    /\ AllowLists(PRuntimeAllowList, GenesisAllowList \cup {g})

remove_relaychain_genesis_block_hash(g) ==
    /\ g \in GenesisAllowList
    /\ AllowLists(PRuntimeAllowList, GenesisAllowList \ {g})

\* Iterations per six seconds, capped.  "elapsed" is the time since the start of the
\* benchmark in ticks; less than a second of it divides by zero.
score(iterations, elapsed) ==
    LET s == (iterations \div (elapsed \div Second)) * 6
    IN  IF s < MAX_SCORE THEN s ELSE MAX_SCORE

\* on_message_received of a worker's BenchReport.
BenchReport(w, iterations, elapsed) ==
    /\ elapsed > 0
    /\ Workers' = [Workers EXCEPT ![w] =
          IF @ = None THEN @ ELSE [initial_score |-> score(iterations, elapsed)]]
    /\ UNCHANGED <<Gatekeeper, GatekeeperMasterPubkey, PRuntimeAllowList, GenesisAllowList,
                   announced>>

\* on_message_received of a worker's MasterPubkey: a gatekeeper's first report is stored and
\* announced, later ones change nothing (and fail if they differ).
MasterPubkey(w, key) ==
    /\ w \in Gatekeeper
    /\ GatekeeperMasterPubkey = None
    /\ GatekeeperMasterPubkey' = key
    /\ announced' = [first |-> announced.first, joined |-> announced.joined,
                     key |-> key, author |-> w]
    /\ UNCHANGED <<Workers, Gatekeeper, PRuntimeAllowList, GenesisAllowList>>

\* Everything but the benchmark reports, whose age is a matter of the clock.
Calls ==
    \/ \E w \in Worker :
          \/ force_register_worker(w)
          \/ \E p \in PRuntime, g \in Genesis : register_worker(w, p, g)
          \/ register_gatekeeper(w)
          \/ \E key \in Key : MasterPubkey(w, key)
    \/ \E p \in PRuntime : add_pruntime(p) \/ remove_pruntime(p)
    \/ \E g \in Genesis : add_relaychain_genesis_block_hash(g)
                             \/ remove_relaychain_genesis_block_hash(g)

Next ==
    \/ Calls
    \/ \E w \in Worker, iterations \in Iterations, elapsed \in Nat :
          elapsed >= Second /\ BenchReport(w, iterations, elapsed)

Spec == Init /\ [][Next]_registryVars

-----------------------------------------------------------------------------
(* Properties *)

TypeOK ==
    /\ Workers \in [Worker -> WorkerInfo \cup {None}]
    /\ Gatekeeper \subseteq Worker
    /\ GatekeeperMasterPubkey \in Key \cup {None}
    /\ PRuntimeAllowList \subseteq PRuntime
    /\ GenesisAllowList \subseteq Genesis
    /\ announced \in [first : Worker \cup {None}, joined : SUBSET Worker,
                      key : Key \cup {None}, author : Worker \cup {None}]

\* There is one master key, made by the first gatekeeper: whatever the order of
\* registrations and reports, the workers are told of exactly the registered gatekeepers, of
\* the key that is stored, which the first gatekeeper reported, and of nobody joining before
\* that key ("wait for the lead gatekeeper to upload the master pubkey").
OneMasterKey ==
    /\ announced.first = None => Gatekeeper = {} /\ announced.joined = {}
    /\ announced.first # None => /\ Gatekeeper = announced.joined \cup {announced.first}
                                /\ announced.first \notin announced.joined
    /\ announced.key = GatekeeperMasterPubkey
    /\ announced.joined # {} => announced.key # None
    /\ announced.key # None => announced.author = announced.first /\ announced.first # None
=============================================================================
