---------------------------- MODULE MessageQueue ----------------------------
(***************************************************************************)
(* The way of a message from the chain to the workers and back             *)
(* (crates/phala-mq, pallets/phala/src/mq.rs and mq/check_seq.rs).         *)
(*                                                                         *)
(* Pallets and users push messages, which a block hands to the workers.    *)
(* Every worker dispatches the blocks in order, takes the messages from    *)
(* its subscriptions with select! and answers each of them.  The answers   *)
(* are numbered per sender, kept until the chain has them, relayed to the  *)
(* transaction pool by anybody, and accepted when their number is next.    *)
(* All gatekeepers share one sender.  A worker may restart from an older   *)
(* checkpoint, the pool may lose transactions, and any message may be      *)
(* relayed again.                                                          *)
(***************************************************************************)
EXTENDS Naturals, Sequences, FiniteSets, SequencesExt

CONSTANTS Replica,     \* workers; all of them are gatekeepers
          Gatekeeper,  \* the sender the gatekeepers share
          Pushed,      \* topics that users and pallets push messages to
          Queued,      \* topics that pallets queue messages for
          OnChain,     \* topics that begin with '^'
          Subscribed,  \* topics the workers have subscribed to
          Shared,      \* topics whose messages are answered by the gatekeeper
          Addressed,   \* workers that the messages of the other topics are about
          Report,      \* topic of the workers' answers, for the gatekeepers
          Update,      \* topic of the gatekeepers' answers, for the pallets
          MayDummy,    \* workers whose gatekeeper channel may be in dummy mode
          MayRestart,  \* workers that take checkpoints and restart from them
          MaxInputs,   \* bound on the messages pushed
          MaxBlocks,   \* bound on the blocks
          MaxFaults    \* bound on restarts and lost transactions together

ASSUME MessageQueueAssumption ==
    /\ Gatekeeper \notin Replica
    /\ Shared \subseteq Subscribed
    /\ Subscribed \cap OnChain = {}
    /\ Addressed \subseteq Replica
    /\ Report \in Shared
    /\ Update \in OnChain
    /\ MayDummy \subseteq Replica
    /\ MayRestart \subseteq Replica
    /\ MaxInputs \in Nat
    /\ MaxBlocks \in Nat
    /\ MaxFaults \in Nat

VARIABLES OutboundMessages,       \* messages of this block for the workers
          QueuedOutboundMessage,  \* messages for the next block
          blocks,                 \* OutboundMessages of the finished blocks
          inputs,                 \* number of messages pushed
          OffchainIngress,        \* next expected sequence of each sender
          MasterPubkey,           \* GatekeeperMasterPubkey is there
          handled,                \* payloads given to the handlers, for each sender
          pool,                   \* transactions in the pool
          synced,                 \* blocks a worker has dispatched
          channel,                \* its send queue
          saved,                  \* its last checkpoint
          faults

chainVars  == <<OutboundMessages, QueuedOutboundMessage, blocks, inputs>>
ingressVars == <<OffchainIngress, MasterPubkey, handled>>
workerVars == <<synced, channel>>
vars == <<chainVars, ingressVars, pool, workerVars, saved, faults>>

Sender == Replica \cup {Gatekeeper}

Seqno == 0..(MaxInputs * Cardinality(Replica))

Message == [topic : Pushed \cup Queued \cup {Report}, payload : 1..MaxInputs]

SignedMessage == [sender : Sender, sequence : Nat, payload : 1..MaxInputs]

-----------------------------------------------------------------------------
(* The pallet *)

is_offchain(topic) == topic \notin OnChain

\* dispatch_message: what the workers are told.  The pallets' handlers are notified as well.
dispatch_message(out, message) ==
    IF is_offchain(message.topic) THEN Append(out, message) ELSE out

NewMessage(topic) == [topic |-> topic, payload |-> inputs + 1]

push_message(topic) ==
    /\ inputs < MaxInputs
    /\ inputs' = inputs + 1
    /\ OutboundMessages' = dispatch_message(OutboundMessages, NewMessage(topic))
    /\ UNCHANGED <<QueuedOutboundMessage, blocks, ingressVars, pool, workerVars, saved, faults>>

queue_bound_message(topic) ==
    /\ inputs < MaxInputs
    /\ inputs' = inputs + 1
    /\ QueuedOutboundMessage' = Append(QueuedOutboundMessage, NewMessage(topic))
    /\ UNCHANGED <<OutboundMessages, blocks, ingressVars, pool, workerVars, saved, faults>>

\* What the workers are told of the first n queued messages.
queued_messages ==
    LET out[n \in 0..Len(QueuedOutboundMessage)] ==
            IF n = 0 THEN <<>> ELSE dispatch_message(out[n - 1], QueuedOutboundMessage[n])
    IN  out

\* A block is finished; the next one begins with the queued messages.
on_initialize ==
    /\ Len(blocks) < MaxBlocks
    /\ blocks' = Append(blocks, OutboundMessages)
    /\ OutboundMessages' = queued_messages[Len(QueuedOutboundMessage)]
    /\ QueuedOutboundMessage' = <<>>
    /\ UNCHANGED <<inputs, ingressVars, pool, workerVars, saved, faults>>

\* The registry's handler stores the key of the gatekeepers, for good.
StoreMasterPubkey ==
    /\ ~MasterPubkey
    /\ MasterPubkey' = TRUE
    /\ UNCHANGED <<chainVars, OffchainIngress, handled, pool, workerVars, saved, faults>>

\* check_message: the key that the signature is verified with.
check_message(m) == m.sender = Gatekeeper => MasterPubkey

pre_dispatch(m) == m.sequence = OffchainIngress[m.sender]

Destination(s) == IF s = Gatekeeper THEN Update ELSE Report

\* A transaction of the pool is executed.  It may fail on the signature; it is used up then.  (Only
\* messages of workers are relayed, with a sender and a destination that pass the first two checks
\* and, once the key is there, a valid signature.)  The number is advanced and the message given to
\* the handlers and the workers in one step: what a handler returns is dropped, so that a message
\* whose handler fails counts as handled, too.
sync_offchain_message(m) ==
    /\ m \in pool
    /\ pre_dispatch(m)
    /\ pool' = pool \ {m}
    /\ IF check_message(m)
       THEN /\ OffchainIngress' = [OffchainIngress EXCEPT ![m.sender] = @ + 1]
            /\ handled' = [handled EXCEPT ![m.sender] = Append(@, m.payload)]
            /\ OutboundMessages' = dispatch_message(OutboundMessages,
                  [topic |-> Destination(m.sender), payload |-> m.payload])
       ELSE UNCHANGED <<OffchainIngress, handled, OutboundMessages>>
    /\ UNCHANGED <<QueuedOutboundMessage, blocks, inputs, MasterPubkey, workerVars, saved, faults>>

-----------------------------------------------------------------------------
(* The transaction pool and the relayers *)

\* Mutant of validate: the transaction that is next is taken for a stale one.
validate_Late(m) == m.sequence > OffchainIngress[m.sender]

validate(m) == m.sequence >= OffchainIngress[m.sender]

\* get_mq_seq: the sequence behind those on chain and those ready in the pool.
get_mq_seq(s) ==
    LET ready(n) == \A k \in OffchainIngress[s]..(n - 1) :
                       \E m \in pool : m.sender = s /\ m.sequence = k
    IN  CHOOSE n \in OffchainIngress[s]..(MaxInputs * Cardinality(Replica) + 1) :
           ready(n) /\ ~ready(n + 1)

\* Somebody relays a message of worker r.  The pool refuses what is stale.
Relay(m) ==
    /\ validate(m)
    /\ pool' = pool \cup {m}
    /\ UNCHANGED <<chainVars, ingressVars, workerVars, saved, faults>>

\* The pool loses a transaction, or drops a stale one.
Drop(m) ==
    /\ faults < MaxFaults \/ ~validate(m)
    /\ faults' = IF validate(m) THEN faults + 1 ELSE faults
    /\ pool' = pool \ {m}
    /\ UNCHANGED <<chainVars, ingressVars, workerVars, saved>>

-----------------------------------------------------------------------------
(* The worker *)

Kind == {"gatekeeper", "worker"}

ChannelState ==
    [Kind -> [sequence : Nat, messages : SUBSET SignedMessage, dummy : BOOLEAN]]

\* The channels of a worker: the gatekeepers' and its own.
SenderOf(r, kind) == IF kind = "gatekeeper" THEN Gatekeeper ELSE r

\* In dummy mode the message is dropped, and the sequence still counts it.
enqueue_message(entry, s, payload) ==
    [sequence |-> entry.sequence + 1,
     messages |-> IF entry.dummy THEN entry.messages ELSE entry.messages \cup
                     {[sender |-> s, sequence |-> entry.sequence, payload |-> payload]},
     dummy |-> entry.dummy]

\* dispatch: each block's messages get local indexes, and go to the receivers of their topic.  A
\* receiver is the set of the indexes it holds; it gives them back in their order.
dispatch(block) == [t \in Subscribed |-> {i \in DOMAIN block : block[i].topic = t}]

\* Mutant of Selected: the receivers are served one after the other.
Selected_InTurn(receivers) == CHOOSE t \in Subscribed : receivers[t] # {}

\* The receiver whose first message has the smallest local index.
Selected(receivers) ==
    CHOOSE t \in Subscribed :
        /\ receivers[t] # {}
        /\ \A u \in Subscribed : receivers[u] # {} => Min(receivers[t]) <= Min(receivers[u])

\* A message is answered (push_data) by the gatekeepers, or by the workers it is about.
answer(r, entries, message) ==
    LET kind == IF message.topic \in Shared THEN "gatekeeper" ELSE "worker"
    IN  IF kind = "worker" /\ r \notin Addressed THEN entries
        ELSE [entries EXCEPT ![kind] = enqueue_message(@, SenderOf(r, kind), message.payload)]

\* What a worker works on in a block: its receivers, with indexes of the block, and its channels.
Context(block) == [receivers : [Subscribed -> SUBSET DOMAIN block], entries : ChannelState]

\* One iteration of the loop over select!: the selected receiver's first message is answered.
select(r, block) ==
    [c \in Context(block) |->
        LET t == Selected(c.receivers)
            i == Min(c.receivers[t])
        IN  IF \A u \in Subscribed : c.receivers[u] = {} THEN c
            ELSE [receivers |-> [c.receivers EXCEPT ![t] = @ \ {i}],
                  entries |-> answer(r, c.entries, block[i])]]

\* A worker's receivers and channels after n iterations.
handled_by(r, block) ==
    LET c[n \in 0..Len(block)] ==
            IF n = 0 THEN [receivers |-> dispatch(block), entries |-> channel[r]]
            ELSE select(r, block)[c[n - 1]]
    IN  c

\* A worker handles a block under its lock: all messages are dispatched, then select! takes
\* them until there is none.
HandleBlock(r) ==
    LET block == blocks[synced[r] + 1]
    IN  /\ synced[r] < Len(blocks)
        /\ synced' = [synced EXCEPT ![r] = @ + 1]
        /\ channel' = [channel EXCEPT ![r] = handled_by(r, block)[Len(block)].entries]
        /\ UNCHANGED <<chainVars, ingressVars, pool, saved, faults>>

set_dummy_mode(r, dummy) ==
    /\ channel' = [channel EXCEPT ![r]["gatekeeper"].dummy = dummy]
    /\ UNCHANGED <<chainVars, ingressVars, pool, synced, saved, faults>>

\* Mutant of purge: the message the chain expects next goes as well.
purge_OneMore(r, kind, next) ==
    /\ next <= OffchainIngress[SenderOf(r, kind)]
    /\ channel' = [channel EXCEPT ![r][kind].messages = {m \in @ : m.sequence > next}]
    /\ UNCHANGED <<chainVars, ingressVars, pool, synced, saved, faults>>

\* next_sequence_for one sender is what the chain expected at some block the worker has seen.
purge(r, kind, next) ==
    /\ next <= OffchainIngress[SenderOf(r, kind)]
    /\ channel' = [channel EXCEPT ![r][kind].messages = {m \in @ : m.sequence >= next}]
    /\ UNCHANGED <<chainVars, ingressVars, pool, synced, saved, faults>>

\* A checkpoint is taken between blocks: of a receiver only the topic is written.  (One that no
\* restart can read any more is left out.)
Checkpoint(r) ==
    /\ faults < MaxFaults
    /\ saved' = [saved EXCEPT ![r] = [synced |-> synced[r], channel |-> channel[r]]]
    /\ UNCHANGED <<chainVars, ingressVars, pool, workerVars, faults>>

Restart(r) ==
    /\ faults < MaxFaults
    /\ faults' = faults + 1
    /\ synced' = [synced EXCEPT ![r] = saved[r].synced]
    /\ channel' = [channel EXCEPT ![r] = saved[r].channel]
    /\ UNCHANGED <<chainVars, ingressVars, pool, saved>>

-----------------------------------------------------------------------------
EmptyChannel == [kind \in Kind |-> [sequence |-> 0, messages |-> {}, dummy |-> FALSE]]

Init ==
    /\ OutboundMessages = <<>>
    /\ QueuedOutboundMessage = <<>>
    /\ blocks = <<>>
    /\ inputs = 0
    /\ OffchainIngress = [s \in Sender |-> 0]
    /\ MasterPubkey = FALSE
    /\ handled = [s \in Sender |-> <<>>]
    /\ pool = {}
    /\ synced = [r \in Replica |-> 0]
    /\ channel = [r \in Replica |-> EmptyChannel]
    /\ saved = [r \in Replica |-> [synced |-> 0, channel |-> EmptyChannel]]
    /\ faults = 0

Chain ==
    \/ \E t \in Pushed : push_message(t)
    \/ \E t \in Queued : queue_bound_message(t)
    \/ on_initialize
    \/ StoreMasterPubkey
    \/ \E m \in pool : sync_offchain_message(m) \/ Drop(m)

Worker ==
    \E r \in Replica :
        \/ HandleBlock(r)
        \/ r \in MayDummy /\ \E dummy \in BOOLEAN : set_dummy_mode(r, dummy)
        \/ r \in MayRestart /\ (Checkpoint(r) \/ Restart(r))
        \/ \E kind \in Kind :
              \/ \E next \in Seqno : purge(r, kind, next)
              \/ \E m \in channel[r][kind].messages : Relay(m)

Next == Chain \/ Worker

Spec == Init /\ [][Next]_vars

\* What a relayer sends that asks get_mq_seq where to begin.
RelayNext(s) ==
    \E r \in Replica, kind \in Kind : \E m \in channel[r][kind].messages :
        /\ m.sender = s
        /\ m.sequence = get_mq_seq(s)
        /\ Relay(m)

\* Some worker that is behind reads on, some relayer relays, authors include what is ready, and
\* the first gatekeeper's key reaches the chain.
FairSpec ==
    /\ Spec
    /\ WF_vars(\E r \in Replica : HandleBlock(r))
    /\ WF_vars(\E s \in Sender : RelayNext(s))
    /\ WF_vars(\E m \in pool : sync_offchain_message(m))
    /\ WF_vars(StoreMasterPubkey)

-----------------------------------------------------------------------------
(* Properties *)

\* The declared shape of the storage items and of the workers' queues.
TypeOK ==
    /\ OutboundMessages \in Seq(Message)
    /\ QueuedOutboundMessage \in Seq(Message)
    /\ blocks \in Seq(Seq(Message))
    /\ inputs \in 0..MaxInputs
    /\ OffchainIngress \in [Sender -> Nat]
    /\ MasterPubkey \in BOOLEAN
    /\ handled \in [Sender -> Seq(1..MaxInputs)]
    /\ pool \subseteq SignedMessage
    /\ synced \in [Replica -> Nat]
    /\ channel \in [Replica -> ChannelState]
    /\ saved \in [Replica -> [synced : Nat, channel : ChannelState]]
    /\ faults \in Nat

\* The topics whose messages a sender answers.
Answered(s) ==
    IF s = Gatekeeper THEN Shared ELSE IF s \in Addressed THEN Subscribed \ Shared ELSE {}

\* The answers of a sender to the first n messages of a block, and to the first n of some blocks.
AnswersTo(s, block) ==
    LET a[n \in 0..Len(block)] ==
            IF n = 0 THEN <<>>
            ELSE IF block[n].topic \in Answered(s) THEN Append(a[n - 1], block[n].payload)
            ELSE a[n - 1]
    IN  a

DueBy(s, bs) ==
    LET d[n \in 0..Len(bs)] ==
            IF n = 0 THEN <<>> ELSE d[n - 1] \o AnswersTo(s, bs[n])[Len(bs[n])]
    IN  d

\* The answers that are due to the chain's messages, in the order of the blocks.
Due(s) == DueBy(s, blocks)[Len(blocks)]

\* Whatever is relayed twice, lost, sent by another gatekeeper or sent again by a worker that
\* went back to a checkpoint: the chain handles the answer to each message once, and in the
\* order of the messages, across all the topics of a sender.
ImplementsChannel == INSTANCE Channel WITH sent <- [s \in Sender |-> Due(s)]

ExactlyOnceInOrder == ImplementsChannel!Spec

\* A worker still has each message that the chain has not accepted ("Purge the messages which
\* are already accepted on chain"), also after it went back to its checkpoint.  In dummy mode the
\* gatekeepers' messages are left to the others.
KeepsWhatIsExpected ==
    \A r \in Replica, kind \in Kind :
        kind = "worker" \/ r \notin MayDummy =>
            \A entry \in {channel[r][kind], saved[r].channel[kind]} :
                \A n \in OffchainIngress[SenderOf(r, kind)]..(entry.sequence - 1) :
                    \E m \in entry.messages : m.sequence = n

\* Once no more messages are pushed, each that asks for an answer gets it handled on chain.
EventuallyHandled == <>[](handled = [s \in Sender |-> Due(s)])
=============================================================================
