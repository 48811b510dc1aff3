--------------------------- MODULE CommitProcessor ---------------------------
(***************************************************************************)
(* The commit processor (metanode/src/consensus/commit_processor.rs) and   *)
(* the startup recovery (metanode/src/node/recovery.rs), composed with the *)
(* executor client they send through.  The processor gives every commit of *)
(* the epoch its global execution index, base + commit_index + the extra   *)
(* GEIs that earlier, fragmented commits consumed, and hands its fragments *)
(* to the client.  After a crash the node asks Go how far it got, replays  *)
(* the stored commits that Go misses through a first client, and then      *)
(* starts a second client and a processor that sees every commit again.    *)
(***************************************************************************)
EXTENDS ExecutorClient

CONSTANTS
    N,            \* commits of the epoch; commit N carries EndOfEpoch
    Frags,        \* Frags[c]: blocks of at most MAX_TXS_PER_GO_BLOCK it is split into
    Extra,        \* Extra[c]: extra GEIs of commits 1..c, the sum of Frags - 1
    InitSpawned,  \* initialize_from_go runs beside the processor, or before it
    MaxRestarts   \* bound on crashes

ASSUME ProcessorAssumption ==
    /\ N \in Nat \ {0}
    /\ MaxRestarts \in Nat
    /\ InitSpawned \in BOOLEAN
    /\ Frags \in [1 .. N -> Nat \ {0}]
    /\ Extra \in [0 .. N -> Nat]
    /\ Extra[0] = 0
    /\ \A c \in 1 .. N : Extra[c] = Extra[c - 1] + Frags[c] - 1

\* The GEI every node must give the first block of commit c.
ReferenceGei(c) == Base + c + Extra[c - 1]

ASSUME CanonAssumption ==
    /\ Canon \in Seq((1 .. N) \X (Nat \ {0}))
    /\ Len(Canon) = N + Extra[N]
    /\ \A c \in 1 .. N : \A k \in 1 .. Frags[c] :
          Canon[ReferenceGei(c) - Base + k - 1] = <<c, k>>

VARIABLES
    decided,      \* commits consensus has decided and stored
    channel,      \* commits sent to the processor, not yet received
    phase,        \* "recovery": replaying stored commits at startup; "live"
    ppc,          \* where the sending task (recovery, then the processor) is
    commit,       \* the commit it handles
    gei,          \* its GEI; next_required_global between commits of the recovery
    frag,         \* the fragment it sends next
    next_index,   \* next_expected_index of the processor; the recovery's scan position
    offset,       \* cumulative_fragment_offset
    pending,      \* pending_commits: received out of order
    drained,      \* the commit came from pending_commits
    queued,       \* commits whose transactions were put off to the next epoch
    shared_gei,   \* shared_last_global_exec_index
    spawned,      \* values callback tasks have yet to write to shared_gei
    expected,     \* expected_last_block of the epoch transition, -1 before it reads it
    switched,     \* the epoch transition has stopped waiting for Go
    last_gei,     \* last_global_exec_index: Go's GEI as startup read it
    restarts

sendVars == <<ppc, commit, gei, frag>>
procVars == <<next_index, offset, pending, drained, queued>>
sharedVars == <<shared_gei, spawned, expected, switched>>
bootVars == <<phase, last_gei, restarts>>
streamVars == <<decided, channel>>
vars == <<clientVars, sendVars, procVars, sharedVars, bootVars, streamVars>>

-----------------------------------------------------------------------------
(* Consensus: a commit is decided, stored, and sent to the processor.        *)

Decide ==
    /\ decided < N
    /\ phase = "live"
    /\ decided' = decided + 1
    /\ channel' = channel \cup {decided + 1}
    /\ UNCHANGED <<clientVars, sendVars, procVars, sharedVars, bootVars>>

-----------------------------------------------------------------------------
(* CommitProcessor::run and process_commit. *)

\* Mutant: the fragments of earlier commits are not counted.
GeiWithoutOffset(c) == Base + c

calculate_global_exec_index(c) == Base + c + offset

\* A commit arrives: in order it is processed, early it is kept in
\* pending_commits, late it is ignored.  Commits arrive in order unless the
\* environment may reorder; the first one of a stream never overtakes.
Receive ==
    /\ phase = "live" /\ ppc = "recv"
    /\ InitSpawned \/ init_pc = "done"
    /\ \E c \in channel :
          /\ c = Min(channel) \/ ("reorder" \in Faults /\ next_index > 1)
          /\ channel' = channel \ {c}
          /\ LET expect == IF next_index = 1 /\ c > 1 THEN c ELSE next_index  \* AUTO-JUMP
             IN  /\ next_index' = expect
                 /\ IF c = expect
                      THEN /\ ppc' = "guard" /\ commit' = c
                           /\ gei' = calculate_global_exec_index(c)
                           /\ UNCHANGED pending
                      ELSE /\ pending' = IF c > expect THEN pending \cup {c} ELSE pending
                           /\ UNCHANGED <<ppc, commit, gei>>
    /\ drained' = FALSE
    /\ UNCHANGED <<clientVars, frag, offset, queued, sharedVars, bootVars, decided>>

\* The leader's address cannot be resolved: process_commit fails and the
\* processor task ends.
LeaderUnresolved ==
    /\ "leader" \in Faults
    /\ ppc = "guard"
    /\ ppc' = "dead"
    /\ UNCHANGED <<clientVars, commit, gei, frag, procVars, sharedVars, bootVars, streamVars>>

\* Mutant: the offset grows by all GEIs of the commit, not by the extra ones.
FinishCountsAllGeis(geis) ==
    IF phase = "recovery"
      THEN /\ gei' = gei + geis
           /\ next_index' = next_index + 1
           /\ ppc' = "scan"
           /\ UNCHANGED <<offset, spawned>>
      ELSE /\ offset' = offset + geis
           /\ next_index' = next_index + 1
           /\ spawned' = IF drained THEN spawned ELSE spawned \cup {gei + geis - 1}
           /\ ppc' = IF commit = N THEN "halted" ELSE "next"
           /\ UNCHANGED gei

\* What run does with the GEIs process_commit reports: the offset grows, the
\* next commit is due; only a commit taken from the channel goes through the
\* callback, whose spawned task writes shared_gei at some later time.  In the
\* recovery the next required GEI advances instead.
Finish(geis) ==
    IF phase = "recovery"
      THEN /\ gei' = gei + geis
           /\ next_index' = next_index + 1
           /\ ppc' = "scan"
           /\ UNCHANGED <<offset, spawned>>
      ELSE /\ offset' = offset + geis - 1
           /\ next_index' = next_index + 1
           /\ spawned' = IF drained THEN spawned ELSE spawned \cup {gei + geis - 1}
           /\ ppc' = IF commit = N THEN "halted" ELSE "next"
           /\ UNCHANGED gei

\* Sent: process_commit also stores the last GEI of the commit in shared_gei.
FinishSent(geis) ==
    /\ Finish(geis)
    /\ shared_gei' = IF phase = "live" THEN gei + geis - 1 ELSE shared_gei

\* The cold-start guard of a node whose consensus store survived (cold_start is
\* false): a commit Go already has, by Go's own account, is skipped as one GEI,
\* except the one that ends the epoch.
Guard ==
    /\ ppc = "guard"
    /\ \E go \in {GoGei} \cup (IF "rpc" \in Faults THEN {0} ELSE {}) :
          IF go >= gei /\ gei > 0 /\ commit # N
            THEN Finish(1)
            ELSE ppc' = "send" /\ UNCHANGED <<gei, next_index, offset, spawned>>
    /\ UNCHANGED <<clientVars, commit, frag, pending, drained, queued, shared_gei,
                   expected, switched, bootVars, streamVars>>

\* send_committed_subdag: a GEI below next_expected, or already sent, is
\* discarded as one GEI; otherwise the fragments are buffered one by one.
SendCommittedSubdag ==
    /\ ppc = "send"
    /\ Free("next_expected")
    /\ frag' = 1
    /\ \/ /\ AlreadySent(gei)
          /\ FinishSent(1)
       \/ /\ ~AlreadySent(gei)
          /\ ppc' = "buffer"
          /\ UNCHANGED <<gei, next_index, offset, spawned, shared_gei>>
    /\ UNCHANGED <<clientVars, commit, pending, drained, queued, expected, switched,
                   bootVars, streamVars>>

\* Mutant: every fragment carries the first slice of the transactions.
BufferFirstSlice ==
    /\ ppc = "buffer"
    /\ ~BufferFull
    /\ BufferAndFlush(gei + frag - 1, <<commit, 1>>)
    /\ ppc' = "flushing"
    /\ UNCHANGED <<next_expected, sent_indices, mutex, batch, go_read, initVars, goVars,
                   commit, gei, frag, procVars, sharedVars, bootVars, streamVars>>

\* Mutant: fragments are numbered from one in the key as well.
BufferFragmentOffByOne ==
    /\ ppc = "buffer"
    /\ ~BufferFull
    /\ BufferAndFlush(gei + frag, <<commit, frag>>)
    /\ ppc' = "flushing"
    /\ UNCHANGED <<next_expected, sent_indices, mutex, batch, go_read, initVars, goVars,
                   commit, gei, frag, procVars, sharedVars, bootVars, streamVars>>

BufferFragment ==
    /\ ppc = "buffer"
    /\ ~BufferFull
    /\ BufferAndFlush(gei + frag - 1, <<commit, frag>>)
    /\ ppc' = "flushing"
    /\ UNCHANGED <<next_expected, sent_indices, mutex, batch, go_read, initVars, goVars,
                   commit, gei, frag, procVars, sharedVars, bootVars, streamVars>>

\* The buffer rejects the block: an EndOfEpoch commit is sent again from the
\* start, any other is put off to the next epoch and counted as one GEI.  The
\* recovery, and startup with it, fails.
BufferRejects ==
    /\ ppc = "buffer"
    /\ Free("send_buffer")
    /\ BufferFull
    /\ \/ /\ phase = "recovery"
          /\ ppc' = "dead"
          /\ UNCHANGED <<gei, next_index, offset, spawned, queued>>
       \/ /\ phase = "live" /\ commit = N
          /\ ppc' = "send"
          /\ UNCHANGED <<gei, next_index, offset, spawned, queued>>
       \/ /\ phase = "live" /\ commit # N
          /\ Finish(1)
          /\ queued' = queued \cup {commit}
    /\ UNCHANGED <<clientVars, commit, frag, pending, drained, shared_gei, expected,
                   switched, bootVars, streamVars>>

\* flush_buffer has returned: the next fragment, or the commit is sent.
FlushReturned ==
    /\ ppc = "flushing"
    /\ fpc[Sender] = "idle"
    /\ \/ /\ frag < Frags[commit]
          /\ frag' = frag + 1
          /\ ppc' = "buffer"
          /\ UNCHANGED <<gei, next_index, offset, spawned, shared_gei>>
       \/ /\ frag = Frags[commit]
          /\ FinishSent(Frags[commit])
          /\ UNCHANGED frag
    /\ UNCHANGED <<clientVars, commit, pending, drained, queued, expected, switched,
                   bootVars, streamVars>>

\* Process the commit that pending_commits holds for the next index, if any.
DrainPending ==
    /\ ppc = "next"
    /\ IF next_index \in pending
         THEN /\ pending' = pending \ {next_index}
              /\ commit' = next_index
              /\ gei' = calculate_global_exec_index(next_index)
              /\ drained' = TRUE
              /\ ppc' = "guard"
         ELSE ppc' = "recv" /\ UNCHANGED <<pending, commit, gei, drained>>
    /\ UNCHANGED <<clientVars, frag, next_index, offset, queued, sharedVars, bootVars,
                   streamVars>>

-----------------------------------------------------------------------------
(* The shared index and the epoch transition that waits for it. *)

\* A spawned callback task runs, in whatever order the runtime picks.
CallbackWrites ==
    /\ \E v \in spawned : shared_gei' = v /\ spawned' = spawned \ {v}
    /\ UNCHANGED <<clientVars, sendVars, procVars, expected, switched, bootVars, streamVars>>

\* stop_authority_and_poll_go, once the EndOfEpoch commit has triggered it:
\* read the index the old epoch ends at ...
TransitionReads ==
    /\ ppc = "halted"
    /\ expected = -1
    /\ expected' = shared_gei
    /\ UNCHANGED <<clientVars, sendVars, procVars, shared_gei, spawned, switched, bootVars,
                   streamVars>>

\* ... and poll Go until it reports it.
TransitionSwitches ==
    /\ expected # -1 /\ ~switched
    /\ GoGei >= expected
    /\ switched' = TRUE
    /\ UNCHANGED <<clientVars, sendVars, procVars, shared_gei, spawned, expected, bootVars,
                   streamVars>>

-----------------------------------------------------------------------------
(* Crash, recovery, restart. *)

\* The node crashes and starts again: everything in memory is gone, Go and what
\* was delivered to it are not.  Startup reads Go's GEI, 0 when it cannot, and
\* creates the recovery's client, whose next_expected_index is 1.
Crash ==
    /\ "crash" \in Faults
    /\ restarts < MaxRestarts
    /\ ~switched
    /\ restarts' = restarts + 1
    /\ phase' = "recovery"
    /\ ppc' = "scan"
    /\ \E go \in {GoGei} \cup (IF "rpc" \in Faults THEN {0} ELSE {}) :
          /\ last_gei' = go
          /\ gei' = go + 1
          /\ next_index' = IF go > 0 /\ go >= Base THEN go + 1 - Base ELSE decided + 1
    /\ NewClient(1, "done")
    /\ channel' = {} /\ pending' = {} /\ queued' = {} /\ spawned' = {}
    /\ commit' = 0 /\ frag' = 1 /\ offset' = 0 /\ drained' = FALSE
    /\ shared_gei' = Base /\ expected' = -1
    /\ UNCHANGED <<goVars, switched, decided>>

\* Mutant: the scan runs one commit past the stored ones.
RecoveryScanPastEnd ==
    /\ ppc = "scan"
    /\ next_index <= decided + 1
    /\ commit' = next_index
    /\ next_index' = IF Base + next_index < gei THEN next_index + 1 ELSE next_index
    /\ ppc' = IF Base + next_index < gei THEN "scan"
              ELSE IF Base + next_index > gei THEN "dead" ELSE "send"
    /\ UNCHANGED <<clientVars, gei, frag, offset, pending, drained, queued, sharedVars,
                   bootVars, streamVars>>

\* Mutant: commit indices are taken to start at zero.
RecoveryScanZeroBased ==
    LET index_gei == Base + next_index - 1
    IN  /\ ppc = "scan"
        /\ next_index <= decided
        /\ commit' = next_index
        /\ next_index' = IF index_gei < gei THEN next_index + 1 ELSE next_index
        /\ ppc' = IF index_gei < gei THEN "scan" ELSE IF index_gei > gei THEN "dead" ELSE "send"
        /\ UNCHANGED <<clientVars, gei, frag, offset, pending, drained, queued, sharedVars,
                       bootVars, streamVars>>

\* perform_block_recovery_check: the next stored commit, whose GEI is taken to be
\* base + commit_index, is below what Go needs and skipped, is the one Go needs
\* and sent with that GEI, or leaves a gap and fails the startup.
RecoveryScan ==
    /\ ppc = "scan"
    /\ next_index <= decided
    /\ commit' = next_index
    /\ next_index' = IF Base + next_index < gei THEN next_index + 1 ELSE next_index
    /\ ppc' = IF Base + next_index < gei THEN "scan"
              ELSE IF Base + next_index > gei THEN "dead" ELSE "send"
    /\ UNCHANGED <<clientVars, gei, frag, offset, pending, drained, queued, sharedVars,
                   bootVars, streamVars>>

\* setup_consensus: a second client that starts after the GEI read at startup,
\* and a processor to which the observer sends every stored commit again.
StartProcessor ==
    /\ ppc = "scan"
    /\ next_index > decided
    /\ phase' = "live"
    /\ ppc' = "recv"
    /\ next_index' = 1
    /\ channel' = 1 .. decided
    /\ NewClient(last_gei + 1, "query")
    /\ UNCHANGED <<goVars, commit, gei, frag, offset, pending, drained, queued, sharedVars,
                   last_gei, restarts, decided>>

-----------------------------------------------------------------------------

Init ==
    /\ ClientInit(Base + 1, "query")
    /\ decided = 0 /\ channel = {}
    /\ phase = "live" /\ ppc = "recv"
    /\ commit = 0 /\ gei = 0 /\ frag = 1
    /\ next_index = 1 /\ offset = 0
    /\ pending = {} /\ drained = FALSE /\ queued = {}
    /\ shared_gei = Base /\ spawned = {} /\ expected = -1 /\ switched = FALSE
    /\ last_gei = Base /\ restarts = 0

\* The shutdown path and the epoch transition flush the processor's client, at
\* any time; the recovery's client is known to nobody else.
OtherFlush ==
    /\ phase = "live"
    /\ \E t \in Flushers : FlushCall(t)

NodeUnchanged == UNCHANGED <<sendVars, procVars, sharedVars, bootVars, streamVars>>

Client == (ClientStep \/ OtherFlush) /\ NodeUnchanged

SenderStep ==
    \/ Receive \/ Guard \/ SendCommittedSubdag \/ BufferFragment \/ BufferRejects
    \/ FlushReturned \/ DrainPending \/ RecoveryScan \/ StartProcessor

TransitionStep == TransitionReads \/ TransitionSwitches

Next ==
    \/ Decide
    \/ SenderStep
    \/ LeaderUnresolved
    \/ CallbackWrites
    \/ TransitionStep
    \/ Crash
    \/ Client

Spec == Init /\ [][Next]_vars

\* Every task the node spawns keeps running, Go keeps executing what it has, and
\* consensus decides the epoch's commits; a write may fail, but not every time.
\* Mutexes are handed out in the order they were asked for, so no task starves.
Fairness ==
    /\ WF_vars(Decide)
    /\ SF_vars(SenderStep)
    /\ SF_vars(InitStep /\ NodeUnchanged)
    /\ WF_vars(GoExecute /\ NodeUnchanged)
    /\ \A t \in Flushers :
          /\ SF_vars(FlushStep(t) /\ NodeUnchanged)
          /\ SF_vars(Write(t) /\ NodeUnchanged)

FairSpec == Spec /\ Fairness

-----------------------------------------------------------------------------
(* Properties. *)

Geis == Base + 1 .. Base + Len(Canon)
CanonAt(g) == Canon[g - Base]
BlockFn(f) == DOMAIN f \subseteq Nat /\ \A g \in DOMAIN f : f[g] \in (1 .. N) \X (Nat \ {0})

TypeOK ==
    /\ next_expected \in Nat \ {0}
    /\ BlockFn(send_buffer) /\ BlockFn(inbox) /\ \A t \in Flushers : BlockFn(batch[t])
    /\ sent_indices \subseteq Nat
    /\ mutex \in [Mutexes -> Flushers \cup {Nobody}]
    /\ fpc \in [Flushers -> {"idle", "check", "check2", "rpc", "sync", "sync2", "collect",
                             "collect2", "write", "store", "more", "more2"}]
    /\ go_read \in [Flushers -> Nat]
    /\ init_pc \in {"query", "compare", "overwrite", "retain", "done"}
    /\ init_read \in Nat /\ init_cur \in Nat
    /\ go_log \in Seq((1 .. N) \X (Nat \ {0}))
    /\ decided \in 0 .. N /\ channel \subseteq 1 .. N /\ pending \subseteq 1 .. N
    /\ queued \subseteq 1 .. N
    /\ phase \in {"recovery", "live"}
    /\ ppc \in {"recv", "guard", "send", "buffer", "flushing", "next", "halted", "dead", "scan"}
    /\ commit \in 0 .. N /\ gei \in Nat /\ frag \in Nat \ {0}
    /\ next_index \in Nat /\ offset \in Nat /\ drained \in BOOLEAN
    /\ shared_gei \in Nat /\ spawned \subseteq Nat /\ expected \in Nat \cup {-1}
    /\ switched \in BOOLEAN /\ last_gei \in Nat /\ restarts \in 0 .. MaxRestarts

\* The GEI the processor computes for a commit (calculate_global_exec_index in
\* CommitProcessor::run) is the one every other node computes for it, whatever
\* was fragmented, delivered out of order or replayed before.
GeiDeterministic ==
    phase = "live" /\ ppc \in {"guard", "send", "buffer", "flushing"}
        => gei = ReferenceGei(commit)

\* The same of the commits perform_block_recovery_check replays at startup.
RecoveryMatchesLive ==
    phase = "recovery" /\ ppc \in {"send", "buffer", "flushing"}
        => gei = ReferenceGei(commit)

\* No block sits anywhere between the processor and Go's log under a GEI other
\* than its own: buffer, a flusher's batch, the socket.
BlocksKeepTheirGei ==
    \A f \in {send_buffer, inbox} \cup {batch[t] : t \in Flushers} :
        \A g \in DOMAIN f : g \in Geis /\ f[g] = CanonAt(g)

\* A GEI is safe once Go has executed it or it is on its way to Go.
Safe(g) ==
    \/ g <= GoGei
    \/ g \in DOMAIN inbox \cup DOMAIN send_buffer
    \/ \E t \in Flushers : g \in DOMAIN batch[t]

\* A commit the processor has finished with is executed or on its way: failed
\* writes, concurrent flushes, skips and replays lose no block of it.
NothingLost ==
    phase = "live" =>
        \A c \in 1 .. Min({next_index - 1, N}) : c \notin queued =>
            \A k \in 1 .. Frags[c] : Safe(ReferenceGei(c) + k - 1)

\* What was written stays behind next_expected_index: it is not wound back under
\* blocks that are on their way ("If Go is behind: Keep current value").
SentStaysBehind == \A g \in sent_indices : g < next_expected

\* No two tasks each hold the mutex the other waits for.
WaitsFor(t, m) ==
    \/ m = "next_expected" /\ fpc[t] \in {"check2", "collect2", "more2"}
    \/ m = "send_buffer" /\ fpc[t] = "sync2"
NoDeadlyEmbrace ==
    \A t, u \in Flushers :
        ~(/\ t # u
          /\ WaitsFor(t, "next_expected") /\ mutex["next_expected"] = u
          /\ WaitsFor(u, "send_buffer") /\ mutex["send_buffer"] = t)

\* The transition leaves the old epoch only after Go has executed all of it.
SwitchAfterAllExecuted == switched => GoGei = Base + Len(Canon)

\* Go's log grows by exactly the next block of the chain.
OE == INSTANCE OrderedExecution WITH Chain <- Canon, log <- go_log
ExecutesInOrder == OE!Spec

\* Every commit of the epoch is eventually executed by Go.
EverythingExecuted == <>(Len(go_log) = Len(Canon))

====
