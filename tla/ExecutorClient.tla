--------------------------- MODULE ExecutorClient ---------------------------
(***************************************************************************)
(* The executor client (metanode/src/node/executor_client): the node's     *)
(* only path for committed blocks to the Go execution engine.  A block is  *)
(* keyed by its global execution index (GEI), buffered, and written to the *)
(* Go socket in GEI order.  Several tasks call flush_buffer on the one     *)
(* shared client, and initialize_from_go adjusts next_expected_index while *)
(* they run.  Every mutex section that takes two mutexes is two steps, so  *)
(* the order in which they are taken is part of the model.                 *)
(*                                                                         *)
(* The Go engine is external: it keeps the first block it is given for a   *)
(* GEI, executes GEIs strictly in sequence, and may also obtain the next   *)
(* block from its own peers.                                               *)
(***************************************************************************)
EXTENDS Integers, Sequences, FiniteSets, FiniteSetsExt

CONSTANTS
    Flushers,     \* the tasks that call flush_buffer on this client
    Sender,       \* the one of them that also buffers blocks
    Canon,        \* Canon[i]: the block every node executes at GEI Base + i
    Base,         \* epoch_base_index: the GEI the epoch starts after
    GapLimit,     \* 100 in flush_buffer
    BatchLimit,   \* BATCH_WRITE_LIMIT
    MaxBuffer,    \* MAX_BUFFER_SIZE
    Faults        \* the fault kinds the environment may inject

FaultKinds == {"write", "rpc", "peersync", "crash", "leader", "reorder", "closed"}

ASSUME ClientAssumption ==
    /\ Sender \in Flushers
    /\ Base \in Nat /\ GapLimit \in Nat
    /\ BatchLimit \in Nat \ {0} /\ MaxBuffer \in Nat \ {0}
    /\ Faults \subseteq FaultKinds

Nobody == "nobody"
Mutexes == {"send_buffer", "next_expected"}

VARIABLES
    next_expected,  \* next_expected_index: the GEI the next write starts at
    send_buffer,    \* GEI -> block, waiting to be written
    sent_indices,   \* GEIs written by this client
    mutex,          \* which task holds each mutex between two steps
    fpc,            \* where each flusher is in flush_buffer
    batch,          \* the blocks each flusher removed from the buffer (Phase 1)
    go_read,        \* Go's GEI as each flusher last read it
    init_pc,        \* where initialize_from_go is
    init_read,      \* the GEI initialize_from_go was told
    init_cur,       \* next_expected as initialize_from_go read it
    inbox,          \* external: GEI -> block delivered to Go, not yet executed
    go_log          \* external: the blocks Go has executed, in order

flushVars == <<mutex, fpc, batch, go_read>>
initVars == <<init_pc, init_read, init_cur>>
bufVars == <<next_expected, send_buffer, sent_indices>>
goVars == <<inbox, go_log>>
clientVars == <<bufVars, flushVars, initVars, goVars>>

Empty == [g \in {} |-> 0]
Without(f, S) == [g \in DOMAIN f \ S |-> f[g]]
Over(f, g) == [x \in DOMAIN f \cup DOMAIN g |-> IF x \in DOMAIN g THEN g[x] ELSE f[x]]

-----------------------------------------------------------------------------
(* The Go engine (external). *)

GoGei == Base + Len(go_log)

\* Blocks handed to the socket: Go drops what it has executed or already holds.
Deliver(blocks) ==
    inbox' = Over([g \in {h \in DOMAIN blocks : h > GoGei} |-> blocks[g]], inbox)

GoExecute ==
    /\ GoGei + 1 \in DOMAIN inbox
    /\ go_log' = Append(go_log, inbox[GoGei + 1])
    /\ inbox' = Without(inbox, {GoGei + 1})
    /\ UNCHANGED <<bufVars, flushVars, initVars>>

\* Go's own peer synchronisation stores the next block of the chain.
GoPeerSync ==
    /\ "peersync" \in Faults
    /\ Len(go_log) < Len(Canon)
    /\ go_log' = Append(go_log, Canon[Len(go_log) + 1])
    /\ inbox' = Without(inbox, {GoGei + 1})
    /\ UNCHANGED <<bufVars, flushVars, initVars>>

-----------------------------------------------------------------------------
(* flush_buffer. *)

Free(m) == mutex[m] = Nobody
Goto(t, l) == fpc' = [fpc EXCEPT ![t] = l]

\* The first half of a section over two mutexes: take m and wait for the other.
Take(t, from, m, to) ==
    /\ fpc[t] = from
    /\ Free(m)
    /\ mutex' = [mutex EXCEPT ![m] = t]
    /\ Goto(t, to)
    /\ UNCHANGED <<bufVars, batch, go_read, initVars, goVars>>

\* The second half: the other mutex is free; both are released at the end.
Second(t, at, m) == fpc[t] = at /\ Free(m)
Release(t) == mutex' = [m \in Mutexes |-> IF mutex[m] = t THEN Nobody ELSE mutex[m]]

\* What a flusher does when flush_buffer returns: buffer_and_flush loops while
\* the buffer holds the next block, the other callers are finished.
Returned(t) == IF t = Sender THEN "more" ELSE "idle"

\* A task other than the sender calls flush_buffer: the epoch transition before
\* and after it stops the authority, and the shutdown path.
FlushCall(t) ==
    /\ t # Sender
    /\ fpc[t] = "idle"
    /\ Goto(t, "check")
    /\ UNCHANGED <<bufVars, mutex, batch, go_read, initVars, goVars>>

Gap ==
    IF send_buffer = Empty THEN 0
    ELSE Max({0, Min(DOMAIN send_buffer) - next_expected})

CheckTake(t) == Take(t, "check", "send_buffer", "check2")

CheckGap(t) ==
    /\ Second(t, "check2", "next_expected")
    /\ Release(t)
    /\ Goto(t, IF Gap > GapLimit THEN "rpc" ELSE "collect")
    /\ UNCHANGED <<bufVars, batch, go_read, initVars, goVars>>

\* get_last_global_exec_index under the 2-second timeout.
GapRpc(t) ==
    /\ fpc[t] = "rpc"
    /\ \/ Goto(t, "sync") /\ go_read' = [go_read EXCEPT ![t] = GoGei]
       \/ "rpc" \in Faults /\ Goto(t, "collect") /\ UNCHANGED go_read
    /\ UNCHANGED <<bufVars, mutex, batch, initVars, goVars>>

\* Unlike every other section, this one takes next_expected first.
SyncTake(t) == Take(t, "sync", "next_expected", "sync2")

\* Go is ahead: follow it and drop what it has.  Go is behind: bridge the gap by
\* moving next_expected up to the first buffered block.
SyncWithGo(t) ==
    /\ Second(t, "sync2", "send_buffer")
    /\ LET go_next == go_read[t] + 1
       IN  \/ /\ go_next > next_expected
              /\ next_expected' = go_next
              /\ send_buffer' = Without(send_buffer, {g \in DOMAIN send_buffer : g < go_next})
           \/ /\ go_next <= next_expected
              /\ next_expected' = IF send_buffer = Empty THEN next_expected
                                  ELSE Max({next_expected, Min(DOMAIN send_buffer)})
              /\ UNCHANGED send_buffer
    /\ Release(t)
    /\ Goto(t, "collect")
    /\ UNCHANGED <<sent_indices, batch, go_read, initVars, goVars>>

CollectTake(t) == Take(t, "collect", "send_buffer", "collect2")

\* Phase 1: the consecutive run of buffered blocks starting at next_expected.
Run == {g \in DOMAIN send_buffer :
            /\ next_expected <= g /\ g < next_expected + BatchLimit
            /\ next_expected .. g \subseteq DOMAIN send_buffer}

Collect(t) ==
    /\ Second(t, "collect2", "next_expected")
    /\ batch' = [batch EXCEPT ![t] = [g \in Run |-> send_buffer[g]]]
    /\ send_buffer' = Without(send_buffer, Run)
    /\ Release(t)
    /\ Goto(t, IF Run = {} THEN Returned(t) ELSE "write")
    /\ UNCHANGED <<next_expected, sent_indices, go_read, initVars, goVars>>

\* Phase 2: one write of the whole batch to the socket.
Write(t) ==
    /\ fpc[t] = "write"
    /\ Deliver(batch[t])
    /\ Goto(t, "store")
    /\ UNCHANGED <<bufVars, mutex, batch, go_read, initVars, go_log>>

\* Mutant: the batch is not put back when the write fails.
WriteFailsDropsBatch(t) ==
    /\ "write" \in Faults
    /\ fpc[t] = "write"
    /\ Free("send_buffer")
    /\ batch' = [batch EXCEPT ![t] = Empty]
    /\ Goto(t, Returned(t))
    /\ UNCHANGED <<bufVars, mutex, go_read, initVars, goVars>>

\* The write fails or times out with any prefix delivered, and the whole batch
\* goes back to the buffer.
WriteFails(t) ==
    /\ "write" \in Faults
    /\ fpc[t] = "write"
    /\ Free("send_buffer")
    /\ \E g \in DOMAIN batch[t] :
          Deliver([h \in {x \in DOMAIN batch[t] : x < g} |-> batch[t][h]])
    /\ send_buffer' = Over(send_buffer, batch[t])
    /\ batch' = [batch EXCEPT ![t] = Empty]
    /\ Goto(t, Returned(t))
    /\ UNCHANGED <<next_expected, sent_indices, mutex, go_read, initVars, go_log>>

\* Mutant: the early return on a closed connection forgets the batch.
ConnectionClosedDropsBatch(t) ==
    /\ "closed" \in Faults
    /\ fpc[t] = "write"
    /\ batch' = [batch EXCEPT ![t] = Empty]
    /\ Goto(t, "idle")
    /\ UNCHANGED <<bufVars, mutex, go_read, initVars, goVars>>

\* Another task has closed the connection since this one connected: the batch
\* goes back to the buffer too, but as an error, on which buffer_and_flush stops.
ConnectionClosed(t) ==
    /\ "closed" \in Faults
    /\ fpc[t] = "write"
    /\ Free("send_buffer")
    /\ send_buffer' = Over(send_buffer, batch[t])
    /\ batch' = [batch EXCEPT ![t] = Empty]
    /\ Goto(t, "idle")
    /\ UNCHANGED <<next_expected, sent_indices, mutex, go_read, initVars, goVars>>

\* Mutant: next_expected_index = last_idx.
StoreLast(t) ==
    /\ fpc[t] = "store"
    /\ Free("next_expected")
    /\ next_expected' = Max(DOMAIN batch[t])
    /\ sent_indices' = sent_indices \cup DOMAIN batch[t]
    /\ batch' = [batch EXCEPT ![t] = Empty]
    /\ Goto(t, Returned(t))
    /\ UNCHANGED <<send_buffer, mutex, go_read, initVars, goVars>>

\* Phase 3: next_expected_index = last_idx + 1, whatever it holds by now.
Store(t) ==
    /\ fpc[t] = "store"
    /\ Free("next_expected")
    /\ next_expected' = Max(DOMAIN batch[t]) + 1
    /\ sent_indices' = sent_indices \cup DOMAIN batch[t]
    /\ batch' = [batch EXCEPT ![t] = Empty]
    /\ Goto(t, Returned(t))
    /\ UNCHANGED <<send_buffer, mutex, go_read, initVars, goVars>>

MoreTake(t) == Take(t, "more", "send_buffer", "more2")

\* Mutant: one flush per block, however it went.
HasMoreNever(t) ==
    /\ Second(t, "more2", "next_expected")
    /\ Release(t)
    /\ Goto(t, "idle")
    /\ UNCHANGED <<bufVars, batch, go_read, initVars, goVars>>

\* buffer_and_flush: flush again while the buffer holds the next block.
HasMore(t) ==
    /\ Second(t, "more2", "next_expected")
    /\ Release(t)
    /\ Goto(t, IF next_expected \in DOMAIN send_buffer THEN "check" ELSE "idle")
    /\ UNCHANGED <<bufVars, batch, go_read, initVars, goVars>>

FlushStep(t) ==
    \/ CheckTake(t) \/ CheckGap(t) \/ GapRpc(t) \/ SyncTake(t) \/ SyncWithGo(t)
    \/ CollectTake(t) \/ Collect(t) \/ Write(t) \/ Store(t)
    \/ MoreTake(t) \/ HasMore(t)

-----------------------------------------------------------------------------
(* initialize_from_go.  Each access to next_expected_index is a lock of its  *)
(* own, so the value compared is stale when it is overwritten.               *)

\* Ask Go for its GEI; when the RPC fails, use the persisted last *block number*,
\* which counts fewer blocks than the GEI does, or give up.
InitQuery ==
    /\ init_pc = "query"
    /\ \/ init_read' = GoGei /\ init_pc' = "compare"
       \/ /\ "rpc" \in Faults
          /\ \E n \in 0 .. GoGei : init_read' = n
          /\ init_pc' = "compare"
       \/ "rpc" \in Faults /\ init_pc' = "done" /\ UNCHANGED init_read
    /\ UNCHANGED <<bufVars, flushVars, init_cur, goVars>>

InitCompare ==
    /\ init_pc = "compare"
    /\ Free("next_expected")
    /\ init_cur' = next_expected
    /\ init_pc' = IF init_read + 1 = next_expected THEN "done" ELSE "overwrite"
    /\ UNCHANGED <<bufVars, flushVars, init_read, goVars>>

\* Go behind: wind back.  Go ahead: follow Go, then clear what it has.
InitOverwrite ==
    /\ init_pc = "overwrite"
    /\ Free("next_expected")
    /\ next_expected' = init_read + 1
    /\ init_pc' = IF init_read + 1 < init_cur THEN "done" ELSE "retain"
    /\ UNCHANGED <<send_buffer, sent_indices, flushVars, init_read, init_cur, goVars>>

\* Mutant: the block Go needs next is cleared too.
InitRetainOffByOne ==
    /\ init_pc = "retain"
    /\ Free("send_buffer")
    /\ send_buffer' = Without(send_buffer, {g \in DOMAIN send_buffer : g <= init_read + 1})
    /\ init_pc' = "done"
    /\ UNCHANGED <<next_expected, sent_indices, flushVars, init_read, init_cur, goVars>>

InitRetain ==
    /\ init_pc = "retain"
    /\ Free("send_buffer")
    /\ send_buffer' = Without(send_buffer, {g \in DOMAIN send_buffer : g <= init_read})
    /\ init_pc' = "done"
    /\ UNCHANGED <<next_expected, sent_indices, flushVars, init_read, init_cur, goVars>>

InitStep == InitQuery \/ InitCompare \/ InitOverwrite \/ InitRetain

-----------------------------------------------------------------------------
(* What send_committed_subdag does to the client on behalf of the sender.    *)

\* Replay protection and dual-stream deduplication.
AlreadySent(gei) == gei < next_expected \/ gei \in sent_indices

BufferFull == Cardinality(DOMAIN send_buffer) >= MaxBuffer

\* buffer_and_flush: a block of the same commit is already there and is kept, or
\* the block is inserted, over whatever other commit holds the GEI, and flushed.
BufferAndFlush(gei, block) ==
    LET same == gei \in DOMAIN send_buffer /\ send_buffer[gei][1] = block[1]
    IN  /\ Free("send_buffer")
        /\ send_buffer' = IF same THEN send_buffer
                          ELSE Over(send_buffer, [g \in {gei} |-> block])
        /\ fpc' = [fpc EXCEPT ![Sender] = IF same THEN "idle" ELSE "check"]

\* A new client object, as ExecutorClient::new_with_initial_index makes it.
NewClient(next, ipc) ==
    /\ next_expected' = next
    /\ send_buffer' = Empty
    /\ sent_indices' = {}
    /\ mutex' = [m \in Mutexes |-> Nobody]
    /\ fpc' = [t \in Flushers |-> "idle"]
    /\ batch' = [t \in Flushers |-> Empty]
    /\ go_read' = [t \in Flushers |-> 0]
    /\ init_pc' = ipc
    /\ init_read' = 0
    /\ init_cur' = 0

ClientInit(next, ipc) ==
    /\ next_expected = next
    /\ send_buffer = Empty
    /\ sent_indices = {}
    /\ mutex = [m \in Mutexes |-> Nobody]
    /\ fpc = [t \in Flushers |-> "idle"]
    /\ batch = [t \in Flushers |-> Empty]
    /\ go_read = [t \in Flushers |-> 0]
    /\ init_pc = ipc
    /\ init_read = 0
    /\ init_cur = 0
    /\ inbox = Empty
    /\ go_log = <<>>

ClientStep ==
    \/ \E t \in Flushers : FlushStep(t) \/ WriteFails(t) \/ ConnectionClosed(t)
    \/ InitStep
    \/ GoExecute
    \/ GoPeerSync

====
