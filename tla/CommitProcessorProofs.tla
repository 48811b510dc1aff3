------------------------ MODULE CommitProcessorProofs ------------------------
(***************************************************************************)
(* Proofs about the path from the commit processor to Go, for every number *)
(* of commits, crashes and flushers, every gap, batch and buffer limit and *)
(* every combination of faults, in an epoch none of whose commits is large *)
(* enough to be split.  (With split commits a crash breaks the property:   *)
(* run delivery_replay.)                                                   *)
(***************************************************************************)
EXTENDS CommitProcessor, TLAPS

\* No commit has more than MAX_TXS_PER_GO_BLOCK transactions.
PlainEpoch ==
    /\ \A c \in 1 .. N : Frags[c] = 1
    /\ \A c \in 0 .. N : Extra[c] = 0

\* Every block of f is the chain's block for its GEI.
Canonical(f) == \A g \in DOMAIN f : g \in Geis /\ f[g] = CanonAt(g)

\* The inductive invariant: blocks are canonical wherever they are, Go's log is a
\* prefix of the chain, and the commit in hand has the GEI base + index.
IInv ==
    /\ Canonical(send_buffer)
    /\ Canonical(inbox)
    /\ DOMAIN batch = Flushers
    /\ \A t \in Flushers : Canonical(batch[t])
    /\ go_log \in Seq((1 .. N) \X (Nat \ {0}))
    /\ Len(go_log) <= Len(Canon)
    /\ \A i \in 1 .. Len(go_log) : go_log[i] = Canon[i]
    /\ decided \in 0 .. N
    /\ channel \subseteq 1 .. N
    /\ pending \subseteq 1 .. N
    /\ next_index \in Nat \ {0}
    /\ offset = 0
    /\ frag = 1
    /\ gei \in Nat
    /\ ppc \in {"guard", "send", "buffer", "flushing"} =>
          commit \in 1 .. N /\ gei = Base + commit

\* A map rebuilt by Without keeps its blocks.
LEMMA WithoutCanonical ==
    ASSUME NEW f, NEW S, Canonical(f)
    PROVE  Canonical(Without(f, S))
BY DEF Canonical, Without

\* Merging two maps of canonical blocks gives one.
LEMMA OverCanonical ==
    ASSUME NEW f, NEW h, Canonical(f), Canonical(h)
    PROVE  Canonical(Over(f, h))
BY DEF Canonical, Over

\* Restricting a map to part of its domain keeps its blocks.
LEMMA RestrictCanonical ==
    ASSUME NEW f, NEW S, S \subseteq DOMAIN f, Canonical(f)
    PROVE  Canonical([g \in S |-> f[g]])
BY DEF Canonical

\* A map without blocks is canonical.
LEMMA EmptyCanonical == Canonical(Empty)
BY DEF Canonical, Empty

\* In a plain epoch the chain is commit 1, commit 2, ... each as one block.
LEMMA PlainChain ==
    ASSUME PlainEpoch
    PROVE  /\ Len(Canon) = N
           /\ \A c \in 1 .. N : Base + c \in Geis /\ CanonAt(Base + c) = <<c, 1>>
<1>1. Len(Canon) = N
  BY CanonAssumption, ProcessorAssumption DEF PlainEpoch
<1>2. ASSUME NEW c \in 1 .. N
      PROVE  Base + c \in Geis /\ CanonAt(Base + c) = <<c, 1>>
  <2>1. Base \in Nat /\ N \in Nat
    BY ClientAssumption, ProcessorAssumption
  <2>2. Frags[c] = 1 /\ Extra[c - 1] = 0
    BY <2>1 DEF PlainEpoch
  <2>3. ReferenceGei(c) = Base + c
    BY <2>1, <2>2 DEF ReferenceGei
  <2>4. Canon[ReferenceGei(c) - Base + 1 - 1] = <<c, 1>>
    BY <2>2, CanonAssumption
  <2>5. ReferenceGei(c) - Base + 1 - 1 = (Base + c) - Base
    BY <2>1, <2>3
  <2>6. CanonAt(Base + c) = <<c, 1>>
    BY <2>4, <2>5 DEF CanonAt
  <2> QED BY <1>1, <2>1, <2>6 DEF Geis
<1> QED BY <1>1, <1>2

\* What Go executes next, from its inbox or from its peers, extends the prefix.
LEMMA LogGrows ==
    ASSUME IInv, NEW b \in (1 .. N) \X (Nat \ {0}),
           Len(go_log) < Len(Canon), b = Canon[Len(go_log) + 1],
           go_log' = Append(go_log, b)
    PROVE  /\ go_log' \in Seq((1 .. N) \X (Nat \ {0}))
           /\ Len(go_log') <= Len(Canon)
           /\ \A i \in 1 .. Len(go_log') : go_log'[i] = Canon[i]
<1>1. go_log \in Seq((1 .. N) \X (Nat \ {0})) /\ Len(go_log) \in Nat
  BY DEF IInv
<1>2. Len(Canon) \in Nat
  BY CanonAssumption
<1>3. Len(go_log') = Len(go_log) + 1
  BY <1>1
<1>4. ASSUME NEW i \in 1 .. Len(go_log')
      PROVE  go_log'[i] = Canon[i]
  <2>1. CASE i \in 1 .. Len(go_log)
    BY <1>1, <2>1 DEF IInv
  <2>2. CASE i = Len(go_log) + 1
    BY <1>1, <2>2
  <2> QED BY <1>1, <1>3, <2>1, <2>2
<1> QED BY <1>1, <1>2, <1>3, <1>4

\* The block Go finds for its next GEI is the chain's next block.
LEMMA NextBlock ==
    ASSUME IInv, GoGei + 1 \in DOMAIN inbox
    PROVE  /\ Len(go_log) < Len(Canon)
           /\ inbox[GoGei + 1] = Canon[Len(go_log) + 1]
<1>1. GoGei + 1 \in Geis /\ inbox[GoGei + 1] = CanonAt(GoGei + 1)
  BY DEF IInv, Canonical
<1>2. Base \in Nat /\ Len(go_log) \in Nat /\ Len(Canon) \in Nat
  BY ClientAssumption, CanonAssumption DEF IInv
<1>3. GoGei + 1 - Base = Len(go_log) + 1
  BY <1>2 DEF GoGei
<1> QED BY <1>1, <1>2, <1>3 DEF Geis, CanonAt, GoGei

\* Every position of the chain holds a block.
LEMMA ChainBlock ==
    ASSUME NEW i \in 1 .. Len(Canon)
    PROVE  Canon[i] \in (1 .. N) \X (Nat \ {0})
BY CanonAssumption

\* Go's steps keep the invariant.
LEMMA GoStep ==
    ASSUME IInv, GoExecute \/ GoPeerSync, NodeUnchanged
    PROVE  IInv'
<1> USE DEF NodeUnchanged, sendVars, procVars, streamVars, bootVars
<1>1. Len(go_log) < Len(Canon) /\ go_log' = Append(go_log, Canon[Len(go_log) + 1])
  BY NextBlock DEF GoExecute, GoPeerSync
<1>2. Canon[Len(go_log) + 1] \in (1 .. N) \X (Nat \ {0})
  <2>1. Len(go_log) \in Nat /\ Len(Canon) \in Nat
    BY CanonAssumption DEF IInv
  <2> QED BY <1>1, <2>1, ChainBlock
<1>3. /\ go_log' \in Seq((1 .. N) \X (Nat \ {0}))
      /\ Len(go_log') <= Len(Canon)
      /\ \A i \in 1 .. Len(go_log') : go_log'[i] = Canon[i]
  BY <1>1, <1>2, LogGrows
<1>4. inbox' = Without(inbox, {GoGei + 1})
  BY DEF GoExecute, GoPeerSync
<1>5. Canonical(inbox')
  BY <1>4, WithoutCanonical DEF IInv
<1>6. UNCHANGED <<send_buffer, batch>>
  BY DEF GoExecute, GoPeerSync, bufVars, flushVars
<1>7. Canonical(send_buffer)' /\ Canonical(inbox)' /\ \A t \in Flushers : Canonical(batch[t])'
  BY <1>5, <1>6 DEF IInv, Canonical, Geis, CanonAt
<1> QED BY <1>3, <1>6, <1>7 DEF IInv

\* A batch handed to the socket keeps Go's inbox canonical.
LEMMA DeliverCanonical ==
    ASSUME IInv, NEW blocks, Canonical(blocks), Deliver(blocks)
    PROVE  Canonical(inbox')
<1>1. Canonical([g \in {h \in DOMAIN blocks : h > GoGei} |-> blocks[g]])
  BY RestrictCanonical
<1> QED BY <1>1, OverCanonical DEF Deliver, IInv

\* A step that leaves Go's log and the node's variables alone, and the three maps
\* canonical, keeps the invariant.
LEMMA ClientKeeps ==
    ASSUME IInv, NodeUnchanged, UNCHANGED go_log, DOMAIN batch' = Flushers,
           Canonical(send_buffer'), Canonical(inbox'),
           \A t \in Flushers : Canonical(batch'[t])
    PROVE  IInv'
BY DEF IInv, Canonical, Geis, CanonAt, NodeUnchanged, sendVars, procVars, streamVars, bootVars

\* The steps of flush_buffer keep the invariant.
LEMMA FlushKeeps ==
    ASSUME IInv, NodeUnchanged, NEW t \in Flushers,
           FlushStep(t) \/ WriteFails(t) \/ ConnectionClosed(t) \/ FlushCall(t)
    PROVE  IInv'
<1> USE DEF bufVars, flushVars, initVars, goVars
<1>1. DOMAIN batch = Flushers /\ Canonical(batch[t]) /\ Canonical(send_buffer)
      /\ Canonical(inbox) /\ \A u \in Flushers : Canonical(batch[u])
  BY DEF IInv
<1>2. CASE CheckTake(t) \/ CheckGap(t) \/ GapRpc(t) \/ SyncTake(t) \/ CollectTake(t)
           \/ MoreTake(t) \/ HasMore(t) \/ FlushCall(t)
  <2>1. UNCHANGED <<send_buffer, inbox, batch, go_log>>
    BY <1>2 DEF CheckTake, CheckGap, GapRpc, SyncTake, CollectTake, MoreTake, HasMore,
                FlushCall, Take
  <2> QED BY <1>1, <2>1, ClientKeeps
<1>3. CASE SyncWithGo(t)
  <2>1. UNCHANGED <<inbox, batch, go_log>>
    BY <1>3 DEF SyncWithGo
  <2>2. Canonical(send_buffer')
    BY <1>1, <1>3, WithoutCanonical DEF SyncWithGo
  <2> QED BY <1>1, <2>1, <2>2, ClientKeeps
<1>4. CASE Collect(t)
  <2>1. UNCHANGED <<inbox, go_log>> /\ batch' = [batch EXCEPT ![t] = [g \in Run |-> send_buffer[g]]]
        /\ send_buffer' = Without(send_buffer, Run)
    BY <1>4 DEF Collect
  <2>2. Canonical([g \in Run |-> send_buffer[g]])
    BY <1>1, RestrictCanonical DEF Run
  <2>3. DOMAIN batch' = Flushers /\ \A u \in Flushers : Canonical(batch'[u])
    BY <1>1, <2>1, <2>2
  <2> QED BY <1>1, <2>1, <2>3, WithoutCanonical, ClientKeeps
<1>5. CASE Write(t)
  <2>1. Deliver(batch[t]) /\ UNCHANGED <<send_buffer, batch, go_log>>
    BY <1>5 DEF Write
  <2>2. Canonical(inbox')
    BY <1>1, <2>1, DeliverCanonical
  <2> QED BY <1>1, <2>1, <2>2, ClientKeeps
<1>6. CASE Store(t) \/ ConnectionClosed(t)
  <2>1. UNCHANGED <<inbox, go_log>> /\ batch' = [batch EXCEPT ![t] = Empty]
        /\ send_buffer' \in {send_buffer, Over(send_buffer, batch[t])}
    BY <1>6 DEF Store, ConnectionClosed
  <2>2. DOMAIN batch' = Flushers /\ \A u \in Flushers : Canonical(batch'[u])
    BY <1>1, <2>1, EmptyCanonical
  <2>3. Canonical(send_buffer')
    BY <1>1, <2>1, OverCanonical
  <2> QED BY <1>1, <2>1, <2>2, <2>3, ClientKeeps
<1>7. CASE WriteFails(t)
  <2>1. UNCHANGED go_log /\ batch' = [batch EXCEPT ![t] = Empty]
        /\ send_buffer' = Over(send_buffer, batch[t])
    BY <1>7 DEF WriteFails
  <2>2. DOMAIN batch' = Flushers /\ \A u \in Flushers : Canonical(batch'[u])
    BY <1>1, <2>1, EmptyCanonical
  <2>3. PICK g \in DOMAIN batch[t] :
           Deliver([h \in {x \in DOMAIN batch[t] : x < g} |-> batch[t][h]])
    BY <1>7 DEF WriteFails
  <2>4. Canonical([h \in {x \in DOMAIN batch[t] : x < g} |-> batch[t][h]])
    BY <1>1, RestrictCanonical
  <2>5. Canonical(inbox')
    BY <2>3, <2>4, DeliverCanonical
  <2> QED BY <1>1, <2>1, <2>2, <2>5, OverCanonical, ClientKeeps
<1> QED BY <1>2, <1>3, <1>4, <1>5, <1>6, <1>7 DEF FlushStep

\* initialize_from_go only ever removes blocks.
LEMMA InitKeeps ==
    ASSUME IInv, NodeUnchanged, InitStep
    PROVE  IInv'
<1>1. UNCHANGED <<inbox, batch, go_log>>
  BY DEF InitStep, InitQuery, InitCompare, InitOverwrite, InitRetain, flushVars, goVars, bufVars
<1>2. send_buffer' = send_buffer
      \/ send_buffer' = Without(send_buffer, {g \in DOMAIN send_buffer : g <= init_read})
  BY DEF InitStep, InitQuery, InitCompare, InitOverwrite, InitRetain, bufVars
<1>3. Canonical(send_buffer')
  BY <1>2, WithoutCanonical DEF IInv
<1> QED BY <1>1, <1>3, ClientKeeps DEF IInv

\* A step of the sending task that leaves the three maps and Go alone keeps the
\* invariant when it keeps what the invariant says of the task itself.
LEMMA SenderKeeps ==
    ASSUME IInv, UNCHANGED <<send_buffer, inbox, batch, go_log>>,
           decided' \in 0 .. N, channel' \subseteq 1 .. N, pending' \subseteq 1 .. N,
           next_index' \in Nat \ {0}, offset' = 0, frag' = 1, gei' \in Nat,
           ppc' \in {"guard", "send", "buffer", "flushing"} =>
               commit' \in 1 .. N /\ gei' = Base + commit'
    PROVE  IInv'
BY DEF IInv, Canonical, Geis, CanonAt

\* Finishing a commit that took one GEI leaves the offset at zero.
LEMMA FinishOne ==
    ASSUME IInv, Finish(1)
    PROVE  /\ next_index' \in Nat \ {0} /\ offset' = 0 /\ gei' \in Nat
           /\ ppc' \in {"scan", "halted", "next"}
BY DEF IInv, Finish

\* Steps of the sending task that only move it along.
LEMMA SenderMoves ==
    ASSUME PlainEpoch, IInv,
           Receive \/ Guard \/ SendCommittedSubdag \/ BufferRejects \/ FlushReturned
           \/ DrainPending \/ RecoveryScan \/ LeaderUnresolved \/ Decide
    PROVE  IInv'
<1> USE DEF clientVars, bufVars, flushVars, initVars, goVars, sendVars, procVars, sharedVars,
            bootVars, streamVars
<1>1. Base \in Nat /\ N \in Nat /\ offset = 0 /\ frag = 1 /\ gei \in Nat /\ decided \in 0 .. N
      /\ channel \subseteq 1 .. N /\ pending \subseteq 1 .. N /\ next_index \in Nat \ {0}
      /\ (ppc \in {"guard", "send", "buffer", "flushing"} =>
             commit \in 1 .. N /\ gei = Base + commit)
  BY ClientAssumption, ProcessorAssumption DEF IInv
<1>2. UNCHANGED <<send_buffer, inbox, batch, go_log>>
  BY DEF Receive, Guard, SendCommittedSubdag, BufferRejects, FlushReturned, DrainPending,
         RecoveryScan, LeaderUnresolved, Decide
<1>3. CASE Receive
  <2>1. PICK c \in channel :
          /\ channel' = channel \ {c}
          /\ LET expect == IF next_index = 1 /\ c > 1 THEN c ELSE next_index
             IN  /\ next_index' = expect
                 /\ IF c = expect
                      THEN /\ ppc' = "guard" /\ commit' = c
                           /\ gei' = calculate_global_exec_index(c)
                           /\ UNCHANGED pending
                      ELSE /\ pending' = IF c > expect THEN pending \cup {c} ELSE pending
                           /\ UNCHANGED <<ppc, commit, gei>>
    BY <1>3 DEF Receive
  <2>2. UNCHANGED <<frag, offset, decided>> /\ ppc = "recv"
    BY <1>3 DEF Receive
  <2>3. c \in 1 .. N /\ c \in Nat \ {0}
    BY <1>1
  <2>4. channel' \subseteq 1 .. N /\ next_index' \in Nat \ {0} /\ pending' \subseteq 1 .. N
    BY <1>1, <2>1, <2>3
  <2>5. gei' \in Nat /\ (ppc' \in {"guard", "send", "buffer", "flushing"} =>
             commit' \in 1 .. N /\ gei' = Base + commit')
    BY <1>1, <2>1, <2>2, <2>3 DEF calculate_global_exec_index
  <2> QED BY <1>1, <1>2, <2>2, <2>4, <2>5, SenderKeeps
<1>4. CASE Guard
  <2>1. UNCHANGED <<commit, frag, pending, decided, channel>> /\ ppc = "guard"
        /\ (Finish(1) \/ (ppc' = "send" /\ UNCHANGED <<gei, next_index, offset>>))
    BY <1>4 DEF Guard
  <2> QED BY <1>1, <1>2, <2>1, FinishOne, SenderKeeps
<1>5. CASE SendCommittedSubdag
  <2>1. UNCHANGED <<commit, pending, decided, channel>> /\ ppc = "send" /\ frag' = 1
        /\ (Finish(1) \/ (ppc' = "buffer" /\ UNCHANGED <<gei, next_index, offset>>))
    BY <1>5 DEF SendCommittedSubdag, FinishSent
  <2> QED BY <1>1, <1>2, <2>1, FinishOne, SenderKeeps
<1>6. CASE BufferRejects
  <2>1. UNCHANGED <<commit, frag, pending, decided, channel>> /\ ppc = "buffer"
        /\ (Finish(1) \/ (ppc' \in {"dead", "send"} /\ UNCHANGED <<gei, next_index, offset>>))
    BY <1>6 DEF BufferRejects
  <2> QED BY <1>1, <1>2, <2>1, FinishOne, SenderKeeps
<1>7. CASE FlushReturned
  <2>1. UNCHANGED <<commit, pending, decided, channel>> /\ ppc = "flushing"
    BY <1>7 DEF FlushReturned
  <2>2. Frags[commit] = 1
    BY <1>1, <2>1 DEF PlainEpoch
  <2>3. Finish(1) /\ UNCHANGED frag
    BY <1>1, <1>7, <2>2 DEF FlushReturned, FinishSent
  <2> QED BY <1>1, <1>2, <2>1, <2>3, FinishOne, SenderKeeps
<1>8. CASE DrainPending
  <2>1. UNCHANGED <<frag, next_index, offset, decided, channel>> /\ ppc = "next"
    BY <1>8 DEF DrainPending
  <2>2. pending' \subseteq 1 .. N /\ gei' \in Nat
        /\ (ppc' \in {"guard", "send", "buffer", "flushing"} =>
               commit' \in 1 .. N /\ gei' = Base + commit')
    <3>1. CASE next_index \in pending
      <4>1. /\ pending' = pending \ {next_index} /\ commit' = next_index
            /\ gei' = Base + next_index + offset
        BY <1>8, <3>1 DEF DrainPending, calculate_global_exec_index
      <4> QED BY <1>1, <3>1, <4>1
    <3>2. CASE next_index \notin pending
      <4>1. ppc' = "recv" /\ UNCHANGED <<pending, gei>>
        BY <1>8, <3>2 DEF DrainPending
      <4> QED BY <1>1, <4>1
    <3> QED BY <3>1, <3>2
  <2> QED BY <1>1, <1>2, <2>1, <2>2, SenderKeeps
<1>9. CASE RecoveryScan
  <2>1. UNCHANGED <<gei, frag, offset, pending, decided, channel>>
        /\ next_index <= decided /\ commit' = next_index /\ next_index' \in Nat \ {0}
        /\ (ppc' = "send" => Base + next_index = gei) /\ ppc' \in {"scan", "dead", "send"}
    BY <1>1, <1>9 DEF RecoveryScan
  <2> QED BY <1>1, <1>2, <2>1, SenderKeeps
<1>10. CASE LeaderUnresolved
  BY <1>1, <1>2, <1>10, SenderKeeps DEF LeaderUnresolved
<1>11. CASE Decide
  <2>1. decided' \in 0 .. N /\ channel' \subseteq 1 .. N
    BY <1>1, <1>11 DEF Decide
  <2>2. UNCHANGED <<pending, next_index, offset, frag, gei, ppc, commit>>
    BY <1>11 DEF Decide
  <2> QED BY <1>1, <1>2, <2>1, <2>2, SenderKeeps
<1> QED BY <1>3, <1>4, <1>5, <1>6, <1>7, <1>8, <1>9, <1>10, <1>11

\* The block the sender buffers is the chain's block for the GEI it is keyed by.
LEMMA BufferKeeps ==
    ASSUME PlainEpoch, IInv, BufferFragment
    PROVE  IInv'
<1> USE DEF goVars, procVars, streamVars
<1>1. ppc = "buffer" /\ ppc' = "flushing"
      /\ UNCHANGED <<batch, inbox, go_log, commit, gei, frag, next_index, offset, pending,
                     decided, channel>>
  BY DEF BufferFragment
<1>2. Base \in Nat /\ N \in Nat /\ commit \in 1 .. N /\ gei = Base + commit /\ frag = 1
  BY <1>1, ClientAssumption, ProcessorAssumption DEF IInv
<1>3. gei + frag - 1 = Base + commit
  BY <1>2
<1>4. BufferAndFlush(Base + commit, <<commit, 1>>)
  BY <1>2, <1>3 DEF BufferFragment
<1>5. Canonical([g \in {Base + commit} |-> <<commit, 1>>])
  BY <1>2, PlainChain DEF Canonical
<1>6. send_buffer' \in {send_buffer, Over(send_buffer, [g \in {Base + commit} |-> <<commit, 1>>])}
  BY <1>4 DEF BufferAndFlush
<1>7. Canonical(send_buffer')
  BY <1>5, <1>6, OverCanonical DEF IInv
<1>8. Canonical(send_buffer)'
  BY <1>7 DEF Canonical, Geis, CanonAt
<1>9. Canonical(inbox)' /\ \A t \in Flushers : Canonical(batch[t])'
  BY <1>1 DEF IInv, Canonical, Geis, CanonAt
<1> QED BY <1>1, <1>2, <1>8, <1>9 DEF IInv

\* A new client holds no block, so nothing about blocks can break.
LEMMA NewClientCanonical ==
    ASSUME NEW next, NEW ipc, NewClient(next, ipc)
    PROVE  Canonical(send_buffer)' /\ DOMAIN batch' = Flushers
           /\ \A t \in Flushers : Canonical(batch[t])'
BY DEF NewClient, Canonical, Empty

\* A crash, and the start of the processor after the recovery.
LEMMA RestartKeeps ==
    ASSUME IInv, Crash \/ StartProcessor
    PROVE  IInv'
<1> USE DEF goVars
<1>1. Base \in Nat /\ N \in Nat /\ Len(go_log) \in Nat /\ GoGei \in Nat
  BY ClientAssumption, ProcessorAssumption DEF IInv, GoGei
<1>2. UNCHANGED <<inbox, go_log, decided>>
  BY DEF Crash, StartProcessor
<1>3. Canonical(send_buffer)' /\ DOMAIN batch' = Flushers
      /\ \A t \in Flushers : Canonical(batch[t])'
  BY NewClientCanonical DEF Crash, StartProcessor
<1>4. Canonical(inbox)'
  BY <1>2 DEF IInv, Canonical, Geis, CanonAt
<1>5. CASE Crash
  <2>1. ppc' = "scan" /\ channel' = {} /\ pending' = {} /\ offset' = 0 /\ frag' = 1
    BY <1>5 DEF Crash
  <2>2. PICK go \in {GoGei} \cup {0} :
           gei' = go + 1
           /\ next_index' = IF go > 0 /\ go >= Base THEN go + 1 - Base ELSE decided + 1
    BY <1>5 DEF Crash
  <2>3. gei' \in Nat /\ next_index' \in Nat \ {0}
    BY <1>1, <2>2 DEF IInv
  <2> QED BY <1>2, <1>3, <1>4, <2>1, <2>3 DEF IInv
<1>6. CASE StartProcessor
  <2>1. ppc' = "recv" /\ channel' = 1 .. decided /\ next_index' = 1
        /\ UNCHANGED <<pending, offset, frag, gei>>
    BY <1>6 DEF StartProcessor
  <2>2. channel' \subseteq 1 .. N
    BY <1>1, <2>1 DEF IInv
  <2> QED BY <1>2, <1>3, <1>4, <2>1, <2>2 DEF IInv
<1> QED BY <1>5, <1>6

\* The callback tasks and the epoch transition touch nothing of the invariant.
LEMMA SharedKeeps ==
    ASSUME IInv, CallbackWrites \/ TransitionStep \/ UNCHANGED vars
    PROVE  IInv'
<1>1. UNCHANGED <<send_buffer, inbox, batch, go_log, decided, channel, pending, next_index,
                  offset, frag, gei, ppc, commit>>
  BY DEF CallbackWrites, TransitionStep, TransitionReads, TransitionSwitches, vars, clientVars,
         bufVars, flushVars, goVars, sendVars, procVars, streamVars
<1> QED BY <1>1 DEF IInv, Canonical, Geis, CanonAt

\* The initial state satisfies the invariant.
LEMMA InitIInv ==
    ASSUME Init
    PROVE  IInv
BY ClientAssumption, ProcessorAssumption, CanonAssumption
   DEF Init, ClientInit, IInv, Canonical, Empty

\* Every step of the system keeps the invariant.
LEMMA NextIInv ==
    ASSUME PlainEpoch, IInv, [Next]_vars
    PROVE  IInv'
<1>1. CASE Decide \/ LeaderUnresolved
  BY <1>1, SenderMoves
<1>2. CASE SenderStep
  BY <1>2, SenderMoves, BufferKeeps, RestartKeeps DEF SenderStep
<1>3. CASE Crash
  BY <1>3, RestartKeeps
<1>4. CASE CallbackWrites \/ TransitionStep \/ UNCHANGED vars
  BY <1>4, SharedKeeps
<1>5. CASE Client
  BY <1>5, FlushKeeps, InitKeeps, GoStep DEF Client, ClientStep, OtherFlush
<1> QED BY <1>1, <1>2, <1>3, <1>4, <1>5 DEF Next

\* The invariant holds throughout every behaviour of a plain epoch.
THEOREM Inductive ==
    ASSUME PlainEpoch
    PROVE  Spec => []IInv
<1>1. Init => IInv
  BY InitIInv
<1>2. IInv /\ [Next]_vars => IInv'
  BY NextIInv
<1> QED BY <1>1, <1>2, PTL DEF Spec

\* In a plain epoch every node gives a commit the same GEI, however commits are
\* reordered, replayed, skipped or put off (CommitProcessor::run, process_commit).
THEOREM PlainGeiDeterministic ==
    ASSUME PlainEpoch
    PROVE  Spec => []GeiDeterministic
<1>1. IInv => GeiDeterministic
  <2> SUFFICES ASSUME IInv, ppc \in {"guard", "send", "buffer", "flushing"}
               PROVE  gei = ReferenceGei(commit)
    BY DEF GeiDeterministic
  <2>1. commit \in 1 .. N /\ gei = Base + commit /\ N \in Nat /\ Base \in Nat
    BY ClientAssumption, ProcessorAssumption DEF IInv
  <2>2. Extra[commit - 1] = 0
    BY <2>1 DEF PlainEpoch
  <2> QED BY <2>1, <2>2 DEF ReferenceGei
<1> QED BY <1>1, Inductive, PTL

\* In a plain epoch the startup recovery replays a commit under the GEI it has on
\* every other node (perform_block_recovery_check).
THEOREM PlainRecoveryMatchesLive ==
    ASSUME PlainEpoch
    PROVE  Spec => []RecoveryMatchesLive
<1>1. IInv => RecoveryMatchesLive
  <2> SUFFICES ASSUME IInv, ppc \in {"send", "buffer", "flushing"}
               PROVE  gei = ReferenceGei(commit)
    BY DEF RecoveryMatchesLive
  <2>1. commit \in 1 .. N /\ gei = Base + commit /\ N \in Nat /\ Base \in Nat
    BY ClientAssumption, ProcessorAssumption DEF IInv
  <2>2. Extra[commit - 1] = 0
    BY <2>1 DEF PlainEpoch
  <2> QED BY <2>1, <2>2 DEF ReferenceGei
<1> QED BY <1>1, Inductive, PTL

\* In a plain epoch no block travels under another block's GEI: in the buffer, in
\* a flusher's batch, in Go's inbox (send_committed_subdag, flush_buffer).
THEOREM PlainBlocksKeepTheirGei ==
    ASSUME PlainEpoch
    PROVE  Spec => []BlocksKeepTheirGei
<1>1. IInv => BlocksKeepTheirGei
  BY DEF IInv, Canonical, BlocksKeepTheirGei
<1> QED BY <1>1, Inductive, PTL

\* In a plain epoch the whole path implements ordered execution: whatever fails,
\* races, crashes or is replayed, Go executes the chain's blocks once, in order.
THEOREM PlainExecutesInOrder ==
    ASSUME PlainEpoch
    PROVE  Spec => ExecutesInOrder
<1>1. Init => OE!Init
  BY DEF Init, ClientInit, OE!Init
<1>2. IInv /\ [Next]_vars => [OE!Execute]_go_log
  <2> SUFFICES ASSUME IInv, [Next]_vars, go_log' # go_log
               PROVE  OE!Execute
    OBVIOUS
  <2> USE DEF clientVars, goVars
  <2>1. ~(Decide \/ LeaderUnresolved \/ Crash \/ CallbackWrites \/ TransitionStep)
    BY DEF Decide, LeaderUnresolved, Crash, CallbackWrites, TransitionStep, TransitionReads,
           TransitionSwitches
  <2>2. ~SenderStep
    BY DEF SenderStep, Receive, Guard, SendCommittedSubdag, BufferFragment, BufferRejects,
           FlushReturned, DrainPending, RecoveryScan, StartProcessor
  <2>3. Client
    BY <2>1, <2>2 DEF Next, vars
  <2>4. ~InitStep
    BY DEF InitStep, InitQuery, InitCompare, InitOverwrite, InitRetain
  <2>5. ASSUME NEW t \in Flushers
        PROVE  ~(FlushStep(t) \/ WriteFails(t) \/ ConnectionClosed(t) \/ FlushCall(t))
    BY DEF FlushStep, CheckTake, CheckGap, GapRpc, SyncTake, SyncWithGo, CollectTake, Collect,
           Write, Store, MoreTake, HasMore, WriteFails, ConnectionClosed, FlushCall, Take
  <2>6. GoExecute \/ GoPeerSync
    BY <2>3, <2>4, <2>5 DEF Client, ClientStep, OtherFlush
  <2>7. Len(go_log) < Len(Canon) /\ go_log' = Append(go_log, Canon[Len(go_log) + 1])
    BY <2>6, NextBlock DEF GoExecute, GoPeerSync
  <2> QED BY <2>7 DEF OE!Execute
<1> QED BY <1>1, <1>2, Inductive, PTL DEF Spec, ExecutesInOrder, OE!Spec

====
