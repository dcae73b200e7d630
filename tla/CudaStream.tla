----------------------------- MODULE CudaStream -----------------------------
(***************************************************************************)
(* The CUDA runtime as the backend and the PyTorch bindings use it: device *)
(* memory, and one stream whose commands run in order while the host goes  *)
(* on. While the stream is captured its commands are recorded into a graph *)
(* that is replayed later. Nothing here is code of the library.            *)
(*                                                                         *)
(* A block of memory is the set of the facts its contents make true: the   *)
(* tags <<call, layout, region, value>>. Writing under one layout destroys *)
(* what other calls, or other layouts of the same call, had left.          *)
(***************************************************************************)
EXTENDS Naturals, Sequences, FiniteSets, SequencesExt

CONSTANTS
  Blocks,       \* device and page-locked allocations that can exist at once
  MaxQueue      \* commands the host may be ahead of the device

ASSUME StreamAssumption == Blocks \subseteq Nat \ {0} /\ MaxQueue \in Nat \ {0}

VARIABLES
  allocated,    \* the blocks that are allocated
  memory,       \* the tags true of each block
  queue,        \* commands of the stream that have not run
  capture,      \* "none", "active", "graph" (captured), "invalid" or "destroyed"
  graph,        \* the commands recorded
  pool          \* tensors allocated during the capture, which live with the graph

streamVars == <<allocated, memory, queue, capture, graph, pool>>

StreamInit ==
  /\ allocated = {} /\ memory = [b \in Blocks |-> {}] /\ queue = <<>>
  /\ capture = "none" /\ graph = <<>> /\ pool = {}

Capturing == capture = "active"

\* A command reads and writes tags, uses blocks whose contents do not matter,
\* and may return blocks to the allocator in stream order.
Command(reads, writes, uses, frees) ==
  [reads |-> reads, writes |-> writes, uses |-> uses, frees |-> frees, fence |-> ""]
Fence(t) == [Command({}, {}, {}, {}) EXCEPT !.fence = t]
BlocksOf(command) ==
  {x[1] : x \in command.reads \cup command.writes} \cup command.uses \cup command.frees

\* The i-th block that is neither allocated nor mentioned by what is pending.
Free(held) ==
  Blocks \ (allocated \cup held \cup UNION {BlocksOf(q) : q \in Range(queue \o graph)})
IsNth(b, blocks, i) == Cardinality({c \in blocks : c < b}) = i - 1
Nth(blocks, i) == CHOOSE b \in blocks : IsNth(b, blocks, i)

\* Issuing work: into the stream, or into the graph being captured. The host
\* waits while the stream is full.
Issue(command) ==
  /\ Capturing \/ Len(queue) < MaxQueue
  /\ queue' = IF Capturing THEN queue ELSE Append(queue, command)
  /\ graph' = IF Capturing THEN Append(graph, command) ELSE graph

\* A synchronisation, an allocation or a release breaks a capture in progress.
Disturbed == IF Capturing THEN "invalid" ELSE capture
Fenced(t) == \A i \in DOMAIN queue : queue[i].fence # t

Overwritten(tags, tag) ==
  {x \in tags : x[1] = tag[1] /\ x[2] = tag[2] /\ x[3] # tag[3]} \cup {tag}
Written(contents, writes) ==
  [b \in Blocks |-> IF \E x \in writes : x[1] = b
                    THEN Overwritten(contents[b], (CHOOSE x \in writes : x[1] = b)[2])
                    ELSE contents[b]]

\* The device runs the next command of the stream.
DeviceStep ==
  /\ queue # <<>>
  /\ queue' = Tail(queue)
  /\ memory' = [b \in Blocks |-> IF b \in Head(queue).frees THEN {}
                                 ELSE Written(memory, Head(queue).writes)[b]]
  /\ allocated' = allocated \ Head(queue).frees
  /\ UNCHANGED <<capture, graph, pool>>

\* The application captures one graph, replays it on this stream, drops it.
BeginCapture ==
  /\ capture = "none" /\ capture' = "active"
  /\ UNCHANGED <<allocated, memory, queue, graph, pool>>

EndCapture ==
  /\ Capturing /\ capture' = "graph"
  /\ UNCHANGED <<allocated, memory, queue, graph, pool>>

Replay ==
  /\ capture = "graph" /\ queue' = queue \o graph
  /\ UNCHANGED <<allocated, memory, capture, graph, pool>>

DestroyGraph ==
  /\ capture = "graph" /\ capture' = "destroyed"
  /\ queue' = IF pool = {} THEN queue ELSE Append(queue, Command({}, {}, {}, pool))
  /\ graph' = <<>> /\ pool' = {} /\ UNCHANGED <<allocated, memory>>
=============================================================================
