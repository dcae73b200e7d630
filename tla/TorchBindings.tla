--------------------------- MODULE TorchBindings ---------------------------
(***************************************************************************)
(* The PyTorch bindings (cuda/torch_bindings.cpp): contexts that belong to *)
(* a thread and are found through thread-local handles, the registry that  *)
(* names them all, calls on device tensors and on host memory, the end of  *)
(* threads, and close(). Two threads, the caller and an autograd worker,   *)
(* use one stream, which the application may capture and replay.           *)
(*                                                                         *)
(* Tensors of a device call come from PyTorch's caching allocator: they go *)
(* back in stream order, after the kernel with which the application       *)
(* consumes the results. Temporaries of a call on host memory go at once.  *)
(***************************************************************************)
EXTENDS CudaContext

CONSTANT
  Applications  \* what each thread does, in order: functions from threads to sequences

VARIABLES
  script,       \* what each thread still does
  handle,       \* thread-local handles: the context of device and of host calls
  registry,     \* the contexts registered
  calls,        \* number of calls begun, which names them
  ended         \* threads whose thread-local storage has been destroyed

bindingVars == <<script, handle, registry, calls, ended>>
vars == <<streamVars, contextVars, bindingVars>>

Absent == 0
Null == MaxContexts + 1
Keys == BOOLEAN      \* host_memory

-----------------------------------------------------------------------------
(* The operations: the tensors a call allocates, its program, its results. *)
Operation(alg, tensors, body, results) ==
  [do |-> "call", algorithm |-> alg, host |-> FALSE, tensors |-> tensors, body |-> body,
   results |-> results]
OnHost(o) == [o EXCEPT !.host = TRUE, !.tensors = <<"in">> \o o.tensors]
In == Named("in", "prior")
Done(name) == Named(name, "done")
OneKernel == Operation("AUTO", <<"out">>, <<Kernel({In}, {Done("out")})>>, {Done("out")})

\* An empty result is nobody's to read.
matmul(alg, type, m, n, k, beta) ==
  Operation(alg, <<"out">>, <<Product(type, "N", "N", n, m, k, In, In, Done("out"), beta)>>,
            IF m = 0 \/ n = 0 THEN {} ELSE {Done("out")})
Gram(alg, type, n, k) ==
  Operation(alg, <<"out">>, <<Product(type, "N", "T", n, n, k, In, In, Done("out"), FALSE)>>,
            {Done("out")})
Gemv(type, n, k) ==
  Operation("AUTO", <<"out">>, <<Product(type, "T", "N", n, 1, k, In, In, Done("out"), FALSE)>>,
            {Done("out")})

\* MatmulAutograd.backward, for the gradients that are needed.
matmul_backward(alg, type, m, n, k, needed) ==
  Operation(alg, SetToSeq(needed),
    (IF "da" \in needed
     THEN <<Product(type, "T", "N", k, m, n, In, In, Done("da"), FALSE)>> ELSE <<>>)
    \o (IF "db" \in needed
        THEN <<Product(type, "N", "T", n, k, m, In, In, Done("db"), FALSE)>> ELSE <<>>),
    {Done(name) : name \in needed})

\* linear_public: the bias is added by PyTorch; the three projections of qkv_linear.
Linear(type, rows, width, k, bias) ==
  Product(type, "T", "N", width, rows, k, In, In, Named("out", IF bias THEN "product" ELSE "done"),
          FALSE)
linear_public(alg, type, rows, width, k, bias) ==
  Operation(alg, <<"out">>,
    <<Linear(type, rows, width, k, bias)>>
    \o (IF bias THEN <<Kernel({Named("out", "product")}, {Done("out")})>> ELSE <<>>),
    {Done("out")})
qkv_linear_public(alg, type, rows, width, k) ==
  Operation(alg, <<"q", "k", "v">>,
    [i \in 1..3 |-> Product(type, "T", "N", width, rows, k, In, In,
                            Done(<<"q", "k", "v">>[i]), FALSE)],
    {Done("q"), Done("k"), Done("v")})

\* silu_multiply writes its result over the gate.
gated_mlp_public(alg, type, rows, width, k) ==
  Operation(alg, <<"gate", "up", "out">>,
    <<Product(type, "T", "N", width, rows, k, In, In, Named("gate", "product"), FALSE),
      Product(type, "T", "N", width, rows, k, In, In, Done("up"), FALSE),
      Kernel({Named("gate", "product"), Done("up")}, {Done("gate")}),
      Product(type, "T", "N", k, rows, width, In, Done("gate"), Done("out"), FALSE)>>,
    {Done("out")})

\* Operations of one kernel, and those of several through tensors of their own.
silu_multiply_public == OneKernel
swiglu_public == OneKernel
quantized_matmul_public == OneKernel
reduce_groups_public == OneKernel
fp8_product_public(split) ==
  IF split
  THEN Operation("AUTO", <<"workspace", "out">>,
         <<Kernel({In}, {Done("workspace")}), Kernel({Done("workspace")}, {Done("out")})>>,
         {Done("out")})
  ELSE OneKernel
QuantizedGroups_matmul ==
  Operation("AUTO", <<"out">>,
    <<Kernel({}, {Named("out", "zero")}), Kernel({In, Named("out", "zero")}, {Done("out")})>>,
    {Done("out")})
route_groups_public ==
  Operation("AUTO", <<"counts", "slots", "reverse">>,
    <<Kernel({}, {Named("counts", "zero")}), Kernel({}, {Named("slots", "unassigned")}),
      Kernel({}, {Named("reverse", "unassigned")}),
      Kernel({In, Named("counts", "zero"), Named("slots", "unassigned"),
              Named("reverse", "unassigned")},
             {Done("counts"), Done("slots"), Done("reverse")})>>,
    {Done("counts"), Done("slots"), Done("reverse")})
rms_norm_public(bfloat16) ==
  IF bfloat16
  THEN Operation("AUTO", <<"squares", "means", "out">>,
         <<Kernel({In}, {Done("squares")}), Kernel({Done("squares")}, {Done("means")}),
           Kernel({In, Done("means")}, {Done("out")})>>, {Done("out")})
  ELSE OneKernel
add_rms_norm_public ==
  Operation("AUTO", <<"added", "out">>, <<Kernel({In}, {Done("added"), Done("out")})>>,
            {Done("added"), Done("out")})

Affine(alg, type, columns, rows, k, x, relu, c) ==
  affine(Product(type, "N", "N", columns, rows, k, In, x, c, FALSE), relu, alg)
affine_public(alg, type, rows, k, columns, relu) ==
  Operation(alg, <<"out">>, Affine(alg, type, columns, rows, k, In, relu, Done("out")),
            {Done("out")})
mlp(alg, type, rows, inputs, hidden, outputs) ==
  Operation(alg, <<"h", "out">>,
    Affine(alg, type, hidden, rows, inputs, In, TRUE, Done("h"))
    \o Affine(alg, type, outputs, rows, hidden, Done("h"), FALSE, Done("out")),
    {Done("out"), Done("h")})

attention_public(alg, type, queries, keys, depth, values, short) ==
  Operation(alg, <<"out">>, attention(type, queries, keys, depth, values, short), {Done("out")})

\* The gradients of mlp that are needed; dh is a temporary.
mlp_backward_tensors(alg, type, rows, inputs, hidden, outputs, needed) ==
  Operation(alg,
    (IF needed \cap {"dx", "dw1", "db1"} # {} THEN <<"dh">> ELSE <<>>) \o SetToSeq(needed),
    mlp_backward(type, rows, inputs, hidden, outputs, needed),
    {Done(name) : name \in needed})

\* Statistics only need the context.
stats == Operation("AUTO", <<>>, <<>>, {})

\* The same on host memory, on a context of its own.
matmul_host(type, m, n, k, beta) == OnHost(matmul("AUTO", type, m, n, k, beta))
mlp_host(type, rows, inputs, hidden, outputs) ==
  OnHost(mlp("AUTO", type, rows, inputs, hidden, outputs))
attention_host(type, queries, keys, depth, values) ==
  OnHost(attention_public("AUTO", type, queries, keys, depth, values, FALSE))

-----------------------------------------------------------------------------
(* What an application is: every call is an operation like those above, and *)
(* the other turns are those of the graph and close().                      *)
IsProgram(program, Is(_)) ==
  program \in Seq(Range(program)) /\ \A i \in Range(program) : Is(i)
IsStep(i) ==
  \/ i.do = "launch" /\ i = [Kernel(i.reads, i.writes) EXCEPT !.blas = i.blas]
  \/ i.do = "gemm"
IsProduct(i) ==
  \/ IsStep(i)
  \/ /\ i.do = "lt" /\ i = Lt(i.g, i.epilogue, i.then, i.unsupported)
     /\ IsProgram(i.then, IsStep) /\ IsProgram(i.unsupported, IsStep)
Arenas == {"arena", "scores", "partial"}
IsBody(i) ==
  \/ IsProduct(i)
  \/ /\ i.do = "reserve" /\ i = Reserve(i.size, i.into, i.then, Fail)
     /\ i.into \in Arenas /\ IsProgram(i.then, IsProduct)
IsTurn(turn) ==
  \/ turn.do \in {"begin capture", "end capture", "replay", "destroy graph", "close"}
  \/ /\ turn.do = "call" /\ turn.host \in BOOLEAN /\ IsProgram(turn.body, IsBody)
     /\ IsProgram(turn.tensors, LAMBDA name : name \notin Arenas)

ASSUME ApplicationsAssumption ==
  \A application \in Applications :
    /\ DOMAIN application = Threads
    /\ \A t \in Threads : IsProgram(application[t], IsTurn)

-----------------------------------------------------------------------------
Init ==
  /\ StreamInit
  /\ context = [c \in Contexts |-> Unused]
  /\ call = [t \in Threads |-> Idle]
  /\ faults = 0
  /\ script \in Applications
  /\ handle = [t \in Threads |-> [host \in Keys |-> Absent]]
  /\ registry = {} /\ calls = 0 /\ ended = {}

InCall(t) == call[t].id # 0
Resting(t) == call[t].todo = <<>>
Quiet == \A t \in Threads : ~InCall(t)
Closing(t) == \E i \in DOMAIN call[t].todo : call[t].todo[i].do = "clear"

\* What a thread does next: a call, a step with the graph, or close().
Does(t, what) ==
  Resting(t) /\ t \notin ended /\ script[t] # <<>> /\ Head(script[t]).do = what
Turn(t) == script' = [script EXCEPT ![t] = Tail(@)]

NextCall(t) == Head(script[t])
MyHandle(t) == handle[t][NextCall(t).host]
HasContext(t) == MyHandle(t) \notin {Absent, Null}
MayCall(t) == Does(t, "call") /\ ~ \E u \in Threads : Closing(u)

\* The tensors of a call: fresh blocks that hold what the caller, or nobody, put there.
Tensors(t, blocks) ==
  [name \in Range(NextCall(t).tensors) |->
     Nth(blocks, CHOOSE i \in DOMAIN NextCall(t).tensors : NextCall(t).tensors[i] = name)]
Entered(t, c, tensors) ==
  [todo |-> NextCall(t).body \o HostCompletion(NextCall(t).host)
            \o <<[do |-> "return", reads |-> NextCall(t).results]>>,
   id |-> calls + 1, context |-> c, pointer |-> tensors, host |-> NextCall(t).host]
Enter(t, c) ==
  LET tensors == Tensors(t, Free(Held))
  IN /\ Room(Len(NextCall(t).tensors))
     /\ call' = [call EXCEPT ![t] = Entered(t, c, tensors)]
     /\ allocated' = allocated \cup Range(tensors)
     /\ memory' = [b \in Blocks |->
          IF b \in Range(tensors)
          THEN LET name == CHOOSE n \in DOMAIN tensors : tensors[n] = b
               IN {<<calls + 1, name, name, "prior">>}
          ELSE memory[b]]
     /\ calls' = calls + 1 /\ Turn(t)

\* Calls on host memory are refused during a capture.
Refused(t) == NextCall(t).host /\ Capturing

\* get_context finds the thread's handle and sets the algorithm of its context.
GetContext(t) ==
  /\ MayCall(t) /\ HasContext(t) /\ ~Refused(t)
  /\ Enter(t, MyHandle(t))
  /\ context' = [context EXCEPT ![MyHandle(t)].algorithm = NextCall(t).algorithm]
  /\ UNCHANGED <<queue, capture, graph, pool, faults, handle, registry, ended>>

\* Otherwise it makes one, which a capture does not allow.
CreateContext(t) ==
  /\ MayCall(t) /\ ~HasContext(t) /\ ~Capturing
  /\ camblas_cuda_create(NextCall(t).algorithm)
  /\ call' = [call EXCEPT ![t].todo = <<[do |-> "register", context |-> NewContext]>>,
                          ![t].id = calls + 1]
  /\ UNCHANGED <<memory, queue, graph, pool, faults, bindingVars>>

CreateFails(t) ==
  /\ MayCall(t) /\ ~HasContext(t) /\ ~Capturing /\ Faults
  /\ Turn(t)
  /\ UNCHANGED <<streamVars, context, call, handle, registry, calls, ended>>

RefuseCall(t) ==
  /\ MayCall(t) /\ Capturing /\ (NextCall(t).host \/ ~HasContext(t))
  /\ Turn(t)
  /\ UNCHANGED <<streamVars, contextVars, handle, registry, calls, ended>>

\* Handle::Handle: the registry learns of the context under its mutex.
Register(t) ==
  /\ At(t, "register")
  /\ Enter(t, Instruction(t).context)
  /\ registry' = registry \cup {Instruction(t).context}
  /\ handle' = [handle EXCEPT ![t][NextCall(t).host] = Instruction(t).context]
  /\ UNCHANGED <<queue, capture, graph, pool, context, faults, ended>>

RegisterFails(t) ==
  /\ At(t, "register") /\ Faults
  /\ call' = [call EXCEPT ![t] = [Idle EXCEPT !.todo =
                <<[do |-> "destroy", context |-> Instruction(t).context]>>]]
  /\ Turn(t)
  /\ UNCHANGED <<streamVars, context, handle, registry, calls, ended>>

\* The end of a call: the results are consumed, the tensors given back.
MyTensors(t) == Pointers(t) \cap (allocated \ UNION {Owned(context[c]) : c \in Contexts})
ReturnDevice(t) ==
  LET consume == Command(Resolved(t, Instruction(t).reads), {}, {},
                         IF Capturing THEN {} ELSE MyTensors(t))
  IN /\ At(t, "return") /\ ~call[t].host
     /\ Issue(consume)
     /\ pool' = IF Capturing THEN pool \cup MyTensors(t) ELSE pool
     /\ call' = [call EXCEPT ![t] = Idle]
     /\ UNCHANGED <<allocated, memory, capture, context, faults, bindingVars>>

ReturnHost(t) ==
  /\ At(t, "return") /\ call[t].host
  /\ allocated' = allocated \ MyTensors(t)
  /\ memory' = [b \in Blocks |-> IF b \in MyTensors(t) THEN {} ELSE memory[b]]
  /\ call' = [call EXCEPT ![t] = Idle]
  /\ UNCHANGED <<queue, capture, graph, pool, context, faults, bindingVars>>

-----------------------------------------------------------------------------
(* Destruction. Graphs are destroyed before their contexts, as the header *)
(* asks, so nothing here happens while one exists or is being captured.   *)
NoGraph == capture \in {"none", "destroyed"}

\* Thread-local storage goes at the end of a thread: each handle that still
\* has a context leaves the registry and then destroys the context.
EndThread(t) ==
  /\ Resting(t) /\ t \notin ended /\ script[t] = <<>> /\ NoGraph
  /\ \E host \in Keys : handle[t][host] # Absent
  /\ ended' = ended \cup {t}
  /\ call' = [call EXCEPT ![t].todo = <<[do |-> "erase", host |-> FALSE],
                                        [do |-> "erase", host |-> TRUE]>>]
  /\ UNCHANGED <<streamVars, context, faults, script, handle, registry, calls>>

\* ~Handle: returns if the handle has no context.
EraseHandle(t) ==
  /\ At(t, "erase")
  /\ IF handle[t][Instruction(t).host] \in {Absent, Null}
     THEN Continue(t, <<>>) /\ UNCHANGED registry
     ELSE /\ registry' = registry \ {handle[t][Instruction(t).host]}
          /\ Continue(t, <<[do |-> "destroy own", host |-> Instruction(t).host]>>)
  /\ UNCHANGED <<streamVars, context, faults, script, handle, calls, ended>>

\* The handle is read again, without the mutex.
DestroyOwn(t) ==
  /\ At(t, "destroy own")
  /\ Continue(t, IF handle[t][Instruction(t).host] = Null THEN <<>>
                 ELSE <<[do |-> "destroy", context |-> handle[t][Instruction(t).host]]>>)
  /\ handle' = [handle EXCEPT ![t][Instruction(t).host] = Absent]
  /\ UNCHANGED <<streamVars, context, faults, script, registry, calls, ended>>

\* camblas_cuda_destroy: wait for the stream, then release everything.
Destroy(t) ==
  /\ At(t, "destroy")
  /\ Continue(t, Wait \o <<[Instruction(t) EXCEPT !.do = "release"]>>)
  /\ UNCHANGED <<streamVars, context, faults, bindingVars>>

Release(t) ==
  /\ At(t, "release")
  /\ FreeContext(Instruction(t).context)
  /\ Continue(t, <<>>)
  /\ UNCHANGED <<queue, graph, pool, faults, bindingVars>>

\* close(): under the mutex every handle loses its context; then they are
\* destroyed. Python calls it while the callers are idle.
\* Mutant: close() does not tell the handles of other threads.
NulledOwn(owned) == handle
Nulled(owned) == [t \in Threads |-> [host \in Keys |->
                    IF handle[t][host] \in owned THEN Null ELSE handle[t][host]]]
CloseAll(t) ==
  /\ Does(t, "close") /\ NoGraph
  /\ \A u \in Threads : Resting(u) \/ u \in ended
  /\ handle' = Nulled(registry)
  /\ registry' = {}
  /\ call' = [call EXCEPT ![t].todo =
       SetToSeq({[do |-> "destroy", context |-> c] : c \in registry})
       \o <<[do |-> "clear"]>>]
  /\ Turn(t)
  /\ UNCHANGED <<streamVars, context, faults, calls, ended>>

ClearHandles(t) ==
  /\ At(t, "clear") /\ Continue(t, <<>>)
  /\ handle' = [handle EXCEPT ![t] = [host \in Keys |-> Absent]]
  /\ UNCHANGED <<streamVars, context, faults, script, registry, calls, ended>>

-----------------------------------------------------------------------------
(* The application captures one graph, when no thread is busy, replays it   *)
(* and drops it.                                                           *)
Application(t) ==
  /\ \/ Does(t, "begin capture") /\ (\A u \in Threads : Resting(u)) /\ BeginCapture
     \/ Does(t, "end capture") /\ Quiet /\ EndCapture
     \/ Does(t, "replay") /\ Replay
     \/ Does(t, "destroy graph") /\ DestroyGraph
  /\ Turn(t)
  /\ UNCHANGED <<contextVars, handle, registry, calls, ended>>

Device == DeviceStep /\ UNCHANGED <<contextVars, bindingVars>>

\* Nothing is left to do: every other state without a step is a deadlock.
Terminated ==
  /\ queue = <<>> /\ \A t \in Threads : Resting(t) /\ script[t] = <<>>
  /\ UNCHANGED vars

Next ==
  \/ Device \/ Terminated
  \/ \E t \in Threads :
       \/ ContextStep(t) /\ UNCHANGED bindingVars
       \/ Application(t)
       \/ GetContext(t) \/ CreateContext(t) \/ CreateFails(t) \/ RefuseCall(t)
       \/ Register(t) \/ RegisterFails(t) \/ ReturnDevice(t) \/ ReturnHost(t)
       \/ EndThread(t) \/ EraseHandle(t) \/ DestroyOwn(t) \/ Destroy(t) \/ Release(t)
       \/ CloseAll(t) \/ ClearHandles(t)

Spec == Init /\ [][Next]_vars

-----------------------------------------------------------------------------
(* Every kernel in the stream or in the graph uses memory that is still    *)
(* allocated; the next kernel to run, the host reading the range flag and  *)
(* the host reading the result of a call on its own memory find what the   *)
(* same call left there (reserve_scratch, get_plan, uses_scratch in gemm,  *)
(* the guard of the Strassen routes, HostCompletion).                      *)
OperandsFound ==
  /\ \A q \in Range(queue \o graph) : BlocksOf(q) \subseteq allocated
  /\ queue # <<>> => \A r \in Head(queue).reads : r[2] \in memory[r[1]]
  /\ \A t \in Threads :
       /\ At(t, "guard") =>
            <<call[t].id, "guard", "guard", "range">> \in memory[MyContext(t).guard]
            /\ <<call[t].id, "host_guard", "host_guard", "range">>
                 \in memory[MyContext(t).host_guard]
       /\ At(t, "return") /\ call[t].host =>
            \A r \in Resolved(t, Instruction(t).reads) : r[2] \in memory[r[1]]

(* No call breaks a capture in progress by synchronising, allocating or    *)
(* releasing memory (reserve_scratch, get_plan and the tuning of lt_gemm,  *)
(* the guarded Strassen routes, get_context, host_context).                *)
CaptureStaysLegal == capture # "invalid"

(* Contexts are registered while handles refer to them, are destroyed once *)
(* and never under a call, and every allocation has an owner that will     *)
(* release it (Handle, get_context, close_all, camblas_cuda_destroy).      *)
LiveContexts == {c \in Contexts : context[c].state = "live"}
DestroysOnce ==
  \A t \in Threads : At(t, "destroy") \/ At(t, "release")
                       => Instruction(t).context \in LiveContexts \ registry
Owners ==
  (UNION {Owned(context[c]) : c \in Contexts}) \cup Held
  \cup (UNION {q.frees : q \in Range(queue)}) \cup pool
HandlesLive ==
  /\ registry \subseteq LiveContexts
  /\ \A t \in Threads \ ended, host \in Keys :
       handle[t][host] \in registry \cup {Absent, Null}
  /\ \A t \in Threads : call[t].context # 0 => call[t].context \in LiveContexts
  /\ DestroysOnce
  /\ allocated \subseteq Owners
=============================================================================
