---------------------------- MODULE CudaContext ----------------------------
(***************************************************************************)
(* The contexts of the CUDA backend (cuda/backend.cu and the files it      *)
(* includes). A call is a program: the launches, reservations and waits    *)
(* its function makes, in order; the host executes one instruction at a    *)
(* time while the stream runs behind it. Every kernel is the tags it reads *)
(* and writes, so that a stale pointer, a missing launch or memory reused  *)
(* too early makes a kernel read something its own call did not leave.     *)
(*                                                                         *)
(* A datum <<name, layout, region, value>> becomes a tag when the launch   *)
(* resolves the name to the block the call's pointer holds by then.        *)
(***************************************************************************)
EXTENDS CudaStream, Integers

CONSTANTS
  Threads,      \* host threads that use the stream
  MaxContexts,  \* bound on the contexts ever created
  MaxFaults     \* bound on the failing CUDA calls and host allocations

ASSUME ContextAssumption == Threads # {} /\ MaxContexts \in Nat /\ MaxFaults \in Nat

VARIABLES
  context,      \* struct camblas_cuda_context of each context ever created
  call,         \* the call each thread is in
  faults        \* failures so far

contextVars == <<context, call, faults>>
Contexts == 1..MaxContexts
Unused == [state |-> "unused", algorithm |-> "AUTO", scratch |-> 0, scratch_bytes |-> 0,
           scratch_captured |-> FALSE, retired_allocations |-> {}, lt_workspace |-> 0,
           wide |-> FALSE, guard |-> 0, host_guard |-> 0, plans |-> <<>>]
Idle == [todo |-> <<>>, id |-> 0, context |-> 0, pointer |-> <<>>, host |-> FALSE]

-----------------------------------------------------------------------------
(* Programs. *)
Named(name, value) == <<name, name, name, value>>
Arena(layout, region, value) == <<"arena", layout, region, value>>
With(datum, value) == <<datum[1], datum[2], datum[3], value>>

Kernel(reads, writes) ==
  [do |-> "launch", reads |-> reads, writes |-> writes, blas |-> FALSE, tried |-> FALSE]
Blas(reads, writes) == [Kernel(reads, writes) EXCEPT !.blas = TRUE]
Wait == <<[do |-> "synchronize"], [do |-> "await"]>>
Fail == <<[do |-> "fail"]>>

\* A product c = a*b, or c = a*b + c when beta is not zero.
Product(type, ta, tb, m, n, k, a, b, c, beta) ==
  [do |-> "gemm", type |-> type, ta |-> ta, tb |-> tb, m |-> m, n |-> n, k |-> k,
   a |-> a, b |-> b, c |-> c, beta |-> beta]
Prior(g) == IF g.beta THEN {With(g.c, "prior")} ELSE {}
Operands(g) == {g.a, g.b} \cup Prior(g)
Partial(g) == [g EXCEPT !.c = With(g.c, "partial")]

classical(g) == <<Blas(Operands(g), {g.c})>>

\* reserve_scratch(size); then binds `into` to the arena and goes on, or to
\* `low` when the device is out of memory.
Reserve(size, into, then, low) ==
  [do |-> "reserve", size |-> size, into |-> into, then |-> then, low |-> low]

\* Scratch of one call in units of 1024 elements: packed A, packed B, products.
Units(elements) == (elements + 1023) \div 1024
Side(n, level) == n \div 2^level
ScratchSize(n, level) == 3 * 7^level * Units(Side(n, level) * Side(n, level))

\* The range check, whose verdict the host waits for before it goes on.
Checked(check, then, g) ==
  <<Kernel({}, {Named("guard", "clear")})>> \o check
  \o <<Kernel({Named("guard", "range")}, {Named("host_guard", "range")})>> \o Wait
  \o <<[do |-> "guard", then |-> then, unsafe |-> classical(g)]>>

Packs(g) ==
  <<Kernel({g.a, Named("guard", "clear")},
           {Arena("packed", "a", "packed"), Named("guard", "a")}),
    Kernel({g.b, Named("guard", "a")},
           {Arena("packed", "b", "packed"), Named("guard", "range")})>>
Recombined(g) ==
  <<Blas({Arena("packed", "a", "packed"), Arena("packed", "b", "packed")},
         {Arena("packed", "products", "computed")}),
    Kernel({Arena("packed", "products", "computed")} \cup Prior(g), {g.c})>>

\* One try at a number of levels.
Levels(g, level, low) ==
  <<Reserve(ScratchSize(g.n, level), "arena", Checked(Packs(g), Recombined(g), g), low)>>

\* Four levels: the seven products of the outer level, one pass each, are
\* summed in C itself, or in the arena when C is still needed.
Passes == <<"first", "second", "third", "fourth", "fifth", "sixth", "seventh">>
Before(p) == IF p = 1 THEN "zero" ELSE Passes[p - 1]
Sum(g) == IF g.beta THEN Arena("packed", "sum", "zero") ELSE With(g.c, "zero")

strassen_four_pass(g, p) ==
  <<Kernel({g.a}, {Arena("packed", "a", Passes[p])}),
    Kernel({g.b}, {Arena("packed", "b", Passes[p])}),
    Blas({Arena("packed", "a", Passes[p]), Arena("packed", "b", Passes[p])},
         {Arena("packed", "products", Passes[p])}),
    Kernel({Arena("packed", "products", Passes[p]), With(Sum(g), Before(p))},
           {With(Sum(g), Passes[p])})>>

Streamed(g) ==
  <<Kernel({}, {Sum(g)})>>
  \o [i \in 1..28 |-> strassen_four_pass(g, ((i - 1) \div 4) + 1)[((i - 1) % 4) + 1]]
  \o <<Kernel({With(Sum(g), "seventh")} \cup Prior(g), {g.c})>>

strassen_four_streamed(g) ==
  <<Reserve(ScratchSize(g.n, 4) \div 7 + (IF g.beta THEN Units(g.n * g.n) ELSE 0),
            "arena",
            Checked(<<Kernel({g.a, g.b, Named("guard", "clear")}, {Named("guard", "range")})>>,
                    Streamed(g), g),
            classical(g))>>

IsFour(g, algorithm) ==
  /\ g.n % 16 = 0
  /\ \/ algorithm = "STRASSEN_FOUR"
     \/ algorithm = "AUTO" /\ g.n % 256 = 0 /\ g.n >= (IF g.type = "float" THEN 12288 ELSE 24576)
IsTwo(g, algorithm) ==
  /\ g.n % 4 = 0
  /\ \/ algorithm \in {"STRASSEN_TWO", "STRASSEN_THREE", "STRASSEN_FOUR"}
     \/ algorithm = "AUTO" /\ g.n >= 8192
IsThree(g, algorithm) ==
  /\ IsTwo(g, algorithm) /\ g.n % 8 = 0
  /\ \/ algorithm \in {"STRASSEN_THREE", "STRASSEN_FOUR"}
     \/ algorithm = "AUTO" /\ g.n % 128 = 0 /\ g.n >= (IF g.type = "double" THEN 16384 ELSE 32768)

\* Low memory costs a level, then the method.
strassen(g, algorithm) ==
  IF IsFour(g, algorithm) THEN strassen_four_streamed(g)
  ELSE LET lower == IF IsTwo(g, algorithm) THEN 2 ELSE 1
       IN IF IsThree(g, algorithm) THEN Levels(g, 3, Levels(g, 2, classical(g)))
          ELSE Levels(g, lower, classical(g))

-----------------------------------------------------------------------------
(* cuBLASLt products, plain or with the bias, and its activation, fused: the  *)
(* epilogue is "none", "bias" or "relu". The operands of a size have the      *)
(* leading dimensions and the alignment that PyTorch's allocator gives them.  *)
Lt(g, epilogue, then, unsupported) ==
  [do |-> "lt", g |-> g, epilogue |-> epilogue, then |-> then, unsupported |-> unsupported,
   tried |-> FALSE]
PlanKey(g, epilogue) == <<g.type, g.ta, g.tb, g.m, g.n, g.k, epilogue>>
lt_call(g) == <<Blas(Operands(g), {g.c})>>
bias_activation(g) == <<Kernel({With(g.c, "partial")}, {g.c})>>

\* The status of the inner product is that of the whole.
unfused(g, epilogue, unsupported) ==
  IF epilogue = "none" THEN classical(g)
  ELSE <<Lt(Partial(g), "none", bias_activation(g), unsupported)>>

\* The first call with a plan tries its candidates on the real operands: each
\* try overwrites C, which only a call with beta zero may do. A try may fail.
Attempt(program) ==
  [i \in DOMAIN program |->
     IF program[i].do \in {"launch", "lt"} THEN [program[i] EXCEPT !.tried = TRUE]
     ELSE program[i]]
Tuning(g, epilogue) ==
  Attempt(lt_call(g)) \o Wait \o Attempt(unfused(g, epilogue, <<>>)) \o Wait
  \o <<[do |-> "tuned", key |-> PlanKey(g, epilogue), inner |-> PlanKey(g, "none")]>>

\* x W + bias.
Unfused(g) == <<Partial(g)>> \o bias_activation(g)
affine(g, relu, algorithm) ==
  IF g.k > 0 /\ algorithm \in {"AUTO", "LT"}
  THEN <<Lt(g, IF relu THEN "relu" ELSE "bias", <<>>, Unfused(g))>>
  ELSE Unfused(g)

\* Scores stay in the arena across the second product.
Scores(value) == <<"scores", "attention", "scores", value>>
attention(type, queries, keys, depth, values, short) ==
  IF short
  THEN <<Kernel({Named("in", "prior")}, {Named("out", "done")})>>
  ELSE <<Reserve(Units(queries * keys), "scores",
           <<Product(type, "T", "N", keys, queries, depth, Named("in", "prior"),
                     Named("in", "prior"), Scores("raw"), FALSE),
             Kernel({Scores("raw")}, {Scores("softmax")}),
             Product(type, "N", "N", values, queries, keys, Named("in", "prior"),
                     Scores("softmax"), Named("out", "done"), FALSE)>>, Fail)>>

\* Gradients of a two-layer network; needed is a subset of dx, dw1, db1, dw2, db2.
Chunks(rows) == IF rows <= 128 THEN 1 ELSE (rows + 127) \div 128
PartialBias == <<"partial", "backward", "partial", "summed">>
mlp_backward(type, rows, inputs, hidden, outputs, needed) ==
  LET in == Named("in", "prior")
      split == "db1" \in needed /\ Chunks(rows) > 1 /\ hidden > 0
      When(condition, program) == IF condition THEN program ELSE <<>>
      first ==
        When("dw2" \in needed,
             <<Product(type, "N", "T", outputs, hidden, rows, in, in, Named("dw2", "done"), FALSE)>>)
        \o When("db2" \in needed, <<Kernel({in}, {Named("db2", "done")})>>)
      \* The gradient of the hidden layer, masked in place, and its column sums.
      masked ==
        <<Product(type, "T", "N", hidden, rows, outputs, in, in, Named("dh", "raw"), FALSE),
          Kernel({Named("dh", "raw")},
                 {Named("dh", "masked")}
                 \cup (IF split THEN {PartialBias}
                       ELSE IF "db1" \in needed THEN {Named("db1", "done")} ELSE {}))>>
        \o When(split, <<Kernel({PartialBias}, {Named("db1", "done")})>>)
      last ==
        When("dw1" \in needed,
             <<Product(type, "N", "T", hidden, inputs, rows, Named("dh", "masked"), in,
                       Named("dw1", "done"), FALSE)>>)
        \o When("dx" \in needed,
             <<Product(type, "T", "N", inputs, rows, hidden, in, Named("dh", "masked"),
                       Named("dx", "done"), FALSE)>>)
      all == first \o When(needed \cap {"dx", "dw1", "db1"} # {}, masked \o last)
  IN IF split THEN <<Reserve(Units(Chunks(rows) * hidden), "partial", all, Fail)>> ELSE all
-----------------------------------------------------------------------------
(* Executing a program. *)
At(t, what) == call[t].todo # <<>> /\ Head(call[t].todo).do = what
Instruction(t) == Head(call[t].todo)
Rest(t) == Tail(call[t].todo)
Continue(t, program) == call' = [call EXCEPT ![t].todo = program \o Rest(t)]
MyContext(t) == context[call[t].context]

\* What a name means to the call: a pointer it took, or a field of its context.
Address(t, name) ==
  IF name \in DOMAIN call[t].pointer THEN call[t].pointer[name]
  ELSE IF name = "guard" THEN MyContext(t).guard
  ELSE IF name = "host_guard" THEN MyContext(t).host_guard
  ELSE 0
\* The operands a call on device tensors is given are the application's, which
\* keeps them; everything else a kernel names has to be there.
Given(t) == {"in"} \ DOMAIN call[t].pointer
Resolved(t, data) ==
  {<<Address(t, d[1]), <<call[t].id, d[2], d[3], d[4]>>>> : d \in
     {x \in data : x[1] \notin Given(t)}}

\* Pointers held by calls and contexts keep their blocks from being reused.
Pointers(t) == {call[t].pointer[name] : name \in DOMAIN call[t].pointer}
Held == UNION {Pointers(t) : t \in Threads}

\* The bound on blocks: what needs n of them waits until so many are free.
Room(n) == \A i \in 1..n : \E b \in Free(Held) : IsNth(b, Free(Held), i)

\* An error unwinds: check() throws, the completion object of a call on host
\* memory waits for the stream, and the temporaries go.
HostCompletion(host) == IF host THEN Wait ELSE <<>>
Unwind(host) == HostCompletion(host) \o <<[do |-> "return", reads |-> {}]>>
Throw(t) == call' = [call EXCEPT ![t].todo = Unwind(call[t].host)]

fail(t) ==
  /\ At(t, "fail") /\ Throw(t)
  /\ UNCHANGED <<streamVars, context, faults>>

\* A CUDA call or a host allocation fails.
Faults == faults < MaxFaults /\ faults' = faults + 1

Launch(t) ==
  /\ At(t, "launch")
  /\ Issue(Command(Resolved(t, Instruction(t).reads), Resolved(t, Instruction(t).writes),
                   IF Instruction(t).blas THEN {MyContext(t).lt_workspace} ELSE {}, {}))
  /\ Continue(t, <<>>)
  /\ UNCHANGED <<allocated, memory, capture, pool, context, faults>>

\* A failing try of the tuning is only left out.
Left(program) ==
  SubSeq(program, SelectInSeq(program, LAMBDA i : i.do = "synchronize"), Len(program))
LaunchFails(t) ==
  /\ At(t, "launch") /\ Faults
  /\ IF Instruction(t).tried THEN call' = [call EXCEPT ![t].todo = Left(@)] ELSE Throw(t)
  /\ UNCHANGED <<streamVars, context>>

\* cudaStreamSynchronize: waits for what has been issued by now.
Synchronize(t) ==
  /\ At(t, "synchronize")
  /\ queue' = IF Capturing THEN queue ELSE Append(queue, Fence(t))
  /\ capture' = Disturbed
  /\ Continue(t, <<>>)
  /\ UNCHANGED <<allocated, memory, graph, pool, context, faults>>

Await(t) ==
  /\ At(t, "await") /\ Fenced(t) /\ Continue(t, <<>>)
  /\ UNCHANGED <<streamVars, context, faults>>

\* reserve_scratch during a capture: the arena must be there already.
Bind(t, name, block) ==
  [n \in DOMAIN call[t].pointer \cup {name} |->
     IF n = name THEN block ELSE call[t].pointer[n]]
Proceed(t, program, block) ==
  call' = [call EXCEPT ![t].todo = program \o Rest(t),
                       ![t].pointer = Bind(t, Instruction(t).into, block)]

ReserveCaptured(t) ==
  /\ At(t, "reserve") /\ Capturing
  /\ IF Instruction(t).size > MyContext(t).scratch_bytes
     THEN Throw(t) /\ UNCHANGED context
     ELSE /\ context' = [context EXCEPT ![call[t].context].scratch_captured = TRUE]
          /\ Proceed(t, Instruction(t).then, MyContext(t).scratch)
  /\ UNCHANGED <<streamVars, faults>>

ReserveKept(t) ==
  /\ At(t, "reserve") /\ ~Capturing /\ Instruction(t).size <= MyContext(t).scratch_bytes
  /\ Proceed(t, Instruction(t).then, MyContext(t).scratch)
  /\ UNCHANGED <<streamVars, context, faults>>

\* A larger arena is wanted: wait for the kernels that use the old one.
ReserveWaits(t) ==
  /\ At(t, "reserve") /\ ~Capturing /\ Instruction(t).size > MyContext(t).scratch_bytes
  /\ Continue(t, Wait \o <<[Instruction(t) EXCEPT !.do = "grow"]>>)
  /\ UNCHANGED <<streamVars, context, faults>>

\* The old arena is retired when a graph may use it, or released.
Replaced(x, block, size) ==
  [x EXCEPT !.scratch = block, !.scratch_bytes = size, !.scratch_captured = FALSE,
            !.retired_allocations = IF x.scratch_captured THEN @ \cup {x.scratch} ELSE @]
\* Mutant: the old arena is always released.
ReleasedAlways(x) == IF x.scratch = 0 THEN {} ELSE {x.scratch}
Released(x) == IF x.scratch = 0 \/ x.scratch_captured THEN {} ELSE {x.scratch}

Grow(t) ==
  LET x == MyContext(t)
      block == Nth(Free(Held), 1)
  IN /\ At(t, "grow") /\ Room(1)
     /\ capture' = Disturbed
     /\ context' = [context EXCEPT ![call[t].context] = Replaced(x, block, Instruction(t).size)]
     /\ allocated' = (allocated \ Released(x)) \cup {block}
     /\ memory' = [b \in Blocks |-> IF b \in Released(x) THEN {} ELSE memory[b]]
     /\ Proceed(t, Instruction(t).then, block)
     /\ UNCHANGED <<queue, graph, pool, faults>>

\* Out of device memory: the old arena stays and the caller may do with less.
GrowFails(t) ==
  /\ At(t, "grow") /\ Faults
  /\ Continue(t, Instruction(t).low)
  /\ UNCHANGED <<streamVars, context>>

\* The host allocation for the list of retired arenas fails; the new arena goes.
RetireFails(t) ==
  /\ At(t, "grow") /\ MyContext(t).scratch_captured /\ Faults
  /\ Throw(t) /\ UNCHANGED <<streamVars, context>>

\* The host reads the verdict of the range check, which depends on the data.
Guard(t) ==
  /\ At(t, "guard")
  /\ \E safe \in BOOLEAN : Continue(t, IF safe THEN Instruction(t).then ELSE Instruction(t).unsafe)
  /\ UNCHANGED <<streamVars, context, faults>>

-----------------------------------------------------------------------------
(* The routes of gemm, in the order its conditions are tested. *)
g(t) == Instruction(t)
algorithm(t) == MyContext(t).algorithm

uses_scratch(t, datum) ==
  /\ MyContext(t).scratch # 0 /\ Address(t, datum[1]) = MyContext(t).scratch

eligible(t) ==
  /\ g(t).ta = "N" /\ g(t).tb = "N" /\ g(t).m = g(t).n /\ g(t).n = g(t).k
  /\ g(t).n % 2 = 0 /\ g(t).n >= 256
  /\ ~uses_scratch(t, g(t).a) /\ ~uses_scratch(t, g(t).b) /\ ~uses_scratch(t, g(t).c)

IsEmpty(t) == g(t).m = 0 \/ g(t).n = 0 \/ g(t).k = 0
IsGemv(t) ==
  /\ g(t).type = "float" /\ algorithm(t) = "AUTO" /\ g(t).n = 1 /\ g(t).ta = "T" /\ g(t).tb = "N"
  /\ g(t).m >= 1024 /\ g(t).k >= 4096 /\ g(t).k % 4 = 0
IsGram(t) ==
  /\ algorithm(t) = "SYMMETRIC" /\ g(t).a = g(t).b /\ g(t).ta # g(t).tb /\ g(t).m = g(t).n
  /\ ~g(t).beta
IsStrassen(t) ==
  /\ eligible(t) /\ ~Capturing
  /\ \/ algorithm(t) \in {"STRASSEN", "STRASSEN_TWO", "STRASSEN_THREE", "STRASSEN_FOUR"}
     \/ algorithm(t) = "AUTO" /\ g(t).n >= (IF g(t).type = "float" THEN 4096 ELSE 8192)
PrefersDgemm(t) ==
  /\ g(t).type = "double" /\ g(t).ta = "N" /\ g(t).tb = "N"
  /\ g(t).m = g(t).n /\ g(t).n = g(t).k /\ g(t).n >= 2048
TriesLt(t) ==
  \/ algorithm(t) = "AUTO" /\ ~PrefersDgemm(t) /\ ~Capturing
  \/ algorithm(t) = "LT"

RealGemm(t) ==
  IF IsEmpty(t) THEN IF g(t).m = 0 \/ g(t).n = 0 THEN <<>> ELSE <<Kernel(Prior(g(t)), {g(t).c})>>
  ELSE IF IsGemv(t) THEN <<Kernel(Operands(g(t)), {g(t).c})>>
  ELSE IF IsGram(t)
       THEN <<Blas({g(t).a}, {With(g(t).c, "triangle")}),
              Kernel({With(g(t).c, "triangle")}, {g(t).c})>>
  ELSE IF IsStrassen(t) THEN strassen(g(t), algorithm(t))
  ELSE IF TriesLt(t) THEN <<Lt(g(t), "none", <<>>, classical(g(t)))>>
  ELSE classical(g(t))

\* BF16 storage: cuBLAS only, and its plans are not tuned.
bfloat16_gemm(t) ==
  IF IsEmpty(t) THEN IF g(t).m = 0 \/ g(t).n = 0 THEN <<>> ELSE <<Kernel(Prior(g(t)), {g(t).c})>>
  ELSE IF algorithm(t) = "LT" THEN <<Lt(g(t), "none", <<>>, classical(g(t)))>>
  ELSE classical(g(t))

gemm(t) ==
  /\ At(t, "gemm")
  /\ Continue(t, IF g(t).type = "bf16" THEN bfloat16_gemm(t) ELSE RealGemm(t))
  /\ UNCHANGED <<streamVars, context, faults>>

-----------------------------------------------------------------------------
(* Plans. *)
MyKey(t) == PlanKey(Instruction(t).g, Instruction(t).epilogue)
Planned(t) == MyKey(t) \in DOMAIN MyContext(t).plans
IsWide(p) ==
  /\ p.type = "float" /\ p.m >= 1024 /\ p.k >= 4096 /\ p.n >= 256 /\ p.n <= 1024
  /\ p.m >= 16384 \/ p.k >= 16384

\* A wide panel gets a larger workspace, unless a capture or the memory is in the way;
\* the old one is retired, because kernels and graphs may use it.
NewPlan(x, key, outcome) ==
  [x EXCEPT !.plans = [k \in DOMAIN x.plans \cup {key} |->
                         IF k = key THEN outcome ELSE x.plans[k]]]
WiderWorkspace(x, block) ==
  [x EXCEPT !.lt_workspace = block, !.wide = TRUE,
            !.retired_allocations = @ \cup {x.lt_workspace}]
MayWiden(t) == IsWide(Instruction(t).g) /\ ~MyContext(t).wide /\ ~Capturing

get_plan(t) ==
  /\ At(t, "lt") /\ ~Planned(t)
  /\ \E outcome \in {"unavailable", "untuned"}, widened \in BOOLEAN :
       LET block == Nth(Free(Held), 1)
           x == IF widened THEN WiderWorkspace(MyContext(t), block) ELSE MyContext(t)
       IN /\ widened => MayWiden(t) /\ Room(1)
          /\ context' = [context EXCEPT ![call[t].context] = NewPlan(x, MyKey(t), outcome)]
          /\ allocated' = IF widened THEN allocated \cup {block} ELSE allocated
          /\ capture' = IF widened THEN Disturbed ELSE capture
  /\ UNCHANGED <<memory, queue, graph, pool, call, faults>>

MyPlan(t) == MyContext(t).plans[MyKey(t)]
\* Mutant: a plan is tuned during a capture too.
TunesWhenever(t) ==
  /\ Instruction(t).g.type # "bf16" /\ MyPlan(t) = "untuned" /\ ~Instruction(t).g.beta
Tunes(t) ==
  /\ Instruction(t).g.type # "bf16" /\ MyPlan(t) = "untuned"
  /\ ~Instruction(t).g.beta /\ ~Capturing
PrefersUnfused(t) == MyPlan(t) = "unfused" /\ algorithm(t) = "AUTO"

lt_gemm(t) ==
  LET p == Instruction(t).g
      epilogue == Instruction(t).epilogue
      unsupported == Instruction(t).unsupported
  IN /\ At(t, "lt") /\ Planned(t)
     /\ IF MyPlan(t) = "unavailable" THEN Continue(t, unsupported)
        ELSE IF Tunes(t) THEN Continue(t, Tuning(p, epilogue) \o <<Instruction(t)>>)
        ELSE LET program == (IF PrefersUnfused(t) THEN unfused(p, epilogue, unsupported)
                             ELSE lt_call(p))
                            \o Instruction(t).then
             IN Continue(t, IF Instruction(t).tried THEN Attempt(program) ELSE program)
     /\ UNCHANGED <<streamVars, context, faults>>

\* The call itself may find that its plan is not supported.
lt_unsupported(t) ==
  /\ At(t, "lt") /\ Planned(t) /\ MyPlan(t) # "unavailable" /\ ~Tunes(t) /\ Faults
  /\ Continue(t, Instruction(t).unsupported)
  /\ UNCHANGED <<streamVars, context>>

\* The measurements decide; the unfused form can only win if it worked.
Tuned(t) ==
  /\ At(t, "tuned")
  /\ \E outcome \in {"lt", "unfused"} :
       /\ outcome = "unfused" /\ Instruction(t).inner # Instruction(t).key
            => MyContext(t).plans[Instruction(t).inner] # "unavailable"
       /\ context' = [context EXCEPT ![call[t].context].plans[Instruction(t).key] = outcome]
  /\ Continue(t, <<>>)
  /\ UNCHANGED <<streamVars, faults>>

-----------------------------------------------------------------------------
(* Creating and destroying a context. *)
Owned(x) ==
  ({x.scratch, x.lt_workspace, x.guard, x.host_guard} \cup x.retired_allocations) \ {0}

Created(alg, blocks) ==
  [Unused EXCEPT !.state = "live", !.algorithm = alg, !.lt_workspace = Nth(blocks, 1),
                 !.guard = Nth(blocks, 2), !.host_guard = Nth(blocks, 3)]

NewContext == CHOOSE c \in Contexts : /\ context[c].state = "unused"
                                      /\ \A d \in Contexts : d < c => context[d].state # "unused"

camblas_cuda_create(alg) ==
  /\ (\E c \in Contexts : context[c].state = "unused") /\ Room(3)
  /\ context' = [context EXCEPT ![NewContext] = Created(alg, Free(Held))]
  /\ allocated' = allocated \cup Owned(Created(alg, Free(Held)))
  /\ capture' = Disturbed

\* The blocks of a context go back once its stream is done.
FreeContext(c) ==
  /\ context' = [context EXCEPT ![c] = [Unused EXCEPT !.state = "destroyed"]]
  /\ allocated' = allocated \ Owned(context[c])
  /\ memory' = [b \in Blocks |-> IF b \in Owned(context[c]) THEN {} ELSE memory[b]]
  /\ capture' = Disturbed

ContextStep(t) ==
  \/ fail(t) \/ Launch(t) \/ LaunchFails(t) \/ Synchronize(t) \/ Await(t)
  \/ ReserveCaptured(t) \/ ReserveKept(t) \/ ReserveWaits(t) \/ Grow(t) \/ GrowFails(t)
  \/ RetireFails(t) \/ Guard(t) \/ gemm(t) \/ get_plan(t) \/ lt_gemm(t) \/ lt_unsupported(t)
  \/ Tuned(t)
=============================================================================
