------------------------ MODULE TorchBindings_proofs ------------------------
(***************************************************************************)
(* HandlesLive and CaptureStaysLegal, for any threads, blocks, bounds and  *)
(* applications.  The invariant says in which of four modes each thread is *)
(* and which instructions it still has (Shape), who has each context       *)
(* (Separate), and who will release each block (Kept).                     *)
(***************************************************************************)
EXTENDS TorchBindings, FiniteSetTheorems, SequenceTheorems, WellFoundedInduction, TLAPS

-----------------------------------------------------------------------------
(* Sequences. *)
IsSeq(p) == p \in Seq(Range(p))

\* A sequence is one over its own elements.
LEMMA OwnRange ==
  ASSUME NEW S, NEW q \in Seq(S)
  PROVE  IsSeq(q)
<1>1. PICK n \in Nat : q \in [1..n -> S]
  BY SeqDef
<1>2. q \in [1..n -> Range(q)]
  BY <1>1 DEF Range
<1> QED BY <1>1, <1>2, SeqDef DEF IsSeq

\* A concatenation has the elements of both programs (Continue).
LEMMA Concatenated ==
  ASSUME NEW p, NEW q, IsSeq(p), IsSeq(q)
  PROVE  /\ IsSeq(p \o q) /\ Range(p \o q) = Range(p) \cup Range(q)
         /\ Len(p \o q) = Len(p) + Len(q)
         /\ \A i \in 1..Len(p) : (p \o q)[i] = p[i]
         /\ \A i \in 1..Len(q) : (p \o q)[Len(p) + i] = q[i]
<1> DEFINE S == Range(p) \cup Range(q)
<1>1. p \in Seq(S) /\ q \in Seq(S)
  <2>1. Range(p) \subseteq S /\ Range(q) \subseteq S
    OBVIOUS
  <2> QED BY <2>1 DEF IsSeq
<1> HIDE DEF S
<1>2. /\ Len(p \o q) = Len(p) + Len(q) /\ Len(p) \in Nat /\ Len(q) \in Nat
      /\ \A i \in 1..Len(p) : (p \o q)[i] = p[i]
      /\ \A i \in 1..Len(q) : (p \o q)[Len(p) + i] = q[i]
      /\ DOMAIN (p \o q) = 1..(Len(p) + Len(q)) /\ DOMAIN p = 1..Len(p) /\ DOMAIN q = 1..Len(q)
  BY <1>1
<1>3. \A i \in 1..(Len(p) + Len(q)) : (p \o q)[i] \in S
  BY <1>1
<1>4. Range(p \o q) \subseteq S
  BY <1>2, <1>3 DEF Range
<1>5. Range(p) \subseteq Range(p \o q)
  <2> SUFFICES ASSUME NEW i \in 1..Len(p) PROVE p[i] \in Range(p \o q)
    BY <1>2 DEF Range
  <2>1. i \in 1..(Len(p) + Len(q)) /\ (p \o q)[i] = p[i]
    BY <1>2
  <2> QED BY <2>1, <1>2 DEF Range
<1>6. Range(q) \subseteq Range(p \o q)
  <2> SUFFICES ASSUME NEW i \in 1..Len(q) PROVE q[i] \in Range(p \o q)
    BY <1>2 DEF Range
  <2>1. Len(p) + i \in 1..(Len(p) + Len(q)) /\ (p \o q)[Len(p) + i] = q[i]
    BY <1>2
  <2> QED BY <2>1, <1>2 DEF Range
<1>7. Range(p \o q) = S
  BY <1>4, <1>5, <1>6 DEF S
<1>8. p \o q \in Seq(S)
  BY <1>1
<1> QED BY <1>2, <1>7, <1>8 DEF IsSeq, S

\* What is left of a program after its first instruction (Rest).
LEMMA Rested ==
  ASSUME NEW p, IsSeq(p), p # <<>>
  PROVE  /\ IsSeq(Tail(p)) /\ Range(Tail(p)) \subseteq Range(p)
         /\ Len(p) \in Nat \ {0} /\ Len(Tail(p)) = Len(p) - 1
         /\ Head(p) = p[1] /\ Head(p) \in Range(p)
         /\ \A i \in 1..(Len(p) - 1) : Tail(p)[i] = p[i + 1]
<1> DEFINE S == Range(p)
<1>1. p \in Seq(S)
  BY DEF IsSeq
<1>0. S = {p[i] : i \in 1..Len(p)}
  BY <1>1 DEF Range
<1> HIDE DEF S
<1>2. /\ Len(p) \in Nat \ {0} /\ Len(Tail(p)) = Len(p) - 1 /\ Head(p) = p[1]
      /\ \A i \in 1..(Len(p) - 1) : Tail(p)[i] = p[i + 1]
      /\ DOMAIN Tail(p) = 1..(Len(p) - 1)
  BY <1>1
<1>3. Range(Tail(p)) \subseteq S
  <2> SUFFICES ASSUME NEW i \in 1..(Len(p) - 1) PROVE Tail(p)[i] \in S
    BY <1>2 DEF Range
  <2>1. i + 1 \in 1..Len(p) /\ Tail(p)[i] = p[i + 1]
    BY <1>2
  <2> QED BY <2>1, <1>0
<1>4. IsSeq(Tail(p))
  <2>1. Tail(p) \in Seq(S)
    BY <1>1
  <2> QED BY ONLY <2>1, OwnRange
<1>5. Head(p) \in S
  BY <1>0, <1>2
<1> QED BY <1>2, <1>3, <1>4, <1>5 DEF IsSeq, S

\* The first instruction of a kind (Left).
LEMMA FirstOf ==
  ASSUME NEW S, S \subseteq Nat, S # {}
  PROVE  Min(S) \in S /\ \A x \in S : Min(S) <= x
<1>1. PICK x \in S : \A y \in S : <<y, x>> \notin OpToRel(<, Nat)
  BY WFMin, NatLessThanWellFounded
<1>2. ASSUME NEW y \in S PROVE x <= y
  <2>1. x \in Nat /\ y \in Nat
    OBVIOUS
  <2>2. <<y, x>> \notin OpToRel(<, Nat)
    BY <1>1
  <2>3. ~(y < x)
    BY ONLY <2>1, <2>2 DEF OpToRel
  <2> QED BY ONLY <2>1, <2>3
<1> QED BY <1>2 DEF Min

-----------------------------------------------------------------------------
(* The code of a call: sets of instructions that contain every instruction *)
(* of the programs inside theirs. A thread that captures executes SafeDos. *)
SafeDos == {"launch", "gemm", "lt", "reserve", "fail"}
CodeDos == SafeDos \cup {"grow", "guard", "synchronize", "await", "tuned"}

Inside(i) ==
  IF i.do = "lt" THEN {i.then, i.unsupported}
  ELSE IF i.do \in {"reserve", "grow"} THEN {i.then, i.low}
  ELSE IF i.do = "guard" THEN {i.then, i.unsafe}
  ELSE {}
Tried(i) == i.do \in {"launch", "lt"} /\ i.tried = TRUE
Untried(p) == \A i \in Range(p) : ~Tried(i)
HasFields(i) ==
  /\ i.do \in {"launch", "lt"} => {"do", "tried"} \subseteq DOMAIN i
  /\ i.do = "lt" => {"then", "unsupported", "g", "epilogue"} \subseteq DOMAIN i
  /\ i.do \in {"reserve", "grow"} =>
       {"do", "then", "low", "into", "size"} \subseteq DOMAIN i /\ i.into \in Arenas

Closed(S, dos) ==
  \A i \in S :
    /\ i.do \in dos /\ HasFields(i)
    /\ \A p \in Inside(i) : IsSeq(p) /\ Range(p) \subseteq S /\ Untried(p)
IsCode(i, dos) == \E S : Closed(S, dos) /\ i \in S
Code(p, dos) == IsSeq(p) /\ \A i \in Range(p) : IsCode(i, dos)
Fresh(p, dos) == Code(p, dos) /\ Untried(p)

\* What an instruction of the code is made of.
LEMMA CodeDown ==
  ASSUME NEW i, NEW dos, IsCode(i, dos)
  PROVE  i.do \in dos /\ HasFields(i) /\ \A p \in Inside(i) : Fresh(p, dos)
<1>1. PICK S : Closed(S, dos) /\ i \in S
  BY DEF IsCode
<1>2. i.do \in dos /\ HasFields(i)
      /\ \A p \in Inside(i) : IsSeq(p) /\ Range(p) \subseteq S /\ Untried(p)
  BY <1>1 DEF Closed
<1>3. \A j \in S : IsCode(j, dos)
  BY <1>1, Zenon DEF IsCode
<1> QED BY <1>2, <1>3, Zenon DEF Fresh, Code

\* An instruction made of code is code.
LEMMA CodeUp ==
  ASSUME NEW i, NEW dos, i.do \in dos, HasFields(i), \A p \in Inside(i) : Fresh(p, dos)
  PROVE  IsCode(i, dos)
<1> DEFINE W(j) == CHOOSE S : Closed(S, dos) /\ j \in S
           Parts == UNION {Range(p) : p \in Inside(i)}
           All == {i} \cup UNION {W(j) : j \in Parts}
<1>1. \A j \in Parts : Closed(W(j), dos) /\ j \in W(j)
  <2> SUFFICES ASSUME NEW j \in Parts PROVE Closed(W(j), dos) /\ j \in W(j)
    OBVIOUS
  <2>1. IsCode(j, dos)
    BY Zenon DEF Fresh, Code
  <2> QED BY <2>1, Zenon DEF IsCode
<1>2. \A p \in Inside(i) : IsSeq(p) /\ Range(p) \subseteq Parts /\ Untried(p)
  BY Zenon DEF Fresh, Code
<1> HIDE DEF W, Parts
<1>3. Parts \subseteq All
  BY <1>1, Zenon
<1>4. ASSUME NEW k \in All
      PROVE  /\ k.do \in dos /\ HasFields(k)
             /\ \A p \in Inside(k) : IsSeq(p) /\ Range(p) \subseteq All /\ Untried(p)
  <2>1. CASE k = i
    <3>1. \A p \in Inside(k) : IsSeq(p) /\ Range(p) \subseteq All /\ Untried(p)
      <4> SUFFICES ASSUME NEW p \in Inside(i) PROVE IsSeq(p) /\ Range(p) \subseteq All /\ Untried(p)
        BY <2>1
      <4>1. IsSeq(p) /\ Range(p) \subseteq Parts /\ Untried(p)
        BY <1>2
      <4> QED BY ONLY <4>1, <1>3, Zenon
    <3> QED BY <2>1, <3>1
  <2>2. CASE k # i
    <3>1. PICK j \in Parts : k \in W(j)
      BY <2>2, Zenon
    <3>2. Closed(W(j), dos)
      BY <1>1
    <3>3. W(j) \subseteq All
      BY Zenon
    <3>4. /\ k.do \in dos /\ HasFields(k)
          /\ \A p \in Inside(k) : IsSeq(p) /\ Range(p) \subseteq W(j) /\ Untried(p)
      BY ONLY <3>1, <3>2, Zenon DEF Closed
    <3> QED BY ONLY <3>3, <3>4, Zenon
  <2> QED BY <2>1, <2>2
<1>5. i \in All
  OBVIOUS
<1> HIDE DEF All
<1>6. Closed(All, dos)
  BY <1>4, Zenon DEF Closed
<1> QED BY <1>5, <1>6, Zenon DEF IsCode

\* Programs made of code.
LEMMA CodeConcatenated ==
  ASSUME NEW p, NEW q, NEW dos, Code(p, dos), Code(q, dos)
  PROVE  Code(p \o q, dos)
<1>1. IsSeq(p) /\ IsSeq(q)
  BY DEF Code
<1>2. IsSeq(p \o q) /\ Range(p \o q) = Range(p) \cup Range(q)
  BY ONLY <1>1, Concatenated
<1> QED BY <1>2, Zenon DEF Code

\* Two fresh programs in a row.
LEMMA FreshConcatenated ==
  ASSUME NEW p, NEW q, NEW dos, Fresh(p, dos), Fresh(q, dos)
  PROVE  Fresh(p \o q, dos)
<1>1. IsSeq(p) /\ IsSeq(q)
  BY DEF Code, Fresh
<1>2. IsSeq(p \o q) /\ Range(p \o q) = Range(p) \cup Range(q)
  BY ONLY <1>1, Concatenated
<1> QED BY <1>2, Zenon DEF Code, Fresh, Untried

IsFresh(i, dos) == IsCode(i, dos) /\ ~Tried(i)
\* Short programs.
LEMMA FreshNone == ASSUME NEW dos PROVE Fresh(<<>>, dos)
  BY DEF Fresh, Code, Untried, Range, IsSeq

\* Programs of one fresh instruction.
LEMMA FreshOne ==
  ASSUME NEW dos, NEW a, IsFresh(a, dos)
  PROVE  Fresh(<<a>>, dos)
<1>1. Range(<<a>>) = {a}
  BY DEF Range
<1>2. IsSeq(<<a>>)
  BY <1>1 DEF IsSeq
<1> QED BY <1>1, <1>2 DEF Fresh, Code, Untried, IsFresh

\* Two of them (the wait, what a route packs).
LEMMA FreshTwo ==
  ASSUME NEW dos, NEW a, NEW b, IsFresh(a, dos), IsFresh(b, dos)
  PROVE  Fresh(<<a, b>>, dos)
<1>1. Range(<<a, b>>) = {a, b}
  BY DEF Range
<1>2. IsSeq(<<a, b>>)
  BY <1>1 DEF IsSeq
<1> QED BY <1>1, <1>2 DEF Fresh, Code, Untried, IsFresh

\* The instructions that programs are written with.
LEMMA Launches ==
  ASSUME NEW reads, NEW writes, NEW dos, SafeDos \subseteq dos
  PROVE  IsFresh(Kernel(reads, writes), dos) /\ IsFresh(Blas(reads, writes), dos)
<1>1. ASSUME NEW i, i.do = "launch", i.tried = FALSE, {"do", "tried"} \subseteq DOMAIN i
      PROVE  IsFresh(i, dos)
  <2>1. i.do \in dos
    BY <1>1 DEF SafeDos
  <2>2. HasFields(i) /\ Inside(i) = {} /\ ~Tried(i)
    BY <1>1 DEF HasFields, Inside, Tried
  <2>3. IsCode(i, dos)
    BY ONLY <2>1, <2>2, CodeUp
  <2> QED BY <2>2, <2>3 DEF IsFresh
<1>2. PICK i : i = Kernel(reads, writes)
  OBVIOUS
<1>3. i.do = "launch" /\ i.tried = FALSE /\ {"do", "tried"} \subseteq DOMAIN i
  BY <1>2 DEF Kernel
<1>4. PICK j : j = Blas(reads, writes)
  OBVIOUS
<1>5. j.do = "launch" /\ j.tried = FALSE /\ {"do", "tried"} \subseteq DOMAIN j
  BY <1>4 DEF Kernel, Blas
<1>6. IsFresh(i, dos) /\ IsFresh(j, dos)
  BY <1>1, <1>3, <1>5
<1> QED BY <1>2, <1>4, <1>6

\* Waiting for the stream is code that no capture executes (synchronize in backend.cu).
LEMMA Waits == Fresh(Wait, CodeDos)
<1>1. ASSUME NEW i, i.do \in {"synchronize", "await"} PROVE IsFresh(i, CodeDos)
  <2>1. i.do \in CodeDos /\ HasFields(i) /\ Inside(i) = {} /\ ~Tried(i)
    BY <1>1 DEF HasFields, Inside, Tried, CodeDos
  <2>2. IsCode(i, CodeDos)
    BY ONLY <2>1, CodeUp
  <2> QED BY <2>1, <2>2 DEF IsFresh
<1>2. IsFresh([do |-> "synchronize"], CodeDos) /\ IsFresh([do |-> "await"], CodeDos)
  BY <1>1
<1> QED BY ONLY <1>2, FreshTwo DEF Wait

\* Throwing is code in every case (check).
LEMMA Fails == ASSUME NEW dos, SafeDos \subseteq dos PROVE Fresh(Fail, dos)
<1>1. PICK i : i = [do |-> "fail"]
  OBVIOUS
<1>2. i.do \in dos /\ HasFields(i) /\ Inside(i) = {} /\ ~Tried(i)
  BY <1>1 DEF HasFields, Inside, Tried, SafeDos
<1>3. IsFresh(i, dos)
  BY ONLY <1>2, CodeUp DEF IsFresh
<1>4. Fresh(<<i>>, dos)
  BY ONLY <1>3, FreshOne
<1> QED BY <1>1, <1>4 DEF Fail

\* So is a call of cuBLAS's GEMM (gemm).
LEMMA Gemms == ASSUME NEW i, NEW dos, SafeDos \subseteq dos, i.do = "gemm" PROVE IsFresh(i, dos)
<1>2. i.do \in dos /\ HasFields(i) /\ Inside(i) = {} /\ ~Tried(i)
  BY DEF HasFields, Inside, Tried, SafeDos
<1>3. IsFresh(i, dos)
  BY ONLY <1>2, CodeUp DEF IsFresh
<1> QED BY <1>3

\* cuBLASLt with its fallback is code when the fallback is (lt_gemm).
LEMMA Lts ==
  ASSUME NEW gg, NEW epilogue, NEW then, NEW unsupported, NEW dos, SafeDos \subseteq dos,
         Fresh(then, dos), Fresh(unsupported, dos)
  PROVE  IsFresh(Lt(gg, epilogue, then, unsupported), dos)
<1>1. PICK i : i = Lt(gg, epilogue, then, unsupported)
  OBVIOUS
<1>2. i.do \in dos /\ HasFields(i) /\ Inside(i) = {then, unsupported} /\ ~Tried(i)
  <2>1. i.do = "lt" /\ i.tried = FALSE /\ i.then = then /\ i.unsupported = unsupported
        /\ {"do", "tried", "then", "unsupported", "g", "epilogue"} \subseteq DOMAIN i
    BY <1>1 DEF Lt
  <2> QED BY <2>1 DEF HasFields, Inside, Tried, SafeDos
<1>3. \A p \in Inside(i) : Fresh(p, dos)
  BY <1>2
<1>4. IsFresh(i, dos)
  BY ONLY <1>2, <1>3, CodeUp DEF IsFresh
<1> QED BY <1>1, <1>4

\* A reservation is code when what follows it is (reserve_scratch).
LEMMA Reserves ==
  ASSUME NEW size, NEW into \in Arenas, NEW then, NEW low, NEW dos, SafeDos \subseteq dos,
         Fresh(then, dos), Fresh(low, dos)
  PROVE  IsFresh(Reserve(size, into, then, low), dos)
<1>1. PICK i : i = Reserve(size, into, then, low)
  OBVIOUS
<1>2. i.do \in dos /\ HasFields(i) /\ Inside(i) = {then, low} /\ ~Tried(i)
  <2>1. i.do = "reserve" /\ i.into = into /\ i.then = then /\ i.low = low
        /\ {"do", "into", "then", "low", "size"} \subseteq DOMAIN i
    BY <1>1 DEF Reserve
  <2> QED BY <2>1 DEF HasFields, Inside, Tried, SafeDos
<1>3. \A p \in Inside(i) : Fresh(p, dos)
  BY <1>2
<1>4. IsFresh(i, dos)
  BY ONLY <1>2, <1>3, CodeUp DEF IsFresh
<1> QED BY <1>1, <1>4

\* The guarded programs of the Strassen routes.
LEMMA classicals == ASSUME NEW p, NEW dos, SafeDos \subseteq dos PROVE Fresh(classical(p), dos)
<1>1. IsFresh(Blas(Operands(p), {p.c}), dos)
  BY ONLY Launches, SafeDos \subseteq dos
<1> QED BY ONLY <1>1, FreshOne DEF classical

\* The range check, its wait and the route it guards (the guard of the Strassen routes).
LEMMA Checks ==
  ASSUME NEW check, NEW then, NEW p, Fresh(check, CodeDos), Fresh(then, CodeDos)
  PROVE  Fresh(Checked(check, then, p), CodeDos)
<1>0. SafeDos \subseteq CodeDos
  BY DEF CodeDos
<1> DEFINE a == Kernel({}, {Named("guard", "clear")})
           b == Kernel({Named("guard", "range")}, {Named("host_guard", "range")})
           c == [do |-> "guard", then |-> then, unsafe |-> classical(p)]
<1>1. IsFresh(a, CodeDos) /\ IsFresh(b, CodeDos)
  BY ONLY <1>0, Launches
<1>2. IsFresh(c, CodeDos)
  <2>1. PICK i : i = c
    OBVIOUS
  <2>2. i.do = "guard" /\ i.then = then /\ i.unsafe = classical(p)
    BY <2>1
  <2>3. i.do \in CodeDos /\ HasFields(i) /\ Inside(i) = {then, classical(p)} /\ ~Tried(i)
    BY ONLY <2>2 DEF HasFields, Inside, Tried, CodeDos
  <2>4. \A q \in Inside(i) : Fresh(q, CodeDos)
    BY <2>3, <1>0, classicals
  <2>5. IsFresh(i, CodeDos)
    BY ONLY <2>3, <2>4, CodeUp DEF IsFresh
  <2> QED BY <2>1, <2>5
<1> HIDE DEF a, b, c
<1>3. Fresh(<<a>>, CodeDos) /\ Fresh(<<b>>, CodeDos) /\ Fresh(<<c>>, CodeDos)
  BY ONLY <1>1, <1>2, FreshOne
<1>4. Fresh(<<a>> \o check, CodeDos)
  BY ONLY <1>3, FreshConcatenated, Fresh(check, CodeDos)
<1>5. Fresh((<<a>> \o check) \o <<b>>, CodeDos)
  BY ONLY <1>3, <1>4, FreshConcatenated
<1>6. Fresh(((<<a>> \o check) \o <<b>>) \o Wait, CodeDos)
  BY ONLY Waits, <1>5, FreshConcatenated
<1>7. Fresh((((<<a>> \o check) \o <<b>>) \o Wait) \o <<c>>, CodeDos)
  BY ONLY <1>3, <1>6, FreshConcatenated
<1> QED BY <1>7 DEF Checked, a, b, c

\* A level of a Strassen route ends in the route below it.
LEMMA LevelsFresh ==
  ASSUME NEW p, NEW level, NEW low, Fresh(low, CodeDos)
  PROVE  Fresh(Levels(p, level, low), CodeDos)
<1>0. SafeDos \subseteq CodeDos
  BY DEF CodeDos
<1>1. Fresh(Packs(p), CodeDos) /\ Fresh(Recombined(p), CodeDos)
  <2>1. \A r, w : IsFresh(Kernel(r, w), CodeDos) /\ IsFresh(Blas(r, w), CodeDos)
    BY <1>0, Launches
  <2>2. Fresh(Packs(p), CodeDos)
    BY ONLY <2>1, FreshTwo DEF Packs
  <2>3. Fresh(Recombined(p), CodeDos)
    BY ONLY <2>1, FreshTwo DEF Recombined
  <2> QED BY <2>2, <2>3
<1>2. Fresh(Checked(Packs(p), Recombined(p), p), CodeDos)
  BY ONLY <1>1, Checks
<1>3. \A size : IsFresh(Reserve(size, "arena", Checked(Packs(p), Recombined(p), p), low), CodeDos)
  <2>1. "arena" \in Arenas
    BY DEF Arenas
  <2> QED BY ONLY <2>1, <1>0, <1>2, Fresh(low, CodeDos), Reserves
<1> QED BY ONLY <1>3, FreshOne DEF Levels

\* The passes of the streamed route (strassen_four_pass).
LEMMA StreamedFresh == ASSUME NEW p PROVE Fresh(Streamed(p), CodeDos)
<1>0. SafeDos \subseteq CodeDos
  BY DEF CodeDos
<1>1. \A r, w : IsFresh(Kernel(r, w), CodeDos) /\ IsFresh(Blas(r, w), CodeDos)
  BY ONLY <1>0, Launches
<1> DEFINE passes == [i \in 1..28 |-> strassen_four_pass(p, ((i - 1) \div 4) + 1)[((i - 1) % 4) + 1]]
<1>2. \A k : \A m \in 1..4 : IsFresh(strassen_four_pass(p, k)[m], CodeDos)
  BY ONLY <1>1 DEF strassen_four_pass
<1>3. ASSUME NEW i \in 1..28 PROVE IsFresh(passes[i], CodeDos)
  <2>1. ((i - 1) % 4) + 1 \in 1..4
    OBVIOUS
  <2> QED BY <1>2, <2>1
<1>4. DOMAIN passes = 1..28
  OBVIOUS
<1> HIDE DEF passes
<1>5. IsSeq(passes)
  <2>1. passes \in [1..28 -> Range(passes)]
    <3>1. passes = [i \in 1..28 |-> passes[i]]
      BY DEF passes
    <3>2. \A i \in 1..28 : passes[i] \in Range(passes)
      BY <1>4 DEF Range
    <3> QED BY <3>1, <3>2
  <2> QED BY <2>1, SeqDef DEF IsSeq
<1>6. Fresh(passes, CodeDos)
  BY <1>3, <1>4, <1>5 DEF Fresh, Code, Untried, Range, IsFresh
<1> DEFINE a == Kernel({}, {Sum(p)})
           b == Kernel({With(Sum(p), "seventh")} \cup Prior(p), {p.c})
<1>7. IsFresh(a, CodeDos) /\ IsFresh(b, CodeDos)
  BY ONLY <1>1
<1> HIDE DEF a, b
<1>8. Fresh(<<a>>, CodeDos) /\ Fresh(<<b>>, CodeDos)
  BY ONLY <1>7, FreshOne
<1>9. Fresh(<<a>> \o passes, CodeDos)
  BY ONLY <1>6, <1>8, FreshConcatenated
<1>10. Fresh((<<a>> \o passes) \o <<b>>, CodeDos)
  BY ONLY <1>8, <1>9, FreshConcatenated
<1> QED BY <1>10 DEF Streamed, passes, a, b

\* Whichever Strassen route an algorithm takes, it is code that may be executed outside captures.
LEMMA strassens ==
  ASSUME NEW p, NEW alg
  PROVE  Fresh(strassen(p, alg), CodeDos)
<1>0. SafeDos \subseteq CodeDos
  BY DEF CodeDos
<1>1. Fresh(classical(p), CodeDos)
  BY ONLY <1>0, classicals
<1>2. \A level, low : Fresh(low, CodeDos) => Fresh(Levels(p, level, low), CodeDos)
  BY ONLY LevelsFresh
<1>3. Fresh(strassen_four_streamed(p), CodeDos)
  <2> DEFINE check == <<Kernel({p.a, p.b, Named("guard", "clear")}, {Named("guard", "range")})>>
             size == ScratchSize(p.n, 4) \div 7 + (IF p.beta THEN Units(p.n * p.n) ELSE 0)
  <2>1. Fresh(check, CodeDos)
    BY ONLY <1>0, Launches, FreshOne
  <2>2. Fresh(Streamed(p), CodeDos)
    BY ONLY StreamedFresh
  <2>3. Fresh(Checked(check, Streamed(p), p), CodeDos)
    BY ONLY <2>1, <2>2, Checks
  <2>4. "arena" \in Arenas
    BY DEF Arenas
  <2> HIDE DEF check, size
  <2>5. IsFresh(Reserve(size, "arena", Checked(check, Streamed(p), p), classical(p)), CodeDos)
    BY ONLY <2>3, <2>4, <1>0, <1>1, Reserves
  <2>6. Fresh(<<Reserve(size, "arena", Checked(check, Streamed(p), p), classical(p))>>, CodeDos)
    BY ONLY <2>5, FreshOne
  <2> QED BY <2>6 DEF check, size, strassen_four_streamed
<1>4. Fresh(Levels(p, 3, Levels(p, 2, classical(p))), CodeDos)
  BY ONLY <1>1, <1>2
<1>5. \A lower : Fresh(Levels(p, lower, classical(p)), CodeDos)
  BY ONLY <1>1, <1>2
<1> QED BY ONLY <1>3, <1>4, <1>5, Zenon DEF strassen

\* cuBLASLt products, and the tries of the tuning.
LEMMA Products ==
  ASSUME NEW p, NEW epilogue, NEW unsupported, NEW dos, SafeDos \subseteq dos,
         Fresh(unsupported, dos)
  PROVE  Fresh(lt_call(p), dos) /\ Fresh(unfused(p, epilogue, unsupported), dos)
<1>1. Fresh(lt_call(p), dos)
  BY ONLY SafeDos \subseteq dos, Launches, FreshOne DEF lt_call
<1>2. Fresh(bias_activation(p), dos)
  BY ONLY SafeDos \subseteq dos, Launches, FreshOne DEF bias_activation
<1>3. IsFresh(Lt(Partial(p), "none", bias_activation(p), unsupported), dos)
  BY ONLY <1>2, Fresh(unsupported, dos), SafeDos \subseteq dos, Lts
<1>4. Fresh(<<Lt(Partial(p), "none", bias_activation(p), unsupported)>>, dos)
  BY ONLY <1>3, FreshOne
<1>5. Fresh(classical(p), dos)
  BY ONLY classicals, SafeDos \subseteq dos
<1> QED BY ONLY <1>1, <1>4, <1>5, Zenon DEF unfused

\* An attempt at a program is a program.
LEMMA Attempts == ASSUME NEW p, NEW dos, Code(p, dos) PROVE Code(Attempt(p), dos)
<1>1. IsSeq(p)
  BY DEF Code
<1>2. Len(p) \in Nat /\ DOMAIN p = 1..Len(p)
  BY <1>1 DEF IsSeq
<1>3. DOMAIN Attempt(p) = 1..Len(p)
  BY <1>2 DEF Attempt
<1>4. IsSeq(Attempt(p))
  <2> DEFINE q == Attempt(p)
  <2>1. q = [i \in 1..Len(p) |-> q[i]]
    BY <1>2 DEF Attempt
  <2> HIDE DEF q
  <2>2. \A i \in 1..Len(p) : q[i] \in Range(q)
    BY <1>3 DEF Range, q
  <2>3. q \in [1..Len(p) -> Range(q)]
    BY <2>1, <2>2
  <2>4. IsSeq(q)
    BY <2>3, <1>2, SeqDef DEF IsSeq
  <2> QED BY <2>4 DEF q
<1>5. ASSUME NEW i, IsCode(i, dos), i.do \in {"launch", "lt"}
      PROVE  IsCode([i EXCEPT !.tried = TRUE], dos)
  <2>1. i.do \in dos /\ HasFields(i) /\ \A q \in Inside(i) : Fresh(q, dos)
    BY <1>5, CodeDown
  <2>2. PICK j : j = [i EXCEPT !.tried = TRUE]
    OBVIOUS
  <2>3. DOMAIN j = DOMAIN i /\ j.do = i.do
    BY <2>1, <2>2, <1>5 DEF HasFields
  <2>4. i.do = "lt" => j.then = i.then /\ j.unsupported = i.unsupported
    BY <2>1, <2>2 DEF HasFields
  <2>5. j.do \in dos /\ HasFields(j) /\ Inside(j) = Inside(i)
    BY <2>1, <2>3, <2>4, <1>5 DEF HasFields, Inside
  <2>6. IsCode(j, dos)
    BY ONLY <2>1, <2>5, CodeUp
  <2> QED BY <2>2, <2>6
<1>6. ASSUME NEW k \in 1..Len(p) PROVE IsCode(Attempt(p)[k], dos)
  <2>1. IsCode(p[k], dos)
    BY <1>2 DEF Code, Range
  <2>2. Attempt(p)[k] = IF p[k].do \in {"launch", "lt"} THEN [p[k] EXCEPT !.tried = TRUE] ELSE p[k]
    BY <1>2 DEF Attempt
  <2> QED BY <2>1, <2>2, <1>5
<1> QED BY <1>3, <1>4, <1>6 DEF Code, Range

\* Every try of the tuning is followed by a wait.
WaitsLater(p) ==
  \A k \in 1..Len(p) : Tried(p[k]) => \E l \in (k + 1)..Len(p) : p[l].do = "synchronize"

\* A program without a try of the tuning needs no wait.
LEMMA WaitsWhenUntried == ASSUME NEW p, IsSeq(p), Untried(p) PROVE WaitsLater(p)
<1>1. DOMAIN p = 1..Len(p)
  BY DEF IsSeq
<1> QED BY <1>1 DEF WaitsLater, Untried, Range

\* Tries are still followed by a wait when code is put in front (Continue).
LEMMA WaitsConcatenated ==
  ASSUME NEW p, NEW q, IsSeq(p), IsSeq(q), WaitsLater(q),
         WaitsLater(p) \/ \E l \in 1..Len(q) : q[l].do = "synchronize"
  PROVE  WaitsLater(p \o q)
<1>1. /\ Len(p \o q) = Len(p) + Len(q) /\ Len(p) \in Nat /\ Len(q) \in Nat
      /\ \A i \in 1..Len(p) : (p \o q)[i] = p[i]
      /\ \A i \in 1..Len(q) : (p \o q)[Len(p) + i] = q[i]
  <2>1. Len(p) \in Nat /\ Len(q) \in Nat
    BY DEF IsSeq
  <2> QED BY <2>1, Concatenated
<1> SUFFICES ASSUME NEW k \in 1..(Len(p) + Len(q)), Tried((p \o q)[k])
             PROVE  \E l \in (k + 1)..(Len(p) + Len(q)) : (p \o q)[l].do = "synchronize"
  BY <1>1 DEF WaitsLater
<1>2. CASE k <= Len(p)
  <2>1. k \in 1..Len(p) /\ Tried(p[k])
    BY <1>1, <1>2
  <2>2. CASE WaitsLater(p)
    <3>1. PICK l \in (k + 1)..Len(p) : p[l].do = "synchronize"
      BY <2>1, <2>2 DEF WaitsLater
    <3>2. l \in 1..Len(p) /\ l \in (k + 1)..(Len(p) + Len(q))
      BY <3>1, <2>1, <1>1
    <3>3. (p \o q)[l].do = "synchronize"
      BY <3>1, <3>2, <1>1
    <3> QED BY <3>2, <3>3
  <2>3. CASE \E l \in 1..Len(q) : q[l].do = "synchronize"
    <3>1. PICK l \in 1..Len(q) : q[l].do = "synchronize"
      BY <2>3
    <3>2. Len(p) + l \in (k + 1)..(Len(p) + Len(q))
      BY <3>1, <2>1, <1>1
    <3>3. (p \o q)[Len(p) + l].do = "synchronize"
      BY <3>1, <1>1
    <3> QED BY <3>2, <3>3
  <2> QED BY <2>2, <2>3
<1>3. CASE k > Len(p)
  <2>1. PICK m \in 1..Len(q) : k = Len(p) + m
    <3>1. k - Len(p) \in 1..Len(q) /\ k = Len(p) + (k - Len(p))
      BY <1>1, <1>3
    <3> QED BY <3>1
  <2>2. Tried(q[m])
    BY <2>1, <1>1
  <2>3. PICK l \in (m + 1)..Len(q) : q[l].do = "synchronize"
    BY <2>2 DEF WaitsLater
  <2>4. l \in 1..Len(q) /\ Len(p) + l \in (k + 1)..(Len(p) + Len(q))
    BY <2>1, <2>3, <1>1
  <2>5. (p \o q)[Len(p) + l].do = "synchronize"
    BY <2>3, <2>4, <1>1
  <2> QED BY <2>4, <2>5
<1>4. k <= Len(p) \/ k > Len(p)
  <2>1. Len(p) \in Nat /\ Len(q) \in Nat
    BY <1>1
  <2> QED BY ONLY <2>1, k \in 1..(Len(p) + Len(q))
<1> QED BY <1>2, <1>3, <1>4

\* The programs of the tuning.
LEMMA Tunings ==
  ASSUME NEW p, NEW epilogue
  PROVE  Code(Tuning(p, epilogue), CodeDos) /\ WaitsLater(Tuning(p, epilogue))
<1>0. SafeDos \subseteq CodeDos
  BY DEF CodeDos
<1> DEFINE A == Attempt(lt_call(p))
           B == Attempt(unfused(p, epilogue, <<>>))
           i == [do |-> "tuned", key |-> PlanKey(p, epilogue), inner |-> PlanKey(p, "none")]
<1>1. Code(A, CodeDos) /\ Code(B, CodeDos)
  <2>1. Fresh(<<>>, CodeDos)
    BY ONLY FreshNone
  <2>2. Code(lt_call(p), CodeDos) /\ Code(unfused(p, epilogue, <<>>), CodeDos)
    BY ONLY <2>1, <1>0, Products DEF Fresh
  <2> QED BY ONLY <2>2, Attempts
<1>2. Fresh(<<i>>, CodeDos)
  <2>1. PICK j : j = i
    OBVIOUS
  <2>2. j.do \in CodeDos /\ HasFields(j) /\ Inside(j) = {} /\ ~Tried(j)
    BY <2>1 DEF HasFields, Inside, Tried, CodeDos
  <2>3. IsFresh(j, CodeDos)
    BY ONLY <2>2, CodeUp DEF IsFresh
  <2>4. Fresh(<<j>>, CodeDos)
    BY ONLY <2>3, FreshOne
  <2> QED BY <2>1, <2>4
<1> HIDE DEF A, B, i
<1>3. Fresh(Wait, CodeDos)
  BY Waits
<1>4. Code(Wait, CodeDos) /\ Code(<<i>>, CodeDos)
  BY <1>2, <1>3 DEF Fresh
<1>5. Code(A \o Wait, CodeDos)
  BY ONLY <1>1, <1>4, CodeConcatenated
<1>6. Code((A \o Wait) \o B, CodeDos)
  BY ONLY <1>1, <1>5, CodeConcatenated
<1>7. Code(((A \o Wait) \o B) \o Wait, CodeDos)
  BY ONLY <1>4, <1>6, CodeConcatenated
<1>8. Code((((A \o Wait) \o B) \o Wait) \o <<i>>, CodeDos)
  BY ONLY <1>4, <1>7, CodeConcatenated
<1>9. WaitsLater(((A \o Wait) \o B) \o Wait)
  <2>1. IsSeq((A \o Wait) \o B) /\ IsSeq(Wait) /\ WaitsLater(Wait)
    BY <1>3, <1>6, WaitsWhenUntried DEF Code, Fresh
  <2>2. \E l \in 1..Len(Wait) : Wait[l].do = "synchronize"
    BY DEF Wait
  <2> QED BY ONLY <2>1, <2>2, WaitsConcatenated
<1>10. WaitsLater((((A \o Wait) \o B) \o Wait) \o <<i>>)
  <2>1. IsSeq(((A \o Wait) \o B) \o Wait) /\ IsSeq(<<i>>) /\ WaitsLater(<<i>>)
    BY <1>2, <1>7, WaitsWhenUntried DEF Code, Fresh
  <2> QED BY ONLY <2>1, <1>9, WaitsConcatenated
<1> QED BY <1>8, <1>10 DEF Tuning, A, B, i

-----------------------------------------------------------------------------
(* What a call still has to do: code, and at the end its return. *)
CallTodo(todo, dos) ==
  /\ IsSeq(todo) /\ todo # <<>> /\ todo[Len(todo)].do = "return"
  /\ \A k \in 1..(Len(todo) - 1) : IsCode(todo[k], dos)
  /\ WaitsLater(todo)

\* The next instruction of a call.
LEMMA NextIsCode ==
  ASSUME NEW todo, NEW dos, CallTodo(todo, dos), Head(todo).do # "return"
  PROVE  /\ IsCode(Head(todo), dos) /\ Len(todo) \in Nat /\ Len(todo) > 1
         /\ Head(todo) = todo[1]
<1>1. IsSeq(todo) /\ todo # <<>>
  BY DEF CallTodo
<1>2. Len(todo) \in Nat \ {0} /\ Head(todo) = todo[1]
  BY ONLY <1>1, Rested
<1>3. Len(todo) # 1
  BY <1>2 DEF CallTodo
<1>4. Len(todo) > 1 /\ 1 \in 1..(Len(todo) - 1)
  <2>1. PICK n : n = Len(todo)
    OBVIOUS
  <2>2. n \in Nat \ {0} /\ n # 1
    BY <1>2, <1>3, <2>1
  <2>3. n > 1 /\ 1 \in 1..(n - 1)
    BY ONLY <2>2
  <2> QED BY <2>1, <2>3
<1> QED BY <1>2, <1>4 DEF CallTodo

\* A program in place of the next instruction (Continue).
LEMMA NextTodo ==
  ASSUME NEW todo, NEW dos, CallTodo(todo, dos), Head(todo).do # "return",
         NEW p, Code(p, dos), WaitsLater(p) \/ Tried(Head(todo))
  PROVE  CallTodo(p \o Tail(todo), dos)
<1>1. IsSeq(todo) /\ todo # <<>>
  BY DEF CallTodo
<1>2. Len(todo) \in Nat /\ Len(todo) > 1 /\ Head(todo) = todo[1]
  BY ONLY NextIsCode, CallTodo(todo, dos), Head(todo).do # "return"
<1>3. /\ IsSeq(Tail(todo)) /\ Len(Tail(todo)) = Len(todo) - 1
      /\ \A i \in 1..(Len(todo) - 1) : Tail(todo)[i] = todo[i + 1]
  BY ONLY <1>1, Rested
<1>4. IsSeq(p) /\ Len(p) \in Nat
  BY DEF Code, IsSeq
<1> DEFINE r == Tail(todo)
           q == p \o r
<1>5. /\ IsSeq(q) /\ Len(q) = Len(p) + Len(r)
      /\ \A i \in 1..Len(p) : q[i] = p[i]
      /\ \A i \in 1..Len(r) : q[Len(p) + i] = r[i]
  BY ONLY <1>3, <1>4, Concatenated
<1>6. WaitsLater(r)
  <2> SUFFICES ASSUME NEW k \in 1..Len(r), Tried(r[k])
               PROVE  \E l \in (k + 1)..Len(r) : r[l].do = "synchronize"
    BY DEF WaitsLater
  <2>1. k + 1 \in 1..Len(todo) /\ Tried(todo[k + 1])
    BY <1>2, <1>3
  <2>2. PICK l \in (k + 2)..Len(todo) : todo[l].do = "synchronize"
    BY <2>1 DEF CallTodo, WaitsLater
  <2>3. l - 1 \in (k + 1)..Len(r) /\ l - 1 \in 1..(Len(todo) - 1) /\ (l - 1) + 1 = l
    BY <2>1, <2>2, <1>2, <1>3
  <2>4. r[l - 1] = todo[l]
    BY <2>3, <1>3
  <2> QED BY <2>2, <2>3, <2>4
<1>7. WaitsLater(p) \/ \E l \in 1..Len(r) : r[l].do = "synchronize"
  <2> SUFFICES ASSUME Tried(Head(todo)) PROVE \E l \in 1..Len(r) : r[l].do = "synchronize"
    OBVIOUS
  <2>1. 1 \in 1..Len(todo) /\ Tried(todo[1])
    BY <1>2
  <2>2. PICK l \in 2..Len(todo) : todo[l].do = "synchronize"
    BY <2>1 DEF CallTodo, WaitsLater
  <2>3. l - 1 \in 1..Len(r) /\ l - 1 \in 1..(Len(todo) - 1) /\ (l - 1) + 1 = l
    BY <2>2, <1>2, <1>3
  <2>4. r[l - 1] = todo[l]
    BY <2>3, <1>3
  <2> QED BY <2>2, <2>3, <2>4
<1>8. WaitsLater(q)
  BY ONLY <1>3, <1>4, <1>6, <1>7, WaitsConcatenated
<1>9. q # <<>> /\ q[Len(q)].do = "return"
  <2>1. Len(r) \in 1..Len(r) /\ Len(q) = Len(p) + Len(r) /\ Len(todo) - 1 \in 1..(Len(todo) - 1)
    BY <1>2, <1>3, <1>5
  <2>2. q[Len(q)] = r[Len(r)] /\ r[Len(r)] = todo[Len(todo)]
    BY <2>1, <1>2, <1>3, <1>5
  <2>3. Len(q) # 0
    BY <1>2, <1>3, <1>4, <1>5
  <2>4. q # <<>>
    <3> HIDE DEF q
    <3> QED BY <2>3
  <2>5. todo[Len(todo)].do = "return"
    BY DEF CallTodo
  <2> QED BY ONLY <2>2, <2>4, <2>5
<1>10. ASSUME NEW k \in 1..(Len(q) - 1) PROVE IsCode(q[k], dos)
  <2>1. CASE k <= Len(p)
    <3>1. q[k] = p[k] /\ k \in 1..Len(p)
      BY <2>1, <1>4, <1>5
    <3>2. p[k] \in Range(p)
      BY <3>1, <1>4 DEF Range, IsSeq
    <3> QED BY <3>1, <3>2 DEF Code
  <2>2. CASE k > Len(p)
    <3>1. PICK m \in 1..(Len(r) - 1) : k = Len(p) + m
      <4>1. k - Len(p) \in 1..(Len(r) - 1) /\ k = Len(p) + (k - Len(p))
        BY <2>2, <1>2, <1>3, <1>4, <1>5
      <4> QED BY <4>1
    <3>2. m \in 1..Len(r) /\ m \in 1..(Len(todo) - 1) /\ m + 1 \in 1..(Len(todo) - 1)
      BY <3>1, <1>2, <1>3
    <3>3. q[k] = todo[m + 1]
      BY <3>1, <3>2, <1>3, <1>5
    <3> QED BY <3>2, <3>3 DEF CallTodo
  <2>3. k <= Len(p) \/ k > Len(p)
    <3>1. Len(p) \in Nat /\ Len(q) \in Nat
      BY <1>2, <1>3, <1>4, <1>5
    <3> QED BY ONLY <3>1, k \in 1..(Len(q) - 1)
  <2> QED BY <2>1, <2>2, <2>3
<1> QED BY <1>5, <1>8, <1>9, <1>10 DEF CallTodo

\* A failing try is left out, up to the wait that follows it (LaunchFails).
LEMMA LeftTodo ==
  ASSUME NEW todo, NEW dos, CallTodo(todo, dos), Tried(Head(todo))
  PROVE  CallTodo(Left(todo), dos)
<1> DEFINE S == {i \in 1..Len(todo) : todo[i].do = "synchronize"}
           n == Len(todo)
           m == Min(S)
           q == Left(todo)
<1>1. Head(todo).do # "return" /\ IsSeq(todo)
  BY DEF Tried, CallTodo
<1>2. n \in Nat /\ n > 1 /\ Head(todo) = todo[1]
  BY ONLY <1>1, NextIsCode, CallTodo(todo, dos)
<1>3. S # {}
  <2>1. 1 \in 1..n /\ Tried(todo[1])
    BY <1>2
  <2>2. PICK l \in 2..n : todo[l].do = "synchronize"
    BY <2>1 DEF CallTodo, WaitsLater
  <2>3. l \in 1..n
    OBVIOUS
  <2> QED BY <2>2, <2>3
<1>4. m \in S
  <2>1. S \subseteq Nat
    BY <1>2
  <2> HIDE DEF S
  <2> QED BY ONLY <2>1, <1>3, FirstOf
<1>5. q = SubSeq(todo, m, n)
  BY <1>3 DEF Left, SelectInSeq
<1>6. m \in 1..n /\ m # n
  <2>1. m \in 1..n /\ todo[m].do = "synchronize"
    BY <1>4
  <2> QED BY <2>1 DEF CallTodo
<1> HIDE DEF m, q, S
<1>7. /\ IsSeq(q) /\ Len(q) = n - m + 1
      /\ \A k \in 1..(n - m + 1) : q[k] = todo[m + k - 1]
  <2>1. todo \in Seq(Range(todo))
    BY <1>1 DEF IsSeq
  <2>2. q \in Seq(Range(todo)) /\ Len(q) = n - m + 1
        /\ \A k \in 1..(n - m + 1) : q[k] = todo[m + k - 1]
    BY ONLY <2>1, <1>2, <1>5, <1>6
  <2>3. IsSeq(q)
    BY ONLY <2>2, OwnRange
  <2> QED BY <2>2, <2>3
<1> HIDE DEF n
<1>8. q # <<>> /\ q[Len(q)].do = "return"
  <2>1. Len(q) \in 1..(n - m + 1) /\ m + Len(q) - 1 = n
    BY <1>2, <1>6, <1>7
  <2>2. q[Len(q)] = todo[n]
    BY <2>1, <1>7
  <2> QED BY <2>1, <2>2, <1>7 DEF CallTodo, n
<1>9. ASSUME NEW k \in 1..(Len(q) - 1) PROVE IsCode(q[k], dos)
  <2>1. k \in 1..(n - m + 1) /\ m + k - 1 \in 1..(n - 1)
    BY <1>2, <1>6, <1>7
  <2> QED BY <2>1, <1>7 DEF CallTodo, n
<1>10. WaitsLater(q)
  <2> SUFFICES ASSUME NEW k \in 1..Len(q), Tried(q[k])
               PROVE  \E l \in (k + 1)..Len(q) : q[l].do = "synchronize"
    BY DEF WaitsLater
  <2>1. k \in 1..(n - m + 1) /\ m + k - 1 \in 1..n
    BY <1>2, <1>6, <1>7
  <2>2. Tried(todo[m + k - 1])
    BY <2>1, <1>7
  <2>3. PICK l \in ((m + k - 1) + 1)..n : todo[l].do = "synchronize"
    BY <2>1, <2>2 DEF CallTodo, WaitsLater, n
  <2>4. l - m + 1 \in (k + 1)..Len(q) /\ l - m + 1 \in 1..(n - m + 1) /\ m + (l - m + 1) - 1 = l
    BY <2>1, <2>3, <1>2, <1>6, <1>7
  <2>5. q[l - m + 1] = todo[l]
    BY <2>4, <1>7
  <2> QED BY <2>3, <2>4, <2>5
<1>11. IsSeq(q)
  BY <1>7
<1> QED BY ONLY <1>8, <1>9, <1>10, <1>11 DEF CallTodo, q

\* The end of every call (Entered, Unwind).
LEMMA EndTodo ==
  ASSUME NEW p, NEW dos, Fresh(p, dos), NEW host, host \in BOOLEAN, host => dos = CodeDos,
         NEW reads
  PROVE  CallTodo((p \o HostCompletion(host)) \o <<[do |-> "return", reads |-> reads]>>, dos)
<1>1. Fresh(HostCompletion(host), dos)
  BY FreshNone, Waits DEF HostCompletion
<1> DEFINE q == p \o HostCompletion(host)
           r == [do |-> "return", reads |-> reads]
           todo == q \o <<r>>
<1>2. Fresh(q, dos)
  BY ONLY <1>1, Fresh(p, dos), FreshConcatenated
<1>3. IsSeq(q) /\ Len(q) \in Nat /\ DOMAIN q = 1..Len(q) /\ WaitsLater(q)
  <2>1. IsSeq(q) /\ Untried(q)
    BY <1>2, Zenon DEF Fresh, Code
  <2>2. WaitsLater(q)
    BY ONLY <2>1, WaitsWhenUntried
  <2> HIDE DEF q
  <2>3. Len(q) \in Nat /\ DOMAIN q = 1..Len(q)
    BY <2>1 DEF IsSeq
  <2> QED BY <2>1, <2>2, <2>3
<1>4. r.do = "return"
  OBVIOUS
<1> HIDE DEF q, r
<1>5. IsSeq(<<r>>) /\ Len(<<r>>) = 1 /\ <<r>>[1] = r
  BY DEF IsSeq, Range
<1>6. WaitsLater(<<r>>)
  BY <1>4, <1>5 DEF WaitsLater, Tried
<1>7. /\ IsSeq(todo) /\ Len(todo) = Len(q) + 1
      /\ \A i \in 1..Len(q) : todo[i] = q[i]
      /\ todo[Len(q) + 1] = r
  <2>1. 1 \in 1..Len(<<r>>)
    BY <1>5
  <2> QED BY ONLY <2>1, <1>3, <1>5, Concatenated
<1>8. WaitsLater(todo)
  BY ONLY <1>3, <1>5, <1>6, WaitsConcatenated
<1>9. todo # <<>> /\ todo[Len(todo)].do = "return"
  BY <1>3, <1>4, <1>7
<1>10. \A k \in 1..(Len(todo) - 1) : IsCode(todo[k], dos)
  BY <1>2, <1>3, <1>7 DEF Fresh, Code, Range
<1>11. CallTodo(todo, dos)
  BY <1>7, <1>8, <1>9, <1>10 DEF CallTodo
<1> QED BY <1>11 DEF q, r

\* What an error leaves of a call: the wait of a call on host memory, and the return.
LEMMA UnwindTodo ==
  ASSUME NEW dos, NEW host, host \in BOOLEAN, host => dos = CodeDos
  PROVE  CallTodo(Unwind(host), dos)
<1>1. Fresh(<<>>, dos)
  BY FreshNone
<1>2. CallTodo((<<>> \o HostCompletion(host)) \o <<[do |-> "return", reads |-> {}]>>, dos)
  BY ONLY <1>1, host \in BOOLEAN, host => dos = CodeDos, EndTodo
<1>3. <<>> \o HostCompletion(host) = HostCompletion(host)
  <2>1. HostCompletion(host) = <<>> \/ HostCompletion(host) = Wait
    BY DEF HostCompletion
  <2>2. <<>> \o <<>> = <<>>
    OBVIOUS
  <2>3. <<>> \o Wait = Wait
    <3>1. Wait \in Seq(Range(Wait))
      BY Waits DEF Fresh, Code, IsSeq
    <3> QED BY ONLY <3>1
  <2> QED BY <2>1, <2>2, <2>3
<1> QED BY <1>2, <1>3 DEF Unwind

-----------------------------------------------------------------------------
(* What each thread is doing. *)
Dos == IF Capturing THEN SafeDos ELSE CodeDos

CallFields == {"todo", "id", "context", "pointer", "host"}
ContextFields ==
  {"state", "algorithm", "scratch", "scratch_bytes", "scratch_captured", "retired_allocations",
   "lt_workspace", "wide", "guard", "host_guard", "plans"}

TypeOK ==
  /\ calls \in Nat /\ capture \in {"none", "active", "graph", "destroyed"}
  /\ DOMAIN script = Threads /\ \A t \in Threads : IsProgram(script[t], IsTurn)
  /\ ended \subseteq Threads
  /\ DOMAIN call = Threads /\ \A t \in Threads : DOMAIN call[t] = CallFields
  /\ DOMAIN context = Contexts /\ \A c \in Contexts : DOMAIN context[c] = ContextFields
  /\ DOMAIN handle = Threads /\ \A t \in Threads : DOMAIN handle[t] = BOOLEAN
  /\ registry \subseteq Contexts

\* Outside of calls.
Outside(t) == call[t].id = 0 /\ call[t].context = 0 /\ call[t].pointer = <<>>
AtRest(t) == Outside(t) /\ call[t].todo = <<>>

\* Between the creation of a context and its registration.
Creating(t) ==
  /\ call[t].id # 0 /\ call[t].context = 0 /\ call[t].pointer = <<>>
  /\ ~Capturing /\ t \notin ended
  /\ script[t] # <<>> /\ Head(script[t]).do = "call"
  /\ \E c \in Contexts : call[t].todo = <<[do |-> "register", context |-> c]>>

\* In a call, on a context one of its handles has.
Calling(t) ==
  /\ call[t].id # 0 /\ t \notin ended
  /\ call[t].context \in registry /\ \E k \in BOOLEAN : handle[t][k] = call[t].context
  /\ call[t].host \in BOOLEAN /\ (Capturing => ~call[t].host)
  /\ CallTodo(call[t].todo, Dos)

\* Destroying contexts: after a failed registration, at the end, or in close().
LeavingDos == {"synchronize", "await", "release", "destroy", "clear", "erase", "destroy own"}
IsLeaving(i) ==
  /\ i.do \in LeavingDos
  /\ i.do = "destroy" => {"do", "context"} \subseteq DOMAIN i
  /\ i.do \in {"erase", "destroy own"} => i.host \in BOOLEAN
LeavingTodo(todo, over) ==
  /\ IsSeq(todo) /\ todo # <<>>
  /\ \A i \in Range(todo) : IsLeaving(i) /\ (i.do \in {"erase", "destroy own"} => over)
  /\ \A k \in 2..Len(todo) : todo[k].do # "destroy own"
Leaving(t) ==
  /\ Outside(t) /\ ~Capturing
  /\ LeavingTodo(call[t].todo, t \in ended)

Mode(t) == AtRest(t) \/ Creating(t) \/ Calling(t) \/ Leaving(t)
Shape == TypeOK /\ \A t \in Threads : Mode(t)

-----------------------------------------------------------------------------
(* Who has each context: the registry, or one instruction that will        *)
(* register or destroy it, or a handle of a thread that ends.              *)
Doom(i) == i.do \in {"register", "destroy", "release"}
Dying(todo) == {i.context : i \in {j \in Range(todo) : Doom(j)}}
OnceEach(todo) ==
  \A i, j \in 1..Len(todo) :
    i # j /\ Doom(todo[i]) /\ Doom(todo[j]) => todo[i].context # todo[j].context
Leaves(t, k) == At(t, "destroy own") /\ Instruction(t).host = k
Orphans == {c \in LiveContexts \ registry : \A u \in Threads : c \notin Dying(call[u].todo)}
Separate ==
  /\ registry \subseteq LiveContexts
  /\ \A t \in Threads : \A k \in BOOLEAN :
       handle[t][k] \in {Null} \cup (IF Leaves(t, k) THEN Orphans ELSE registry \cup {Absent})
  /\ \A t, u \in Threads : \A h, k \in BOOLEAN :
       handle[t][h] = handle[u][k] /\ handle[t][h] \notin {Absent, Null} => t = u /\ h = k
  /\ \A t \in Threads : /\ Dying(call[t].todo) \subseteq LiveContexts \ registry
                        /\ OnceEach(call[t].todo)
  /\ \A t, u \in Threads : t # u => Dying(call[t].todo) \cap Dying(call[u].todo) = {}

-----------------------------------------------------------------------------
(* Who will release each block. A pointer into a context's arena is not    *)
(* what keeps it.                                                          *)
AllOwned == UNION {Owned(context[c]) : c \in Contexts}
Kept ==
  /\ IsSeq(queue) /\ IsSeq(graph) /\ allocated \subseteq Blocks /\ allocated \subseteq Owners
  /\ \A t \in Threads : \A n \in Arenas \cap DOMAIN call[t].pointer :
       call[t].pointer[n] \in allocated => call[t].pointer[n] \in AllOwned

\* A context that has not been created has nothing.
Untouched == \A c \in Contexts : context[c].state = "unused" => Owned(context[c]) = {}

IInv == Shape /\ Separate /\ Untouched /\ Kept

-----------------------------------------------------------------------------
(* The steps of a call. *)
SafeIsCode == SafeDos \subseteq Dos /\ SafeDos \subseteq CodeDos

\* Whatever the thread executes, it may execute what a capture allows.
LEMMA Dosed == SafeIsCode /\ (~Capturing => Dos = CodeDos) /\ (Capturing => Dos = SafeDos)
  BY DEF Dos, SafeIsCode, CodeDos

\* The instructions of calls are only met in calls.
LEMMA InACall ==
  ASSUME NEW t, Mode(t), NEW what, At(t, what),
         what \in (CodeDos \cup {"return"}) \ {"synchronize", "await"}
  PROVE  Calling(t)
<1>1. call[t].todo # <<>> /\ Head(call[t].todo).do = what
  BY DEF At
<1>2. ~AtRest(t)
  BY <1>1 DEF AtRest
<1>3. ~Creating(t)
  <2> SUFFICES ASSUME NEW c, call[t].todo = <<[do |-> "register", context |-> c]>> PROVE FALSE
    BY DEF Creating
  <2>1. Head(call[t].todo).do = "register"
    OBVIOUS
  <2> QED BY <2>1, <1>1 DEF CodeDos, SafeDos
<1>4. ~Leaving(t)
  <2> SUFFICES ASSUME Leaving(t) PROVE FALSE
    OBVIOUS
  <2>1. IsSeq(call[t].todo) /\ \A i \in Range(call[t].todo) : i.do \in LeavingDos
    BY DEF Leaving, LeavingTodo, IsLeaving
  <2>2. Head(call[t].todo) \in Range(call[t].todo)
    BY ONLY <1>1, <2>1, Rested
  <2> QED BY ONLY <1>1, <2>1, <2>2, what \in (CodeDos \cup {"return"}) \ {"synchronize", "await"}
          DEF LeavingDos, CodeDos, SafeDos
<1> QED BY <1>2, <1>3, <1>4 DEF Mode

\* A wait is met in calls outside of captures and while contexts are destroyed.
LEMMA InAWait ==
  ASSUME NEW t, Mode(t), NEW what \in {"synchronize", "await"}, At(t, what)
  PROVE  (Calling(t) \/ Leaving(t)) /\ ~Capturing
<1>1. call[t].todo # <<>> /\ Head(call[t].todo).do = what
  BY DEF At
<1>2. ~AtRest(t)
  BY <1>1 DEF AtRest
<1>3. ~Creating(t)
  <2> SUFFICES ASSUME NEW c, call[t].todo = <<[do |-> "register", context |-> c]>> PROVE FALSE
    BY DEF Creating
  <2>1. Head(call[t].todo).do = "register"
    OBVIOUS
  <2> QED BY <2>1, <1>1
<1>4. Calling(t) => ~Capturing
  <2> SUFFICES ASSUME Calling(t), Capturing PROVE FALSE
    OBVIOUS
  <2>1. CallTodo(call[t].todo, SafeDos) /\ Head(call[t].todo).do # "return"
    BY <1>1, Dosed DEF Calling
  <2>2. IsCode(Head(call[t].todo), SafeDos)
    BY ONLY <2>1, NextIsCode
  <2>3. Head(call[t].todo).do \in SafeDos
    BY ONLY <2>2, CodeDown
  <2> QED BY <2>3, <1>1 DEF SafeDos
<1>5. Leaving(t) => ~Capturing
  BY DEF Leaving
<1> QED BY <1>2, <1>3, <1>4, <1>5 DEF Mode

\* What a step of a call may do to the calls and to the contexts.
Moves(t) ==
  /\ DOMAIN call' = Threads /\ \A u \in Threads \ {t} : call'[u] = call[u]
  /\ DOMAIN call'[t] = CallFields
  /\ call'[t].id = call[t].id /\ call'[t].context = call[t].context
  /\ call'[t].host = call[t].host
  /\ CallTodo(call'[t].todo, Dos)
KeepsStates ==
  DOMAIN context' = Contexts /\ \A c \in Contexts : /\ DOMAIN context'[c] = ContextFields
                                                    /\ context'[c].state = context[c].state
Advances(t) == Moves(t) /\ KeepsStates /\ capture' = capture

\* An instruction is replaced by code of the same kind (Continue).
LEMMA Continues ==
  ASSUME TypeOK, NEW t \in Threads, Calling(t), Head(call[t].todo).do # "return",
         NEW p, Code(p, Dos), WaitsLater(p) \/ Tried(Head(call[t].todo)), Continue(t, p)
  PROVE  Moves(t) /\ call'[t].pointer = call[t].pointer
<1>1. CallTodo(call[t].todo, Dos)
  BY DEF Calling
<1>2. CallTodo(p \o Rest(t), Dos)
  <2>1. CallTodo(p \o Tail(call[t].todo), Dos)
    BY ONLY <1>1, NextTodo, Head(call[t].todo).do # "return", Code(p, Dos),
            WaitsLater(p) \/ Tried(Head(call[t].todo))
  <2> QED BY <2>1 DEF Rest
<1>3. DOMAIN call = Threads /\ DOMAIN call[t] = CallFields
  BY DEF TypeOK
<1>4. PICK r : r = p \o Rest(t)
  OBVIOUS
<1>5. call' = [call EXCEPT ![t].todo = r]
  BY <1>4 DEF Continue
<1>6. /\ DOMAIN call' = Threads /\ \A u \in Threads \ {t} : call'[u] = call[u]
      /\ call'[t] = [call[t] EXCEPT !.todo = r]
  BY ONLY <1>3, <1>5
<1>7. /\ DOMAIN call'[t] = CallFields
      /\ call'[t].id = call[t].id /\ call'[t].context = call[t].context
      /\ call'[t].host = call[t].host /\ call'[t].pointer = call[t].pointer
      /\ call'[t].todo = r
  BY ONLY <1>3, <1>6 DEF CallFields
<1> QED BY ONLY <1>2, <1>4, <1>6, <1>7 DEF Moves

\* An error leaves the call with its unwinding (check).
LEMMA Throws ==
  ASSUME TypeOK, NEW t \in Threads, Calling(t), Throw(t)
  PROVE  Moves(t) /\ call'[t].pointer = call[t].pointer
<1>2. CallTodo(Unwind(call[t].host), Dos)
  <2>1. call[t].host \in BOOLEAN /\ (call[t].host => Dos = CodeDos)
    BY Dosed DEF Calling
  <2> QED BY ONLY <2>1, UnwindTodo
<1>3. DOMAIN call = Threads /\ DOMAIN call[t] = CallFields
  BY DEF TypeOK
<1>4. PICK r : r = Unwind(call[t].host)
  OBVIOUS
<1>5. call' = [call EXCEPT ![t].todo = r]
  BY <1>4 DEF Throw
<1>6. /\ DOMAIN call' = Threads /\ \A u \in Threads \ {t} : call'[u] = call[u]
      /\ call'[t] = [call[t] EXCEPT !.todo = r]
  BY ONLY <1>3, <1>5
<1>7. /\ DOMAIN call'[t] = CallFields
      /\ call'[t].id = call[t].id /\ call'[t].context = call[t].context
      /\ call'[t].host = call[t].host /\ call'[t].pointer = call[t].pointer
      /\ call'[t].todo = r
  BY ONLY <1>3, <1>6 DEF CallFields
<1> QED BY ONLY <1>2, <1>4, <1>6, <1>7 DEF Moves

\* The routes of a product.
LEMMA Routes ==
  ASSUME NEW t
  PROVE  Fresh(RealGemm(t), Dos) /\ Fresh(bfloat16_gemm(t), Dos)
<1>0. SafeDos \subseteq Dos
  BY Dosed DEF SafeIsCode
<1>1. \A r, w : IsFresh(Kernel(r, w), Dos) /\ IsFresh(Blas(r, w), Dos)
  BY ONLY <1>0, Launches
<1>2. Fresh(<<>>, Dos)
  BY ONLY FreshNone
<1>3. Fresh(<<Kernel(Prior(g(t)), {g(t).c})>>, Dos)
  BY ONLY <1>1, FreshOne
<1>4. Fresh(<<Kernel(Operands(g(t)), {g(t).c})>>, Dos)
  BY ONLY <1>1, FreshOne
<1>5. Fresh(<<Blas({g(t).a}, {With(g(t).c, "triangle")}),
              Kernel({With(g(t).c, "triangle")}, {g(t).c})>>, Dos)
  BY ONLY <1>1, FreshTwo
<1>6. IsStrassen(t) => Fresh(strassen(g(t), algorithm(t)), Dos)
  <2>1. IsStrassen(t) => ~Capturing
    BY DEF IsStrassen
  <2>2. Fresh(strassen(g(t), algorithm(t)), CodeDos)
    BY ONLY strassens
  <2> QED BY <2>1, <2>2, Dosed
<1>7. Fresh(classical(g(t)), Dos)
  BY ONLY <1>0, classicals
<1>8. Fresh(<<Lt(g(t), "none", <<>>, classical(g(t)))>>, Dos)
  <2>1. IsFresh(Lt(g(t), "none", <<>>, classical(g(t))), Dos)
    BY ONLY <1>0, <1>2, <1>7, Lts
  <2> QED BY ONLY <2>1, FreshOne
<1>9. Fresh(RealGemm(t), Dos)
  BY ONLY <1>2, <1>3, <1>4, <1>5, <1>6, <1>7, <1>8, Zenon DEF RealGemm
<1>10. Fresh(bfloat16_gemm(t), Dos)
  BY ONLY <1>2, <1>3, <1>7, <1>8, Zenon DEF bfloat16_gemm
<1> QED BY <1>9, <1>10

\* Steps that leave the contexts alone.
LEMMA SameStates == ASSUME TypeOK, UNCHANGED context PROVE KeepsStates
  BY DEF TypeOK, KeepsStates

\* An instruction replaced by fresh code.
LEMMA FreshRuns ==
  ASSUME TypeOK, NEW t \in Threads, Calling(t), Head(call[t].todo).do # "return",
         NEW p, Fresh(p, Dos), Continue(t, p)
  PROVE  Moves(t) /\ call'[t].pointer = call[t].pointer
<1>1. Code(p, Dos) /\ IsSeq(p) /\ Untried(p)
  BY Zenon DEF Fresh, Code
<1>2. WaitsLater(p)
  BY ONLY <1>1, WaitsWhenUntried
<1> QED BY ONLY <1>1, <1>2, Continues, TypeOK, t \in Threads, Calling(t),
           Head(call[t].todo).do # "return", Continue(t, p)

\* The next instruction, what is inside it, and how a step goes on with it.
LEMMA AtCode ==
  ASSUME NEW t, Calling(t), NEW what, At(t, what), what # "return"
  PROVE  /\ Head(call[t].todo) = Instruction(t) /\ Instruction(t).do = what
         /\ Head(call[t].todo).do # "return" /\ IsCode(Instruction(t), Dos)
         /\ what \in Dos /\ HasFields(Instruction(t))
         /\ \A p \in Inside(Instruction(t)) : Fresh(p, Dos)
<1>1. Head(call[t].todo).do = what /\ Head(call[t].todo) = Instruction(t)
  BY DEF At, Instruction
<1>2. CallTodo(call[t].todo, Dos) /\ Head(call[t].todo).do # "return"
  BY <1>1 DEF Calling
<1>3. IsCode(Instruction(t), Dos)
  <2>1. IsCode(Head(call[t].todo), Dos)
    BY ONLY <1>2, NextIsCode
  <2> QED BY <2>1, <1>1
<1>4. /\ Instruction(t).do \in Dos /\ HasFields(Instruction(t))
      /\ \A p \in Inside(Instruction(t)) : Fresh(p, Dos)
  BY ONLY <1>3, CodeDown
<1> QED BY <1>1, <1>2, <1>3, <1>4

\* A pointer of the call is bound to the arena (Proceed).
Binds(t, block) ==
  /\ Instruction(t).into \in Arenas
  /\ call'[t].pointer = Bind(t, Instruction(t).into, block)
\* A reservation that gives its block and goes on (Proceed).
LEMMA Proceeds ==
  ASSUME TypeOK, NEW t \in Threads, Calling(t), Head(call[t].todo).do # "return",
         NEW p, Fresh(p, Dos), NEW block, Proceed(t, p, block), Instruction(t).into \in Arenas
  PROVE  Moves(t) /\ Binds(t, block)
<1>1. CallTodo(p \o Rest(t), Dos)
  <2>1. Code(p, Dos) /\ IsSeq(p) /\ Untried(p)
    BY Zenon DEF Fresh, Code
  <2>2. WaitsLater(p)
    BY ONLY <2>1, WaitsWhenUntried
  <2>3. CallTodo(call[t].todo, Dos)
    BY DEF Calling
  <2>4. CallTodo(p \o Tail(call[t].todo), Dos)
    BY ONLY <2>1, <2>2, <2>3, NextTodo, Head(call[t].todo).do # "return"
  <2> QED BY <2>4 DEF Rest
<1>3. DOMAIN call = Threads /\ DOMAIN call[t] = CallFields
  BY DEF TypeOK
<1>4. PICK r : r = p \o Rest(t)
  OBVIOUS
<1>5. PICK b : b = Bind(t, Instruction(t).into, block)
  OBVIOUS
<1>6. call' = [call EXCEPT ![t].todo = r, ![t].pointer = b]
  BY <1>4, <1>5 DEF Proceed
<1>7. /\ DOMAIN call' = Threads /\ \A u \in Threads \ {t} : call'[u] = call[u]
      /\ call'[t] = [call[t] EXCEPT !.todo = r, !.pointer = b]
  BY ONLY <1>3, <1>6
<1>8. /\ DOMAIN call'[t] = CallFields
      /\ call'[t].id = call[t].id /\ call'[t].context = call[t].context
      /\ call'[t].host = call[t].host /\ call'[t].pointer = b
      /\ call'[t].todo = r
  BY ONLY <1>3, <1>7 DEF CallFields
<1>9. Moves(t)
  BY ONLY <1>1, <1>4, <1>7, <1>8 DEF Moves
<1> QED BY <1>5, <1>8, <1>9 DEF Binds

\* Each instruction but the waits advances its call.
LEMMA FailAdvances ==
  ASSUME Shape, NEW t \in Threads, fail(t)
  PROVE  Advances(t) /\ call'[t].pointer = call[t].pointer
<1>1. TypeOK /\ Mode(t) /\ At(t, "fail") /\ Throw(t) /\ UNCHANGED context /\ capture' = capture
  BY DEF Shape, fail, streamVars
<1>2. Calling(t)
  BY <1>1, InACall DEF CodeDos, SafeDos
<1>3. Moves(t) /\ call'[t].pointer = call[t].pointer
  BY ONLY <1>1, <1>2, Throws, t \in Threads
<1>4. KeepsStates
  BY ONLY <1>1, SameStates
<1> QED BY <1>1, <1>3, <1>4 DEF Advances

\* A kernel is launched.
LEMMA LaunchAdvances ==
  ASSUME Shape, NEW t \in Threads, Launch(t)
  PROVE  Advances(t) /\ call'[t].pointer = call[t].pointer
<1>1. TypeOK /\ Mode(t) /\ At(t, "launch") /\ Continue(t, <<>>) /\ UNCHANGED context
      /\ capture' = capture
  BY DEF Shape, Launch
<1>2. Calling(t)
  BY <1>1, InACall DEF CodeDos, SafeDos
<1>3. Head(call[t].todo).do # "return"
  BY ONLY <1>1, <1>2, AtCode, "launch" # "return"
<1>4. Fresh(<<>>, Dos)
  BY ONLY FreshNone
<1>5. Moves(t) /\ call'[t].pointer = call[t].pointer
  BY ONLY <1>1, <1>2, <1>3, <1>4, FreshRuns, t \in Threads
<1>6. KeepsStates
  BY ONLY <1>1, SameStates
<1> QED BY <1>1, <1>5, <1>6 DEF Advances

\* A launch fails, or the tuning takes its error.
LEMMA LaunchFailsAdvances ==
  ASSUME Shape, NEW t \in Threads, LaunchFails(t)
  PROVE  Advances(t) /\ call'[t].pointer = call[t].pointer
<1>1. TypeOK /\ Mode(t) /\ At(t, "launch") /\ UNCHANGED context /\ capture' = capture
  BY DEF Shape, LaunchFails, streamVars
<1>2. Calling(t)
  BY <1>1, InACall DEF CodeDos, SafeDos
<1>3. Moves(t) /\ call'[t].pointer = call[t].pointer
  <2>1. CASE Instruction(t).tried
    <3>1. Head(call[t].todo) = Instruction(t) /\ Instruction(t).do = "launch"
      BY <1>1 DEF At, Instruction
    <3>2. CASE Instruction(t).tried = TRUE
      <4>1. Tried(Head(call[t].todo)) /\ CallTodo(call[t].todo, Dos)
        BY <3>1, <3>2, <1>2 DEF Tried, Calling
      <4>2. CallTodo(Left(call[t].todo), Dos)
        BY ONLY <4>1, LeftTodo
      <4>3. DOMAIN call = Threads /\ DOMAIN call[t] = CallFields
        BY <1>1 DEF TypeOK
      <4>4. PICK r : r = Left(call[t].todo)
        OBVIOUS
      <4>5. call' = [call EXCEPT ![t].todo = r]
        <5>1. call' = [call EXCEPT ![t].todo = Left(@)]
          BY <2>1, Zenon DEF LaunchFails
        <5> QED BY ONLY <5>1, <4>3, <4>4 DEF CallFields
      <4>6. /\ DOMAIN call' = Threads /\ \A u \in Threads \ {t} : call'[u] = call[u]
            /\ call'[t] = [call[t] EXCEPT !.todo = r]
        BY ONLY <4>3, <4>5, t \in Threads
      <4>7. /\ DOMAIN call'[t] = CallFields
            /\ call'[t].id = call[t].id /\ call'[t].context = call[t].context
            /\ call'[t].host = call[t].host /\ call'[t].pointer = call[t].pointer
            /\ call'[t].todo = r
        BY ONLY <4>3, <4>6 DEF CallFields
      <4> QED BY ONLY <4>2, <4>4, <4>6, <4>7 DEF Moves
    <3> QED BY <2>1, <3>2
  <2>2. CASE ~Instruction(t).tried
    <3>1. Throw(t)
      BY <2>2, Zenon DEF LaunchFails
    <3> QED BY ONLY <3>1, <1>1, <1>2, Throws, t \in Threads
  <2> QED BY <2>1, <2>2
<1>4. KeepsStates
  BY ONLY <1>1, SameStates
<1> QED BY <1>1, <1>3, <1>4 DEF Advances

\* A wait in a call: a capture allows none, so nothing is disturbed.
LEMMA WaitAdvances ==
  ASSUME Shape, NEW t \in Threads, Calling(t), Synchronize(t) \/ Await(t)
  PROVE  Advances(t) /\ call'[t].pointer = call[t].pointer
<1>1. TypeOK /\ Mode(t)
  BY DEF Shape
<1>2. /\ At(t, "synchronize") \/ At(t, "await")
      /\ Continue(t, <<>>) /\ UNCHANGED context /\ (capture' = capture \/ capture' = Disturbed)
  BY DEF Synchronize, Await, streamVars
<1>3. ~Capturing /\ Head(call[t].todo).do # "return"
  <2>1. ~Capturing
    BY ONLY <1>1, <1>2, InAWait
  <2> QED BY <2>1, <1>2 DEF At
<1>4. capture' = capture
  BY <1>2, <1>3 DEF Disturbed
<1>5. Fresh(<<>>, Dos)
  BY ONLY FreshNone
<1>6. Moves(t) /\ call'[t].pointer = call[t].pointer
  BY ONLY <1>1, <1>2, <1>3, <1>5, FreshRuns, t \in Threads, Calling(t)
<1>7. KeepsStates
  BY ONLY <1>1, <1>2, SameStates
<1> QED BY <1>4, <1>6, <1>7 DEF Advances

\* The guard chooses between the Strassen route and the classical one.
LEMMA GuardAdvances ==
  ASSUME Shape, NEW t \in Threads, Guard(t)
  PROVE  Advances(t) /\ call'[t].pointer = call[t].pointer
<1>1. TypeOK /\ Mode(t) /\ At(t, "guard") /\ UNCHANGED context /\ capture' = capture
  BY DEF Shape, Guard, streamVars
<1>2. PICK p : p \in {Instruction(t).then, Instruction(t).unsafe} /\ Continue(t, p)
  BY Zenon DEF Guard
<1>3. Calling(t)
  BY <1>1, InACall DEF CodeDos, SafeDos
<1>4. /\ Head(call[t].todo).do # "return" /\ Instruction(t).do = "guard"
      /\ \A q \in Inside(Instruction(t)) : Fresh(q, Dos)
  BY ONLY <1>1, <1>3, AtCode, "guard" # "return"
<1>5. Fresh(p, Dos)
  BY <1>2, <1>4 DEF Inside
<1>6. Moves(t) /\ call'[t].pointer = call[t].pointer
  BY ONLY <1>1, <1>2, <1>3, <1>4, <1>5, FreshRuns, t \in Threads
<1>7. KeepsStates
  BY ONLY <1>1, SameStates
<1> QED BY <1>1, <1>6, <1>7 DEF Advances

\* gemm chooses the route by the algorithm of the context.
LEMMA gemmAdvances ==
  ASSUME Shape, NEW t \in Threads, gemm(t)
  PROVE  Advances(t) /\ call'[t].pointer = call[t].pointer
<1>1. TypeOK /\ Mode(t) /\ At(t, "gemm") /\ UNCHANGED context /\ capture' = capture
  BY DEF Shape, gemm, streamVars
<1>2. PICK p : p \in {bfloat16_gemm(t), RealGemm(t)} /\ Continue(t, p)
  BY Zenon DEF gemm
<1>3. Calling(t)
  BY <1>1, InACall DEF CodeDos, SafeDos
<1>4. Head(call[t].todo).do # "return"
  BY ONLY <1>1, <1>3, AtCode, "gemm" # "return"
<1>5. Fresh(p, Dos)
  BY ONLY <1>2, Routes
<1>6. Moves(t) /\ call'[t].pointer = call[t].pointer
  BY ONLY <1>1, <1>2, <1>3, <1>4, <1>5, FreshRuns, t \in Threads
<1>7. KeepsStates
  BY ONLY <1>1, SameStates
<1> QED BY <1>1, <1>6, <1>7 DEF Advances

\* cudaMalloc fails.
LEMMA GrowFailsAdvances ==
  ASSUME Shape, NEW t \in Threads, GrowFails(t)
  PROVE  Advances(t) /\ call'[t].pointer = call[t].pointer
<1>1. TypeOK /\ Mode(t) /\ At(t, "grow") /\ UNCHANGED context /\ capture' = capture
      /\ Continue(t, Instruction(t).low)
  BY DEF Shape, GrowFails, streamVars
<1>3. Calling(t)
  BY <1>1, InACall DEF CodeDos, SafeDos
<1>4. /\ Head(call[t].todo).do # "return" /\ Instruction(t).do = "grow"
      /\ \A q \in Inside(Instruction(t)) : Fresh(q, Dos)
  BY ONLY <1>1, <1>3, AtCode, "grow" # "return"
<1>5. Fresh(Instruction(t).low, Dos)
  BY <1>4 DEF Inside
<1>6. Moves(t) /\ call'[t].pointer = call[t].pointer
  BY ONLY <1>1, <1>3, <1>4, <1>5, FreshRuns, t \in Threads
<1>7. KeepsStates
  BY ONLY <1>1, SameStates
<1> QED BY <1>1, <1>6, <1>7 DEF Advances

\* cudaMalloc succeeds and the old arena cannot be retired.
LEMMA RetireFailsAdvances ==
  ASSUME Shape, NEW t \in Threads, RetireFails(t)
  PROVE  Advances(t) /\ call'[t].pointer = call[t].pointer
<1>1. TypeOK /\ Mode(t) /\ At(t, "grow") /\ Throw(t) /\ UNCHANGED context /\ capture' = capture
  BY DEF Shape, RetireFails, streamVars
<1>2. Calling(t)
  BY <1>1, InACall DEF CodeDos, SafeDos
<1>3. Moves(t) /\ call'[t].pointer = call[t].pointer
  BY ONLY <1>1, <1>2, Throws, t \in Threads
<1>4. KeepsStates
  BY ONLY <1>1, SameStates
<1> QED BY <1>1, <1>3, <1>4 DEF Advances

\* Outside of a capture the reservation of a larger arena waits first.
LEMMA ReserveWaitsAdvances ==
  ASSUME Shape, NEW t \in Threads, ReserveWaits(t)
  PROVE  Advances(t) /\ call'[t].pointer = call[t].pointer
<1>1. TypeOK /\ Mode(t) /\ At(t, "reserve") /\ ~Capturing /\ UNCHANGED context /\ capture' = capture
      /\ Continue(t, Wait \o <<[Instruction(t) EXCEPT !.do = "grow"]>>)
  BY DEF Shape, ReserveWaits, streamVars
<1>3. Calling(t)
  BY <1>1, InACall DEF CodeDos, SafeDos
<1>4. /\ Head(call[t].todo).do # "return" /\ Instruction(t).do = "reserve"
      /\ HasFields(Instruction(t)) /\ \A q \in Inside(Instruction(t)) : Fresh(q, Dos)
  BY ONLY <1>1, <1>3, AtCode, "reserve" # "return"
<1>5. Dos = CodeDos
  BY ONLY <1>1, Dosed
<1>6. PICK i : i = [Instruction(t) EXCEPT !.do = "grow"]
  OBVIOUS
<1>7. /\ i.do = "grow" /\ i.then = Instruction(t).then /\ i.low = Instruction(t).low
      /\ i.into = Instruction(t).into /\ DOMAIN i = DOMAIN Instruction(t)
  BY ONLY <1>4, <1>6 DEF HasFields
<1>8. i.do \in CodeDos /\ HasFields(i) /\ Inside(i) = Inside(Instruction(t)) /\ ~Tried(i)
  BY ONLY <1>4, <1>7 DEF HasFields, Inside, Tried, CodeDos
<1>9. IsFresh(i, CodeDos)
  BY ONLY <1>4, <1>5, <1>8, CodeUp DEF IsFresh
<1>10. Fresh(<<i>>, CodeDos)
  BY ONLY <1>9, FreshOne
<1>11. Fresh(Wait \o <<i>>, CodeDos)
  BY ONLY <1>10, Waits, FreshConcatenated
<1>12. Fresh(Wait \o <<i>>, Dos) /\ Continue(t, Wait \o <<i>>)
  BY ONLY <1>1, <1>5, <1>6, <1>11
<1>13. Moves(t) /\ call'[t].pointer = call[t].pointer
  BY ONLY <1>1, <1>3, <1>4, <1>12, FreshRuns, t \in Threads
<1>14. KeepsStates
  BY ONLY <1>1, SameStates
<1> QED BY <1>1, <1>13, <1>14 DEF Advances

\* The arena is large enough.
LEMMA ReserveKeptAdvances ==
  ASSUME Shape, NEW t \in Threads, ReserveKept(t)
  PROVE  Advances(t) /\ Binds(t, MyContext(t).scratch)
<1>1. TypeOK /\ Mode(t) /\ At(t, "reserve") /\ UNCHANGED context /\ capture' = capture
      /\ Proceed(t, Instruction(t).then, MyContext(t).scratch)
  BY DEF Shape, ReserveKept, streamVars
<1>3. Calling(t)
  BY <1>1, InACall DEF CodeDos, SafeDos
<1>4. /\ Head(call[t].todo).do # "return" /\ Instruction(t).do = "reserve"
      /\ HasFields(Instruction(t)) /\ \A q \in Inside(Instruction(t)) : Fresh(q, Dos)
  BY ONLY <1>1, <1>3, AtCode, "reserve" # "return"
<1>5. Fresh(Instruction(t).then, Dos) /\ Instruction(t).into \in Arenas
  BY <1>4 DEF Inside, HasFields
<1>6. Moves(t) /\ Binds(t, MyContext(t).scratch)
  BY ONLY <1>1, <1>3, <1>4, <1>5, Proceeds, t \in Threads
<1>7. KeepsStates
  BY ONLY <1>1, SameStates
<1> QED BY <1>1, <1>6, <1>7 DEF Advances

\* A change of one context's fields leaves the life of every context alone.
LEMMA OneContext ==
  ASSUME TypeOK, NEW c, NEW x, DOMAIN x = ContextFields, c \in Contexts => x.state = context[c].state,
         context' = [context EXCEPT ![c] = x]
  PROVE  KeepsStates /\ (c \in Contexts => context'[c] = x)
         /\ \A d \in Contexts \ {c} : context'[d] = context[d]
<1>1. DOMAIN context = Contexts /\ \A d \in Contexts : DOMAIN context[d] = ContextFields
  BY DEF TypeOK
<1>2. DOMAIN context' = Contexts /\ \A d \in Contexts : context'[d] = IF d = c THEN x ELSE context[d]
  BY ONLY <1>1, context' = [context EXCEPT ![c] = x]
<1> QED BY <1>1, <1>2 DEF KeepsStates

\* The context of a call exists.
LEMMA MyContextExists ==
  ASSUME TypeOK, NEW t, Calling(t)
  PROVE  call[t].context \in Contexts /\ DOMAIN MyContext(t) = ContextFields
  BY DEF TypeOK, Calling, MyContext

\* During a capture the arena is marked as captured, or the reservation is refused.
LEMMA ReserveCapturedAdvances ==
  ASSUME Shape, NEW t \in Threads, ReserveCaptured(t)
  PROVE  /\ Advances(t)
         /\ \/ UNCHANGED context /\ call'[t].pointer = call[t].pointer
            \/ /\ context' = [context EXCEPT ![call[t].context] =
                                [MyContext(t) EXCEPT !.scratch_captured = TRUE]]
               /\ Binds(t, MyContext(t).scratch)
<1>1. TypeOK /\ Mode(t) /\ At(t, "reserve") /\ capture' = capture
  BY DEF Shape, ReserveCaptured, streamVars
<1>2. \/ Throw(t) /\ UNCHANGED context
      \/ /\ context' = [context EXCEPT ![call[t].context].scratch_captured = TRUE]
         /\ Proceed(t, Instruction(t).then, MyContext(t).scratch)
  BY Zenon DEF ReserveCaptured
<1>3. Calling(t)
  BY <1>1, InACall DEF CodeDos, SafeDos
<1>4. /\ Head(call[t].todo).do # "return" /\ Instruction(t).do = "reserve"
      /\ HasFields(Instruction(t)) /\ \A q \in Inside(Instruction(t)) : Fresh(q, Dos)
  BY ONLY <1>1, <1>3, AtCode, "reserve" # "return"
<1>5. Fresh(Instruction(t).then, Dos) /\ Instruction(t).into \in Arenas
  BY <1>4 DEF Inside, HasFields
<1>6. CASE Throw(t) /\ UNCHANGED context
  <2>1. Moves(t) /\ call'[t].pointer = call[t].pointer
    BY ONLY <1>1, <1>3, <1>6, Throws, t \in Threads
  <2>2. KeepsStates
    BY ONLY <1>1, <1>6, SameStates
  <2> QED BY <1>1, <1>6, <2>1, <2>2 DEF Advances
<1>7. CASE /\ context' = [context EXCEPT ![call[t].context].scratch_captured = TRUE]
           /\ Proceed(t, Instruction(t).then, MyContext(t).scratch)
  <2>1. Moves(t) /\ Binds(t, MyContext(t).scratch)
    BY ONLY <1>1, <1>3, <1>4, <1>5, <1>7, Proceeds, t \in Threads
  <2>2. call[t].context \in Contexts /\ DOMAIN MyContext(t) = ContextFields
    BY ONLY <1>1, <1>3, MyContextExists
  <2>3. PICK x : x = [MyContext(t) EXCEPT !.scratch_captured = TRUE]
    OBVIOUS
  <2>4. context' = [context EXCEPT ![call[t].context] = x]
    BY ONLY <1>7, <2>3 DEF MyContext
  <2>5. DOMAIN x = ContextFields /\ x.state = context[call[t].context].state
    BY ONLY <2>2, <2>3 DEF ContextFields, MyContext
  <2>6. KeepsStates
    BY ONLY <1>1, <2>4, <2>5, OneContext
  <2> QED BY <1>1, <2>1, <2>3, <2>4, <2>6 DEF Advances
<1> QED BY <1>2, <1>6, <1>7

\* The arena is replaced by a larger one.
LEMMA GrowAdvances ==
  ASSUME Shape, NEW t \in Threads, Grow(t)
  PROVE  /\ Advances(t) /\ Binds(t, Nth(Free(Held), 1)) /\ Calling(t)
         /\ context' = [context EXCEPT ![call[t].context] =
                          Replaced(MyContext(t), Nth(Free(Held), 1), Instruction(t).size)]
<1>1. PICK block : block = Nth(Free(Held), 1)
  OBVIOUS
<1>2. /\ TypeOK /\ Mode(t) /\ At(t, "grow") /\ capture' = Disturbed
      /\ Proceed(t, Instruction(t).then, block)
      /\ context' = [context EXCEPT ![call[t].context] =
                       Replaced(MyContext(t), block, Instruction(t).size)]
  BY <1>1 DEF Shape, Grow
<1>3. Calling(t)
  BY <1>2, InACall DEF CodeDos, SafeDos
<1>4. /\ Head(call[t].todo).do # "return" /\ Instruction(t).do = "grow" /\ "grow" \in Dos
      /\ HasFields(Instruction(t)) /\ \A q \in Inside(Instruction(t)) : Fresh(q, Dos)
  BY ONLY <1>2, <1>3, AtCode, "grow" # "return"
<1>5. Fresh(Instruction(t).then, Dos) /\ Instruction(t).into \in Arenas
  BY <1>4 DEF Inside, HasFields
<1>6. Moves(t) /\ Binds(t, block)
  BY ONLY <1>2, <1>3, <1>4, <1>5, Proceeds, t \in Threads
<1>7. capture' = capture
  <2>1. "grow" \notin SafeDos
    BY DEF SafeDos
  <2> QED BY <2>1, <1>2, <1>4, Dosed DEF Disturbed
<1>8. KeepsStates
  <2>1. call[t].context \in Contexts /\ DOMAIN MyContext(t) = ContextFields
    BY ONLY <1>2, <1>3, MyContextExists
  <2>2. PICK x : x = Replaced(MyContext(t), block, Instruction(t).size)
    OBVIOUS
  <2>3. DOMAIN x = ContextFields /\ x.state = context[call[t].context].state
    BY ONLY <2>1, <2>2 DEF ContextFields, MyContext, Replaced
  <2> QED BY ONLY <1>2, <2>2, <2>3, OneContext
<1> QED BY <1>1, <1>2, <1>3, <1>6, <1>7, <1>8 DEF Advances

\* A product with a plan: tuned, executed as planned, or done without cuBLASLt.
LEMMA lt_gemmAdvances ==
  ASSUME Shape, NEW t \in Threads, lt_gemm(t)
  PROVE  Advances(t) /\ call'[t].pointer = call[t].pointer
<1> DEFINE i == Instruction(t)
           p == Instruction(t).g
           epilogue == Instruction(t).epilogue
           all == (IF PrefersUnfused(t) THEN unfused(p, epilogue, i.unsupported) ELSE lt_call(p))
                  \o i.then
<1>1. TypeOK /\ Mode(t) /\ At(t, "lt") /\ UNCHANGED context /\ capture' = capture
  BY DEF Shape, lt_gemm, streamVars
<1>2. \/ Continue(t, i.unsupported)
      \/ Tunes(t) /\ Continue(t, Tuning(p, epilogue) \o <<i>>)
      \/ i.tried /\ Continue(t, Attempt(all))
      \/ Continue(t, all)
  BY Zenon DEF lt_gemm
<1>3. Calling(t)
  BY <1>1, InACall DEF CodeDos, SafeDos
<1>4. /\ Head(call[t].todo).do # "return" /\ i.do = "lt" /\ Head(call[t].todo) = i
      /\ IsCode(i, Dos) /\ \A q \in Inside(i) : Fresh(q, Dos)
  BY ONLY <1>1, <1>3, AtCode, "lt" # "return"
<1>5. Fresh(i.then, Dos) /\ Fresh(i.unsupported, Dos)
  BY <1>4 DEF Inside
<1>6. Fresh(all, Dos)
  <2>1. SafeDos \subseteq Dos
    BY Dosed DEF SafeIsCode
  <2>2. Fresh(lt_call(p), Dos) /\ Fresh(unfused(p, epilogue, i.unsupported), Dos)
    BY ONLY <2>1, <1>5, Products
  <2>3. PICK q : q = IF PrefersUnfused(t) THEN unfused(p, epilogue, i.unsupported) ELSE lt_call(p)
    OBVIOUS
  <2>4. Fresh(q, Dos)
    BY ONLY <2>2, <2>3
  <2>5. Fresh(q \o i.then, Dos)
    BY ONLY <2>4, <1>5, FreshConcatenated
  <2> QED BY ONLY <2>3, <2>5
<1>7. Tried(i) <=> i.tried = TRUE
  BY <1>4 DEF Tried
<1> HIDE DEF i, all
<1>8. Moves(t) /\ call'[t].pointer = call[t].pointer
  <2>1. CASE Continue(t, i.unsupported)
    BY ONLY <2>1, <1>1, <1>3, <1>4, <1>5, FreshRuns, t \in Threads
  <2>2. CASE Continue(t, all)
    BY ONLY <2>2, <1>1, <1>3, <1>4, <1>6, FreshRuns, t \in Threads
  <2>3. CASE i.tried /\ Continue(t, Attempt(all))
    <3>1. Code(Attempt(all), Dos)
      <4>1. Code(all, Dos)
        BY <1>6 DEF Fresh
      <4> QED BY ONLY <4>1, Attempts
    <3>2. Tried(Head(call[t].todo))
      BY <1>4, <1>7, <2>3
    <3> QED BY ONLY <2>3, <3>1, <3>2, <1>1, <1>3, <1>4, Continues, t \in Threads
  <2>4. CASE Tunes(t) /\ Continue(t, Tuning(p, epilogue) \o <<i>>)
    <3>1. Dos = CodeDos
      BY <2>4, Dosed DEF Tunes
    <3>2. Code(Tuning(p, epilogue), CodeDos) /\ WaitsLater(Tuning(p, epilogue))
      BY ONLY Tunings
    <3>3. IsSeq(<<i>>) /\ Range(<<i>>) = {i} /\ Len(<<i>>) = 1 /\ <<i>>[1] = i
      BY ONLY TRUE DEF IsSeq, Range
    <3>4. Code(<<i>>, CodeDos)
      BY ONLY <3>1, <3>3, <1>4 DEF Code
    <3>5. Code(Tuning(p, epilogue) \o <<i>>, Dos)
      <4>1. Code(Tuning(p, epilogue) \o <<i>>, CodeDos)
        BY ONLY <3>2, <3>4, CodeConcatenated
      <4> QED BY <4>1, <3>1
    <3>6. WaitsLater(Tuning(p, epilogue) \o <<i>>) \/ Tried(Head(call[t].todo))
      <4> SUFFICES ASSUME ~Tried(i) PROVE WaitsLater(Tuning(p, epilogue) \o <<i>>)
        BY <1>4
      <4>1. WaitsLater(<<i>>)
        BY <3>3 DEF WaitsLater
      <4>2. IsSeq(Tuning(p, epilogue))
        BY <3>2 DEF Code
      <4> QED BY ONLY <3>2, <3>3, <4>1, <4>2, WaitsConcatenated
    <3> QED BY ONLY <2>4, <3>5, <3>6, <1>1, <1>3, <1>4, Continues, t \in Threads
  <2> QED BY <1>2, <2>1, <2>2, <2>3, <2>4
<1>9. KeepsStates
  BY ONLY <1>1, SameStates
<1> QED BY <1>1, <1>8, <1>9 DEF Advances

\* A call that its plan does not support goes on without it.
LEMMA lt_unsupportedAdvances ==
  ASSUME Shape, NEW t \in Threads, lt_unsupported(t)
  PROVE  Advances(t) /\ call'[t].pointer = call[t].pointer
<1>1. /\ TypeOK /\ Mode(t) /\ At(t, "lt") /\ UNCHANGED context /\ capture' = capture
      /\ Continue(t, Instruction(t).unsupported)
  BY DEF Shape, lt_unsupported, streamVars
<1>2. Calling(t)
  BY <1>1, InACall DEF CodeDos, SafeDos
<1>3. PICK i : i = Instruction(t)
  OBVIOUS
<1>4. /\ Head(call[t].todo).do # "return" /\ i.do = "lt"
      /\ \A q \in Inside(i) : Fresh(q, Dos)
  BY ONLY <1>1, <1>2, <1>3, AtCode, "lt" # "return"
<1>5. Fresh(i.unsupported, Dos)
  BY <1>4 DEF Inside
<1>6. Moves(t) /\ call'[t].pointer = call[t].pointer
  BY ONLY <1>1, <1>2, <1>3, <1>4, <1>5, FreshRuns, t \in Threads
<1>7. KeepsStates
  BY ONLY <1>1, SameStates
<1> QED BY <1>1, <1>6, <1>7 DEF Advances

\* A new plan, for which a capture takes no memory.
LEMMA get_planAdvances ==
  ASSUME Shape, NEW t \in Threads, get_plan(t)
  PROVE  /\ Advances(t) /\ Calling(t) /\ UNCHANGED call
         /\ \E outcome : \E widened \in BOOLEAN :
              LET block == Nth(Free(Held), 1)
                  x == IF widened THEN WiderWorkspace(MyContext(t), block) ELSE MyContext(t)
              IN /\ context' = [context EXCEPT ![call[t].context] = NewPlan(x, MyKey(t), outcome)]
                 /\ allocated' = IF widened THEN allocated \cup {block} ELSE allocated
                 /\ widened => Room(1)
<1>1. TypeOK /\ Mode(t) /\ At(t, "lt") /\ UNCHANGED call
  BY DEF Shape, get_plan
<1>2. Calling(t)
  BY <1>1, InACall DEF CodeDos, SafeDos
<1>3. PICK block : block = Nth(Free(Held), 1)
  OBVIOUS
<1>4. PICK outcome \in {"unavailable", "untuned"}, widened \in BOOLEAN :
        /\ widened => MayWiden(t) /\ Room(1)
        /\ context' = [context EXCEPT ![call[t].context] =
             NewPlan(IF widened THEN WiderWorkspace(MyContext(t), block) ELSE MyContext(t),
                     MyKey(t), outcome)]
        /\ allocated' = IF widened THEN allocated \cup {block} ELSE allocated
        /\ capture' = IF widened THEN Disturbed ELSE capture
  BY <1>3, Zenon DEF get_plan
<1>5. capture' = capture
  BY <1>4 DEF MayWiden, Disturbed
<1>6. Moves(t)
  <2>1. DOMAIN call = Threads /\ DOMAIN call[t] = CallFields /\ CallTodo(call[t].todo, Dos)
    BY <1>1, <1>2 DEF TypeOK, Calling
  <2> QED BY <1>1, <2>1 DEF Moves
<1>7. KeepsStates
  <2>1. call[t].context \in Contexts /\ DOMAIN MyContext(t) = ContextFields
    BY ONLY <1>1, <1>2, MyContextExists
  <2>2. PICK w : w = IF widened THEN WiderWorkspace(MyContext(t), block) ELSE MyContext(t)
    OBVIOUS
  <2>3. DOMAIN w = ContextFields /\ w.state = context[call[t].context].state
    BY ONLY <2>1, <2>2 DEF ContextFields, MyContext, WiderWorkspace
  <2>4. PICK x : x = NewPlan(w, MyKey(t), outcome)
    OBVIOUS
  <2>5. DOMAIN x = ContextFields /\ x.state = context[call[t].context].state
    BY ONLY <2>3, <2>4 DEF ContextFields, NewPlan
  <2>6. context' = [context EXCEPT ![call[t].context] = x]
    BY ONLY <1>4, <2>2, <2>4
  <2> QED BY ONLY <1>1, <2>5, <2>6, OneContext
<1>8. Advances(t)
  BY <1>5, <1>6, <1>7 DEF Advances
<1> QED BY <1>1, <1>2, <1>3, <1>4, <1>8, Zenon

\* The plan of the tuning is kept.
LEMMA TunedAdvances ==
  ASSUME Shape, NEW t \in Threads, Tuned(t)
  PROVE  /\ Advances(t) /\ call'[t].pointer = call[t].pointer /\ Calling(t)
         /\ \E plans : context' = [context EXCEPT ![call[t].context] =
                                     [MyContext(t) EXCEPT !.plans = plans]]
<1>1. TypeOK /\ Mode(t) /\ At(t, "tuned") /\ Continue(t, <<>>) /\ capture' = capture
  BY DEF Shape, Tuned, streamVars
<1>2. PICK outcome : context' = [context EXCEPT ![call[t].context].plans[Instruction(t).key] = outcome]
  BY Zenon DEF Tuned
<1>3. Calling(t)
  BY <1>1, InACall DEF CodeDos, SafeDos
<1>4. Head(call[t].todo).do # "return"
  BY ONLY <1>1, <1>3, AtCode, "tuned" # "return"
<1>5. Fresh(<<>>, Dos)
  BY ONLY FreshNone
<1>6. Moves(t) /\ call'[t].pointer = call[t].pointer
  BY ONLY <1>1, <1>3, <1>4, <1>5, FreshRuns, t \in Threads
<1>7. call[t].context \in Contexts /\ DOMAIN MyContext(t) = ContextFields
  BY ONLY <1>1, <1>3, MyContextExists
<1>8. PICK plans : plans = [MyContext(t).plans EXCEPT ![Instruction(t).key] = outcome]
  OBVIOUS
<1>9. PICK x : x = [MyContext(t) EXCEPT !.plans = plans]
  OBVIOUS
<1>10. context' = [context EXCEPT ![call[t].context] = x]
  BY ONLY <1>2, <1>8, <1>9 DEF MyContext
<1>11. DOMAIN x = ContextFields /\ x.state = context[call[t].context].state
  BY ONLY <1>7, <1>9 DEF ContextFields, MyContext
<1>12. KeepsStates
  BY ONLY <1>1, <1>10, <1>11, OneContext
<1>13. Advances(t)
  BY <1>1, <1>6, <1>12 DEF Advances
<1> QED BY <1>3, <1>6, <1>9, <1>10, <1>13, Zenon

\* A step of a call keeps the modes of all threads.
LEMMA AdvancesKeepsShape ==
  ASSUME Shape, NEW t \in Threads, Calling(t), Advances(t), UNCHANGED bindingVars
  PROVE  Shape' /\ Calling(t)'
<1>1. TypeOK'
  BY DEF Shape, TypeOK, Advances, Moves, KeepsStates, bindingVars
<1>2. /\ UNCHANGED <<script, handle, registry, ended, capture>>
      /\ \A u \in Threads \ {t} : call'[u] = call[u]
      /\ Capturing' = Capturing /\ Dos' = Dos
  BY DEF bindingVars, Advances, Moves, Capturing, Dos
<1>3. Calling(t)'
  BY <1>2 DEF Calling, Advances, Moves
<1>4. ASSUME NEW u \in Threads \ {t} PROVE Mode(u)'
  <2>1. Mode(u)
    BY DEF Shape
  <2>2. call'[u] = call[u]
    BY <1>2
  <2>3. (AtRest(u) => AtRest(u)') /\ (Creating(u) => Creating(u)') /\ (Leaving(u) => Leaving(u)')
        /\ (Calling(u) => Calling(u)')
    BY ONLY <1>2, <2>2 DEF AtRest, Outside, Creating, Leaving, Calling
  <2> QED BY <2>1, <2>3 DEF Mode
<1> QED BY <1>1, <1>3, <1>4 DEF Shape, Mode

-----------------------------------------------------------------------------
(* The beginning of a call, and the other turns of an application. *)

\* What a call is made of is code that a capture allows.
LEMMA StepsAreCode ==
  ASSUME NEW i, NEW dos, SafeDos \subseteq dos, IsStep(i)
  PROVE  IsFresh(i, dos)
<1>1. CASE i.do = "launch" /\ i = [Kernel(i.reads, i.writes) EXCEPT !.blas = i.blas]
  <2>1. PICK b : i = [Kernel(i.reads, i.writes) EXCEPT !.blas = b]
    BY <1>1
  <2>2. i.tried = FALSE /\ {"do", "tried"} \subseteq DOMAIN i
    BY <2>1 DEF Kernel
  <2>3. i.do \in dos /\ HasFields(i) /\ Inside(i) = {} /\ ~Tried(i)
    BY <1>1, <2>2 DEF HasFields, Inside, Tried, SafeDos
  <2>4. IsFresh(i, dos)
    BY ONLY <2>3, CodeUp DEF IsFresh
  <2> QED BY <2>4
<1>2. CASE i.do = "gemm"
  BY ONLY <1>2, SafeDos \subseteq dos, Gemms
<1> QED BY <1>1, <1>2 DEF IsStep

\* The launches and products of an application are fresh code.
LEMMA StepProgram ==
  ASSUME NEW p, NEW dos, SafeDos \subseteq dos, IsProgram(p, IsStep)
  PROVE  Fresh(p, dos)
<1>1. IsSeq(p) /\ \A i \in Range(p) : IsStep(i)
  BY DEF IsProgram, IsSeq
<1>2. \A i \in Range(p) : IsFresh(i, dos)
  BY <1>1, StepsAreCode
<1> QED BY <1>1, <1>2, Zenon DEF Fresh, Code, Untried, IsFresh

\* So are its programs with cuBLASLt.
LEMMA ProductProgram ==
  ASSUME NEW p, NEW dos, SafeDos \subseteq dos, IsProgram(p, IsProduct)
  PROVE  Fresh(p, dos) /\ \A i : IsProduct(i) => IsFresh(i, dos)
<1>1. IsSeq(p) /\ \A i \in Range(p) : IsProduct(i)
  BY DEF IsProgram, IsSeq
<1>2. ASSUME NEW i, IsProduct(i) PROVE IsFresh(i, dos)
  <2>1. CASE IsStep(i)
    BY ONLY <2>1, SafeDos \subseteq dos, StepsAreCode
  <2>2. CASE /\ i = Lt(i.g, i.epilogue, i.then, i.unsupported)
             /\ IsProgram(i.then, IsStep) /\ IsProgram(i.unsupported, IsStep)
    <3>1. Fresh(i.then, dos) /\ Fresh(i.unsupported, dos)
      BY ONLY <2>2, SafeDos \subseteq dos, StepProgram
    <3>2. IsFresh(Lt(i.g, i.epilogue, i.then, i.unsupported), dos)
      BY ONLY <3>1, SafeDos \subseteq dos, Lts
    <3> QED BY <3>2, <2>2
  <2> QED BY <1>2, <2>1, <2>2 DEF IsProduct
<1> QED BY <1>1, <1>2, Zenon DEF Fresh, Code, Untried, IsFresh

\* And whole operations.
LEMMA BodyProgram ==
  ASSUME NEW p, NEW dos, SafeDos \subseteq dos, IsProgram(p, IsBody)
  PROVE  Fresh(p, dos)
<1>1. IsSeq(p) /\ \A i \in Range(p) : IsBody(i)
  BY DEF IsProgram, IsSeq
<1>2. ASSUME NEW i, IsBody(i) PROVE IsFresh(i, dos)
  <2>1. CASE IsProduct(i)
    <3>1. IsProgram(<<>>, IsProduct)
      BY DEF IsProgram, Range
    <3> QED BY ONLY <2>1, <3>1, SafeDos \subseteq dos, ProductProgram
  <2>2. CASE /\ i = Reserve(i.size, i.into, i.then, Fail)
             /\ i.into \in Arenas /\ IsProgram(i.then, IsProduct)
    <3>1. Fresh(i.then, dos) /\ Fresh(Fail, dos)
      BY ONLY <2>2, SafeDos \subseteq dos, ProductProgram, Fails
    <3>2. IsFresh(Reserve(i.size, i.into, i.then, Fail), dos)
      BY ONLY <2>2, <3>1, SafeDos \subseteq dos, Reserves
    <3> QED BY <3>2, <2>2
  <2> QED BY <1>2, <2>1, <2>2 DEF IsBody
<1> QED BY <1>1, <1>2, Zenon DEF Fresh, Code, Untried, IsFresh

\* The next turn, and the turns after it.
LEMMA NextTurn ==
  ASSUME TypeOK, NEW t \in Threads, script[t] # <<>>
  PROVE  IsTurn(Head(script[t]))
<1>1. IsSeq(script[t]) /\ \A i \in Range(script[t]) : IsTurn(i)
  BY DEF TypeOK, IsProgram, IsSeq
<1>2. Head(script[t]) \in Range(script[t])
  BY ONLY <1>1, script[t] # <<>>, Rested
<1> QED BY <1>1, <1>2

\* A turn leaves the thread the rest of what it does.
LEMMA TurnTaken ==
  ASSUME TypeOK, NEW t \in Threads, script[t] # <<>>, Turn(t)
  PROVE  /\ DOMAIN script' = Threads /\ \A u \in Threads : IsProgram(script'[u], IsTurn)
         /\ \A u \in Threads \ {t} : script'[u] = script[u]
<1>1. DOMAIN script = Threads /\ \A u \in Threads : IsProgram(script[u], IsTurn)
  BY DEF TypeOK
<1>2. IsSeq(script[t]) /\ \A i \in Range(script[t]) : IsTurn(i)
  BY <1>1 DEF IsProgram, IsSeq
<1>3. IsSeq(Tail(script[t])) /\ Range(Tail(script[t])) \subseteq Range(script[t])
  BY ONLY <1>2, script[t] # <<>>, Rested
<1>4. IsProgram(Tail(script[t]), IsTurn)
  BY <1>2, <1>3 DEF IsProgram, IsSeq
<1>5. PICK r : r = Tail(script[t])
  OBVIOUS
<1>6. script' = [script EXCEPT ![t] = r]
  BY <1>5 DEF Turn
<1>7. /\ DOMAIN script' = Threads /\ script'[t] = r
      /\ \A u \in Threads \ {t} : script'[u] = script[u]
  BY ONLY <1>1, <1>6
<1> QED BY <1>1, <1>4, <1>5, <1>7

\* The state of a call is replaced by another of the same fields.
LEMMA CallReplaced ==
  ASSUME TypeOK, NEW t \in Threads, NEW r, DOMAIN r = CallFields, call' = [call EXCEPT ![t] = r]
  PROVE  /\ DOMAIN call' = Threads /\ \A u \in Threads : DOMAIN call'[u] = CallFields
         /\ call'[t] = r /\ \A u \in Threads \ {t} : call'[u] = call[u]
<1>1. DOMAIN call = Threads /\ \A u \in Threads : DOMAIN call[u] = CallFields
  BY DEF TypeOK
<1>2. DOMAIN call' = Threads /\ \A u \in Threads : call'[u] = IF u = t THEN r ELSE call[u]
  BY ONLY <1>1, call' = [call EXCEPT ![t] = r]
<1> QED BY ONLY <1>1, <1>2, DOMAIN r = CallFields

\* A thread that takes no part in a step keeps its mode.
LEMMA OthersKeep ==
  ASSUME NEW u, Mode(u), call'[u] = call[u], script'[u] = script[u], u \in ended' <=> u \in ended,
         Capturing' = Capturing, handle'[u] = handle[u],
         Calling(u) => call[u].context \in registry'
  PROVE  Mode(u)'
<1>1. Dos' = Dos
  BY DEF Dos
<1>2. AtRest(u) => AtRest(u)'
  BY DEF AtRest, Outside
<1>3. Creating(u) => Creating(u)'
  BY DEF Creating
<1>4. Leaving(u) => Leaving(u)'
  BY DEF Leaving, Outside
<1>5. Calling(u) => Calling(u)'
  BY <1>1 DEF Calling
<1> QED BY <1>2, <1>3, <1>4, <1>5 DEF Mode

\* A thread at rest, and one that destroys contexts.
LEMMA RestingThread ==
  ASSUME NEW t, Mode(t), Resting(t)
  PROVE  AtRest(t)
<1>1. call[t].todo = <<>>
  BY DEF Resting
<1>2. ~Calling(t) /\ ~Leaving(t)
  BY <1>1 DEF Calling, CallTodo, Leaving, LeavingTodo
<1>3. ~Creating(t)
  <2> SUFFICES ASSUME NEW c, call[t].todo = <<[do |-> "register", context |-> c]>> PROVE FALSE
    BY DEF Creating
  <2> QED BY <1>1
<1> QED BY <1>2, <1>3 DEF Mode

\* Instructions that destroy contexts are only met by threads that do.
LEMMA LeavingThread ==
  ASSUME NEW t, Mode(t), NEW what \in LeavingDos \ {"synchronize", "await"}, At(t, what)
  PROVE  Leaving(t)
<1>1. call[t].todo # <<>> /\ Head(call[t].todo).do = what
  BY DEF At
<1>2. ~AtRest(t)
  BY <1>1 DEF AtRest
<1>3. ~Creating(t)
  <2> SUFFICES ASSUME NEW c, call[t].todo = <<[do |-> "register", context |-> c]>> PROVE FALSE
    BY DEF Creating
  <2>1. Head(call[t].todo).do = "register"
    OBVIOUS
  <2> QED BY <2>1, <1>1 DEF LeavingDos
<1>4. ~Calling(t)
  <2> SUFFICES ASSUME Calling(t) PROVE FALSE
    OBVIOUS
  <2>1. CallTodo(call[t].todo, Dos) /\ Head(call[t].todo).do # "return"
    BY <1>1 DEF Calling, LeavingDos
  <2>2. IsCode(Head(call[t].todo), Dos)
    BY ONLY <2>1, NextIsCode
  <2>3. Head(call[t].todo).do \in Dos
    BY ONLY <2>2, CodeDown
  <2> QED BY <2>3, <1>1 DEF LeavingDos, Dos, CodeDos, SafeDos
<1> QED BY <1>2, <1>3, <1>4 DEF Mode

\* What is left to destroy.
LeavingProgram(p, over) ==
  /\ IsSeq(p) /\ \A i \in Range(p) : IsLeaving(i) /\ (i.do \in {"erase", "destroy own"} => over)
  /\ \A k \in 2..Len(p) : p[k].do # "destroy own"

\* An instruction of a destruction is replaced by others of a destruction (Continue).
LEMMA LeavingOn ==
  ASSUME NEW todo, NEW over, LeavingTodo(todo, over), NEW p, LeavingProgram(p, over)
  PROVE  p \o Tail(todo) = <<>> \/ LeavingTodo(p \o Tail(todo), over)
<1> DEFINE r == Tail(todo)
           q == p \o r
<1>1. IsSeq(todo) /\ todo # <<>> /\ IsSeq(p)
  BY DEF LeavingTodo, LeavingProgram
<1>2. /\ IsSeq(r) /\ Range(r) \subseteq Range(todo) /\ Len(todo) \in Nat \ {0}
      /\ Len(r) = Len(todo) - 1 /\ \A i \in 1..(Len(todo) - 1) : r[i] = todo[i + 1]
  BY ONLY <1>1, Rested
<1>3. /\ IsSeq(q) /\ Range(q) = Range(p) \cup Range(r) /\ Len(q) = Len(p) + Len(r)
      /\ \A i \in 1..Len(p) : q[i] = p[i] /\ \A j \in 1..Len(r) : q[Len(p) + j] = r[j]
  BY ONLY <1>1, <1>2, Concatenated
<1>4. \A i \in Range(q) : IsLeaving(i) /\ (i.do \in {"erase", "destroy own"} => over)
  BY <1>2, <1>3 DEF LeavingTodo, LeavingProgram
<1>5. Len(p) \in Nat
  BY <1>1 DEF IsSeq
<1>6. ASSUME NEW k \in 2..Len(q) PROVE q[k].do # "destroy own"
  <2>1. CASE k <= Len(p)
    <3>1. k \in 2..Len(p) /\ k \in 1..Len(p)
      BY <2>1, <1>5
    <3>2. q[k] = p[k]
      BY <3>1, <1>1, <1>2, Concatenated
    <3> QED BY <3>1, <3>2 DEF LeavingProgram
  <2>2. CASE k > Len(p)
    <3>1. PICK m \in 1..Len(r) : k = Len(p) + m
      <4>1. k - Len(p) \in 1..Len(r) /\ k = Len(p) + (k - Len(p))
        BY <2>2, <1>2, <1>3, <1>5
      <4> QED BY <4>1
    <3>2. q[k] = r[m]
      BY <3>1, <1>1, <1>2, Concatenated
    <3>3. r[m] = todo[m + 1] /\ m + 1 \in 2..Len(todo)
      BY <3>1, <1>2
    <3> QED BY <3>2, <3>3 DEF LeavingTodo
  <2>3. k <= Len(p) \/ k > Len(p)
    <3>1. Len(q) \in Nat
      BY <1>2, <1>3, <1>5
    <3> QED BY ONLY <3>1, <1>5, k \in 2..Len(q)
  <2> QED BY <2>1, <2>2, <2>3
<1> HIDE DEF q
<1>7. q = <<>> \/ LeavingTodo(q, over)
  BY <1>3, <1>4, <1>6 DEF LeavingTodo
<1> QED BY <1>7 DEF q

-----------------------------------------------------------------------------
(* The modes of the threads. *)
ContextsTyped == DOMAIN context = Contexts /\ \A c \in Contexts : DOMAIN context[c] = ContextFields
HandlesTyped == DOMAIN handle = Threads /\ \A t \in Threads : DOMAIN handle[t] = BOOLEAN

\* All threads rest at first.
LEMMA ShapeInitially == Init => Shape
<1> SUFFICES ASSUME Init PROVE Shape
  OBVIOUS
<1>1. DOMAIN script = Threads /\ \A t \in Threads : IsProgram(script[t], IsTurn)
  BY ApplicationsAssumption DEF Init
<1>2. ContextsTyped
  BY DEF Init, ContextsTyped, Unused, ContextFields
<1>3. DOMAIN call = Threads /\ \A t \in Threads : call[t] = Idle
  BY DEF Init
<1>4. DOMAIN Idle = CallFields
  BY DEF Idle, CallFields
<1>5. HandlesTyped
  BY DEF Init, HandlesTyped, Keys
<1>6. calls \in Nat /\ capture = "none" /\ registry = {} /\ ended = {}
  BY DEF Init, StreamInit
<1>7. TypeOK
  BY <1>1, <1>2, <1>3, <1>4, <1>5, <1>6 DEF TypeOK, ContextsTyped, HandlesTyped
<1>8. \A t \in Threads : AtRest(t)
  BY <1>3 DEF AtRest, Outside, Idle
<1> QED BY <1>7, <1>8 DEF Shape, Mode

\* The device, and steps that change none of this.
LEMMA ShapeSame == ASSUME Shape, UNCHANGED <<contextVars, bindingVars, capture>> PROVE Shape'
<1>1. UNCHANGED <<context, call, script, handle, registry, calls, ended, capture>>
  BY DEF contextVars, bindingVars
<1>2. TypeOK'
  BY <1>1 DEF Shape, TypeOK
<1>3. ASSUME NEW u \in Threads PROVE Mode(u)'
  <2>1. Mode(u) /\ call'[u] = call[u] /\ script'[u] = script[u] /\ (u \in ended' <=> u \in ended)
        /\ Capturing' = Capturing /\ handle'[u] = handle[u]
    BY <1>1 DEF Shape, Capturing
  <2>2. Calling(u) => call[u].context \in registry'
    BY <1>1 DEF Calling
  <2> QED BY ONLY <2>1, <2>2, OthersKeep
<1> QED BY <1>2, <1>3 DEF Shape

\* A thread goes on with what it has to destroy.
LEMMA LeavingStep ==
  ASSUME Shape, NEW t \in Threads, Leaving(t), NEW p, LeavingProgram(p, t \in ended), Continue(t, p),
         UNCHANGED <<script, calls, ended, capture>>, ContextsTyped', HandlesTyped',
         registry' \subseteq Contexts,
         \A u \in Threads \ {t} : /\ handle'[u] = handle[u]
                                  /\ Calling(u) => call[u].context \in registry'
  PROVE  /\ Shape' /\ \A u \in Threads \ {t} : call'[u] = call[u]
         /\ call'[t].todo = p \o Tail(call[t].todo) /\ call'[t].pointer = call[t].pointer
         /\ Outside(t)' /\ (AtRest(t)' \/ Leaving(t)')
<1>1. TypeOK
  BY DEF Shape
<1>2. PICK r : r = p \o Tail(call[t].todo)
  OBVIOUS
<1>3. PICK x : x = [call[t] EXCEPT !.todo = r]
  OBVIOUS
<1>4. call' = [call EXCEPT ![t] = x]
  <2>1. call' = [call EXCEPT ![t].todo = r]
    BY <1>2 DEF Continue, Rest
  <2>2. DOMAIN call = Threads
    BY <1>1 DEF TypeOK
  <2> QED BY ONLY <2>1, <2>2, <1>3, t \in Threads
<1>5. /\ DOMAIN x = CallFields /\ x.todo = r /\ x.id = call[t].id /\ x.context = call[t].context
      /\ x.pointer = call[t].pointer
  <2>1. DOMAIN call[t] = CallFields
    BY <1>1 DEF TypeOK
  <2> QED BY ONLY <2>1, <1>3 DEF CallFields
<1>6. /\ DOMAIN call' = Threads /\ \A u \in Threads : DOMAIN call'[u] = CallFields
      /\ call'[t] = x /\ \A u \in Threads \ {t} : call'[u] = call[u]
  BY ONLY <1>1, <1>4, <1>5, CallReplaced, t \in Threads
<1>7. TypeOK'
  BY <1>1, <1>6 DEF TypeOK, ContextsTyped, HandlesTyped
<1>8. Capturing' = Capturing /\ ~Capturing
  BY DEF Capturing, Leaving
<1>9. ASSUME NEW u \in Threads \ {t} PROVE Mode(u)'
  <2>1. Mode(u) /\ call'[u] = call[u] /\ script'[u] = script[u] /\ (u \in ended' <=> u \in ended)
        /\ handle'[u] = handle[u] /\ (Calling(u) => call[u].context \in registry')
    BY <1>6 DEF Shape
  <2> QED BY ONLY <2>1, <1>8, OthersKeep
<1>10. Outside(t)'
  BY <1>5, <1>6 DEF Outside, Leaving
<1>11. r = <<>> \/ LeavingTodo(r, t \in ended)
  <2>1. LeavingTodo(call[t].todo, t \in ended)
    BY DEF Leaving
  <2>2. p \o Tail(call[t].todo) = <<>> \/ LeavingTodo(p \o Tail(call[t].todo), t \in ended)
    BY ONLY <2>1, LeavingOn, LeavingProgram(p, t \in ended)
  <2> QED BY <2>2, <1>2
<1>12. call'[t].todo = r /\ ended' = ended
  BY <1>5, <1>6
<1>13. AtRest(t)' \/ Leaving(t)'
  BY ONLY <1>8, <1>10, <1>11, <1>12 DEF AtRest, Leaving
<1> QED BY <1>2, <1>5, <1>6, <1>7, <1>9, <1>10, <1>12, <1>13 DEF Shape, Mode

\* Nothing, and one instruction, as programs of a destruction.
LEMMA LeavingShort ==
  ASSUME NEW over
  PROVE  LeavingProgram(<<>>, over)
         /\ \A i : IsLeaving(i) /\ (i.do \in {"erase", "destroy own"} => over)
                     => LeavingProgram(<<i>>, over)
<1>1. LeavingProgram(<<>>, over)
  BY DEF LeavingProgram, IsSeq, Range
<1>2. ASSUME NEW i, IsLeaving(i), i.do \in {"erase", "destroy own"} => over
      PROVE  LeavingProgram(<<i>>, over)
  <2>1. Range(<<i>>) = {i} /\ Len(<<i>>) = 1
    BY DEF Range
  <2>2. IsSeq(<<i>>)
    BY <2>1 DEF IsSeq
  <2>3. \A k \in 2..Len(<<i>>) : <<i>>[k].do # "destroy own"
    <3>1. 2..Len(<<i>>) = {}
      BY ONLY <2>1
    <3> QED BY ONLY <3>1, Zenon
  <2>4. \A j \in Range(<<i>>) : IsLeaving(j) /\ (j.do \in {"erase", "destroy own"} => over)
    BY ONLY <1>2, <2>1
  <2> QED BY ONLY <2>2, <2>3, <2>4 DEF LeavingProgram
<1> QED BY <1>1, <1>2

\* The program of camblas_cuda_destroy.
LEMMA WaitAndRelease ==
  ASSUME NEW over, NEW i, i.do = "release"
  PROVE  /\ LeavingProgram(Wait \o <<i>>, over) /\ Len(Wait \o <<i>>) = 3
         /\ (Wait \o <<i>>)[1].do = "synchronize" /\ (Wait \o <<i>>)[2].do = "await"
         /\ (Wait \o <<i>>)[3] = i
<1>1. PICK p : p = Wait \o <<i>>
  OBVIOUS
<1>2. PICK a, b : a = [do |-> "synchronize"] /\ b = [do |-> "await"]
  OBVIOUS
<1>3. Wait = <<a, b>> /\ a.do = "synchronize" /\ b.do = "await"
  BY <1>2 DEF Wait
<1>4. Range(<<a, b>>) = {a, b} /\ Range(<<i>>) = {i}
  BY DEF Range
<1>5. IsSeq(<<a, b>>) /\ IsSeq(<<i>>)
  BY ONLY <1>4 DEF IsSeq
<1>6. /\ IsSeq(p) /\ Range(p) = {a, b} \cup {i} /\ Len(p) = Len(<<a, b>>) + Len(<<i>>)
      /\ \A k \in 1..Len(<<a, b>>) : p[k] = <<a, b>>[k]
      /\ \A k \in 1..Len(<<i>>) : p[Len(<<a, b>>) + k] = <<i>>[k]
  BY ONLY <1>1, <1>3, <1>4, <1>5, Concatenated
<1>7. Len(<<a, b>>) = 2 /\ Len(<<i>>) = 1 /\ <<a, b>>[1] = a /\ <<a, b>>[2] = b /\ <<i>>[1] = i
  OBVIOUS
<1>8. Len(p) = 3 /\ p[1] = a /\ p[2] = b /\ p[3] = i
  <2>1. 1 \in 1..2 /\ 2 \in 1..2 /\ 1 \in 1..1 /\ 2 + 1 = 3
    OBVIOUS
  <2> QED BY ONLY <2>1, <1>6, <1>7
<1>9. IsLeaving(a) /\ IsLeaving(b) /\ IsLeaving(i)
  BY <1>3 DEF IsLeaving, LeavingDos
<1>10. \A k \in 2..Len(p) : p[k].do # "destroy own"
  <2>1. \A k \in 2..3 : k = 2 \/ k = 3
    OBVIOUS
  <2>2. p[2].do # "destroy own" /\ p[3].do # "destroy own"
    BY ONLY <1>3, <1>8, i.do = "release"
  <2> QED BY ONLY <2>1, <2>2, <1>8
<1>11. \A j \in {a, b} \cup {i} : IsLeaving(j) /\ j.do \notin {"erase", "destroy own"}
  BY <1>3, <1>9
<1>12. LeavingProgram(p, over)
  BY ONLY <1>6, <1>10, <1>11 DEF LeavingProgram
<1> QED BY ONLY <1>1, <1>3, <1>8, <1>12

\* The waits of a destruction.
LEMMA WaitShape ==
  ASSUME Shape, NEW t \in Threads, Leaving(t), Synchronize(t) \/ Await(t), UNCHANGED bindingVars
  PROVE  Shape' /\ call'[t].todo = Tail(call[t].todo) /\ (AtRest(t)' \/ Leaving(t)')
         /\ \A u \in Threads \ {t} : call'[u] = call[u]
<1>1. Continue(t, <<>>) /\ UNCHANGED context /\ (capture' = capture \/ capture' = Disturbed)
  BY DEF Synchronize, Await, streamVars
<1>2. UNCHANGED <<script, calls, ended, capture>> /\ UNCHANGED <<handle, registry>>
  BY <1>1 DEF bindingVars, Leaving, Disturbed
<1>3. ContextsTyped' /\ HandlesTyped' /\ registry' \subseteq Contexts
  BY <1>1, <1>2 DEF Shape, TypeOK, ContextsTyped, HandlesTyped
<1>4. \A u \in Threads \ {t} : handle'[u] = handle[u] /\ (Calling(u) => call[u].context \in registry')
  BY <1>2 DEF Calling
<1>5. LeavingProgram(<<>>, t \in ended)
  BY LeavingShort
<1>6. /\ Shape' /\ \A u \in Threads \ {t} : call'[u] = call[u]
      /\ call'[t].todo = <<>> \o Tail(call[t].todo) /\ (AtRest(t)' \/ Leaving(t)')
  BY ONLY Shape, t \in Threads, Leaving(t), <1>1, <1>2, <1>3, <1>4, <1>5, LeavingStep
<1>7. <<>> \o Tail(call[t].todo) = Tail(call[t].todo)
  <2>1. IsSeq(call[t].todo) /\ call[t].todo # <<>>
    BY DEF Leaving, LeavingTodo
  <2>2. IsSeq(Tail(call[t].todo))
    BY ONLY <2>1, Rested
  <2>3. PICK r : r = Tail(call[t].todo)
    OBVIOUS
  <2>4. r \in Seq(Range(r))
    BY <2>2, <2>3 DEF IsSeq
  <2>5. <<>> \o r = r
    BY ONLY <2>4
  <2> QED BY <2>3, <2>5
<1> QED BY <1>6, <1>7

\* The turns of the graph: nobody is in a call when a capture begins or ends.
LEMMA ApplicationShape == ASSUME Shape, NEW t \in Threads, Application(t) PROVE Shape'
<1>1. TypeOK /\ \A u \in Threads : Mode(u)
  BY DEF Shape
<1>2. script[t] # <<>> /\ Turn(t) /\ UNCHANGED <<context, call, handle, registry, calls, ended>>
  BY DEF Application, Does, contextVars
<1>3. /\ DOMAIN script' = Threads /\ \A u \in Threads : IsProgram(script'[u], IsTurn)
      /\ \A u \in Threads \ {t} : script'[u] = script[u]
  BY ONLY <1>1, <1>2, TurnTaken, t \in Threads
<1>4. AtRest(t)
  <2>1. Resting(t)
    BY DEF Application, Does
  <2> QED BY ONLY <2>1, <1>1, RestingThread, t \in Threads
<1>5. \/ \A u \in Threads : AtRest(u)
      \/ Capturing' = Capturing
      \/ \A u \in Threads : ~Calling(u) /\ ~Creating(u) /\ Capturing
  <2>1. CASE \A u \in Threads : Resting(u)
    BY <2>1, <1>1, RestingThread
  <2>2. CASE Quiet /\ EndCapture
    BY <2>2 DEF Quiet, InCall, Calling, Creating, EndCapture
  <2>3. CASE Replay \/ DestroyGraph
    BY <2>3 DEF Replay, DestroyGraph, Capturing
  <2> QED BY <2>1, <2>2, <2>3 DEF Application
<1>6. capture' \in {"none", "active", "graph", "destroyed"}
  <2>1. capture' \in {"active", "graph", "destroyed", capture}
    BY DEF Application, BeginCapture, EndCapture, Replay, DestroyGraph
  <2> QED BY <2>1, <1>1 DEF TypeOK
<1>7. TypeOK'
  BY <1>1, <1>2, <1>3, <1>6 DEF TypeOK
<1>8. ASSUME NEW u \in Threads PROVE Mode(u)'
  <2>1. AtRest(u) => AtRest(u)'
    BY <1>2 DEF AtRest, Outside
  <2>2. Mode(u)
    BY <1>1
  <2>3. CASE \A v \in Threads : AtRest(v)
    BY <2>1, <2>3 DEF Mode
  <2>4. CASE Capturing' = Capturing /\ u # t
    <3>1. call'[u] = call[u] /\ script'[u] = script[u] /\ (u \in ended' <=> u \in ended)
          /\ handle'[u] = handle[u] /\ (Calling(u) => call[u].context \in registry')
      BY <2>4, <1>2, <1>3 DEF Calling
    <3> QED BY ONLY <2>2, <2>4, <3>1, OthersKeep
  <2>5. CASE u = t
    BY <2>5, <1>4, <2>1 DEF Mode
  <2>6. CASE ~Calling(u) /\ ~Creating(u) /\ Capturing
    BY <2>6, <2>1, <2>2 DEF Mode, Leaving
  <2> QED BY <1>5, <2>3, <2>4, <2>5, <2>6
<1> QED BY <1>7, <1>8 DEF Shape

\* A thread that skips a call (CreateFails, RefuseCall).
LEMMA SkipShape ==
  ASSUME Shape, NEW t \in Threads, Does(t, "call"), Turn(t),
         UNCHANGED <<context, call, handle, registry, calls, ended, capture>>
  PROVE  Shape'
<1>1. TypeOK /\ \A u \in Threads : Mode(u)
  BY DEF Shape
<1>2. script[t] # <<>> /\ Resting(t)
  BY DEF Does
<1>3. /\ DOMAIN script' = Threads /\ \A u \in Threads : IsProgram(script'[u], IsTurn)
      /\ \A u \in Threads \ {t} : script'[u] = script[u]
  BY ONLY <1>1, <1>2, TurnTaken, t \in Threads, Turn(t)
<1>4. AtRest(t)
  BY ONLY <1>1, <1>2, RestingThread, t \in Threads
<1>5. TypeOK'
  BY <1>1, <1>3 DEF TypeOK
<1>6. ASSUME NEW u \in Threads PROVE Mode(u)'
  <2>1. CASE u = t
    BY <2>1, <1>4 DEF Mode, AtRest, Outside
  <2>2. CASE u # t
    <3>1. call'[u] = call[u] /\ script'[u] = script[u] /\ (u \in ended' <=> u \in ended)
          /\ handle'[u] = handle[u] /\ (Calling(u) => call[u].context \in registry')
          /\ Capturing' = Capturing
      BY <2>2, <1>3 DEF Calling, Capturing
    <3> QED BY ONLY <1>1, <3>1, OthersKeep, u \in Threads
  <2> QED BY <2>1, <2>2
<1> QED BY <1>5, <1>6 DEF Shape

\* A thread that enters its next call on context c.
LEMMA EnterShape ==
  ASSUME Shape, NEW t \in Threads, NEW c \in Contexts,
         script[t] # <<>>, Head(script[t]).do = "call", t \notin ended,
         Capturing => ~NextCall(t).host,
         Enter(t, c), UNCHANGED <<ended, capture>>, ContextsTyped', HandlesTyped',
         registry' \subseteq Contexts, c \in registry', \E k \in BOOLEAN : handle'[t][k] = c,
         \A u \in Threads \ {t} : /\ handle'[u] = handle[u]
                                  /\ Calling(u) => call[u].context \in registry'
  PROVE  /\ Shape' /\ Calling(t)' /\ \A u \in Threads \ {t} : call'[u] = call[u]
         /\ call'[t].pointer = Tensors(t, Free(Held))
<1>1. TypeOK /\ \A u \in Threads : Mode(u)
  BY DEF Shape
<1>2. PICK x : x = Entered(t, c, Tensors(t, Free(Held)))
  OBVIOUS
<1>3. call' = [call EXCEPT ![t] = x] /\ calls' = calls + 1 /\ Turn(t)
  BY <1>2 DEF Enter
<1>4. /\ DOMAIN x = CallFields /\ x.id = calls + 1 /\ x.context = c
      /\ x.pointer = Tensors(t, Free(Held)) /\ x.host = NextCall(t).host
      /\ x.todo = (NextCall(t).body \o HostCompletion(NextCall(t).host))
                  \o <<[do |-> "return", reads |-> NextCall(t).results]>>
  BY ONLY <1>2 DEF Entered, CallFields
<1>5. /\ DOMAIN call' = Threads /\ \A u \in Threads : DOMAIN call'[u] = CallFields
      /\ call'[t] = x /\ \A u \in Threads \ {t} : call'[u] = call[u]
  BY ONLY <1>1, <1>3, <1>4, CallReplaced, t \in Threads
<1>6. /\ DOMAIN script' = Threads /\ \A u \in Threads : IsProgram(script'[u], IsTurn)
      /\ \A u \in Threads \ {t} : script'[u] = script[u]
  BY ONLY <1>1, <1>3, TurnTaken, t \in Threads, script[t] # <<>>
<1>7. calls \in Nat
  BY <1>1 DEF TypeOK
<1>8. TypeOK'
  BY <1>1, <1>3, <1>5, <1>6, <1>7 DEF TypeOK, ContextsTyped, HandlesTyped
<1>9. Capturing' = Capturing /\ Dos' = Dos
  BY DEF Capturing, Dos
<1>10. IsTurn(NextCall(t)) /\ NextCall(t).do = "call"
  <2>1. IsTurn(Head(script[t]))
    BY ONLY <1>1, NextTurn, t \in Threads, script[t] # <<>>
  <2> QED BY <2>1 DEF NextCall
<1>11. NextCall(t).host \in BOOLEAN /\ IsProgram(NextCall(t).body, IsBody)
  BY ONLY <1>10 DEF IsTurn
<1>12. CallTodo(x.todo, Dos)
  <2>1. SafeDos \subseteq Dos
    BY Dosed DEF SafeIsCode
  <2>2. Fresh(NextCall(t).body, Dos)
    BY ONLY <1>11, <2>1, BodyProgram
  <2>3. NextCall(t).host => Dos = CodeDos
    BY Dosed
  <2> QED BY ONLY <1>4, <1>11, <2>2, <2>3, EndTodo
<1>13. Calling(t)'
  <2>1. x.id # 0
    BY <1>4, <1>7
  <2> QED BY <1>4, <1>5, <1>9, <1>11, <1>12, <2>1 DEF Calling
<1>14. ASSUME NEW u \in Threads \ {t} PROVE Mode(u)'
  <2>1. Mode(u) /\ call'[u] = call[u] /\ script'[u] = script[u] /\ (u \in ended' <=> u \in ended)
        /\ handle'[u] = handle[u] /\ (Calling(u) => call[u].context \in registry')
    BY <1>1, <1>5, <1>6
  <2> QED BY ONLY <2>1, <1>9, OthersKeep
<1> QED BY <1>4, <1>5, <1>8, <1>13, <1>14 DEF Shape, Mode

\* get_context with a handle.
LEMMA GetContextShape ==
  ASSUME Shape, Separate, NEW t \in Threads, GetContext(t)
  PROVE  /\ Shape' /\ Calling(t)' /\ AtRest(t) /\ \A u \in Threads \ {t} : call'[u] = call[u]
         /\ call'[t].pointer = Tensors(t, Free(Held))
         /\ KeepsStates /\ UNCHANGED <<handle, registry, capture, ended>>
<1>1. TypeOK /\ \A u \in Threads : Mode(u)
  BY DEF Shape
<1>2. PICK c : c = MyHandle(t)
  OBVIOUS
<1>3. /\ Does(t, "call") /\ c \notin {Absent, Null} /\ ~Refused(t) /\ Enter(t, c)
      /\ context' = [context EXCEPT ![c].algorithm = NextCall(t).algorithm]
      /\ UNCHANGED <<capture, handle, registry, ended>>
  BY <1>2 DEF GetContext, MayCall, HasContext
<1>4. script[t] # <<>> /\ Head(script[t]).do = "call" /\ t \notin ended /\ Resting(t)
  BY <1>3 DEF Does
<1>5. AtRest(t)
  BY ONLY <1>1, <1>4, RestingThread, t \in Threads
<1>6. NextCall(t).host \in BOOLEAN
  <2>1. IsTurn(Head(script[t]))
    BY ONLY <1>1, <1>4, NextTurn, t \in Threads
  <2> QED BY <2>1, <1>4 DEF IsTurn, NextCall
<1>7. c = handle[t][NextCall(t).host]
  BY <1>2 DEF MyHandle
<1>8. c \in registry /\ c \in Contexts
  <2>1. ~At(t, "destroy own")
    BY <1>4 DEF Resting, At
  <2>2. ~Leaves(t, NextCall(t).host)
    BY <2>1 DEF Leaves
  <2>3. c \in {Null} \cup registry \cup {Absent}
    BY <1>6, <1>7, <2>2 DEF Separate
  <2> QED BY <2>2, <2>3, <1>1, <1>3 DEF TypeOK
<1>9. PICK x : x = [context[c] EXCEPT !.algorithm = NextCall(t).algorithm]
  OBVIOUS
<1>10. context' = [context EXCEPT ![c] = x]
  BY ONLY <1>3, <1>9
<1>11. DOMAIN x = ContextFields /\ x.state = context[c].state
  <2>1. DOMAIN context[c] = ContextFields
    BY <1>1, <1>8 DEF TypeOK
  <2> QED BY ONLY <2>1, <1>9 DEF ContextFields
<1>12. KeepsStates
  BY ONLY <1>1, <1>10, <1>11, OneContext
<1>13. ContextsTyped' /\ HandlesTyped' /\ registry' \subseteq Contexts /\ c \in registry'
  BY <1>1, <1>3, <1>8, <1>12 DEF TypeOK, ContextsTyped, HandlesTyped, KeepsStates
<1>14. \E k \in BOOLEAN : handle'[t][k] = c
  BY <1>3, <1>6, <1>7
<1>15. \A u \in Threads \ {t} : handle'[u] = handle[u] /\ (Calling(u) => call[u].context \in registry')
  BY <1>3 DEF Calling
<1>16. Capturing => ~NextCall(t).host
  BY <1>3 DEF Refused
<1>17. /\ Shape' /\ Calling(t)' /\ \A u \in Threads \ {t} : call'[u] = call[u]
       /\ call'[t].pointer = Tensors(t, Free(Held))
  BY ONLY Shape, <1>3, <1>4, <1>8, <1>13, <1>14, <1>15, <1>16, EnterShape, t \in Threads
<1> QED BY <1>3, <1>5, <1>12, <1>17

\* A thread outside of calls gets something to register or to destroy.
LEMMA OutsideShape ==
  ASSUME Shape, NEW t \in Threads, NEW x, call' = [call EXCEPT ![t] = x], DOMAIN x = CallFields,
         capture' = capture,
         DOMAIN script' = Threads, \A u \in Threads : IsProgram(script'[u], IsTurn),
         calls' = calls, ended' \subseteq Threads, ContextsTyped', HandlesTyped',
         registry' \subseteq Contexts,
         \A u \in Threads \ {t} : /\ script'[u] = script[u] /\ (u \in ended' <=> u \in ended)
                                  /\ Calling(u) => /\ call[u].context \in registry'
                                                   /\ handle'[u] = handle[u],
         (Creating(t) \/ Leaving(t))'
  PROVE  Shape' /\ call'[t] = x /\ \A u \in Threads \ {t} : call'[u] = call[u]
<1>1. TypeOK /\ \A u \in Threads : Mode(u)
  BY DEF Shape
<1>2. /\ DOMAIN call' = Threads /\ \A u \in Threads : DOMAIN call'[u] = CallFields
      /\ call'[t] = x /\ \A u \in Threads \ {t} : call'[u] = call[u]
  BY ONLY <1>1, call' = [call EXCEPT ![t] = x], DOMAIN x = CallFields, CallReplaced, t \in Threads
<1>3. TypeOK'
  BY <1>1, <1>2 DEF TypeOK, ContextsTyped, HandlesTyped
<1>4. Capturing' = Capturing /\ Dos' = Dos
  BY DEF Capturing, Dos
<1>5. ASSUME NEW u \in Threads \ {t} PROVE Mode(u)'
  <2>1. Mode(u) /\ call'[u] = call[u] /\ script'[u] = script[u] /\ (u \in ended' <=> u \in ended)
    BY <1>1, <1>2
  <2>2. (AtRest(u) => AtRest(u)') /\ (Creating(u) => Creating(u)')
    BY ONLY <2>1, <1>4 DEF AtRest, Outside, Creating
  <2>3. Leaving(u) => Leaving(u)'
    BY ONLY <2>1, <1>4 DEF Outside, Leaving
  <2>4. Calling(u) => Calling(u)'
    BY <2>1, <1>4 DEF Calling
  <2> QED BY <2>1, <2>2, <2>3, <2>4 DEF Mode
<1> QED BY <1>2, <1>3, <1>5 DEF Shape, Mode

\* Contexts are numbered in the order of their creation.
LEMMA NextContext ==
  ASSUME NEW d \in Contexts, context[d].state = "unused"
  PROVE  NewContext \in Contexts /\ context[NewContext].state = "unused"
<1> DEFINE S == {c \in Contexts : context[c].state = "unused"}
<1>1. S \subseteq Nat /\ S # {}
  BY DEF Contexts
<1>2. Min(S) \in S /\ \A c \in S : Min(S) <= c
  <2> HIDE DEF S
  <2> QED BY ONLY <1>1, FirstOf
<1>3. PICK m : m = Min(S)
  OBVIOUS
<1>4. m \in Contexts /\ context[m].state = "unused"
  BY <1>2, <1>3
<1>5. \A c \in Contexts : c < m => context[c].state # "unused"
  <2> SUFFICES ASSUME NEW c \in Contexts, c < m, context[c].state = "unused" PROVE FALSE
    OBVIOUS
  <2>1. m <= c
    BY <1>2, <1>3
  <2>2. m \in Nat /\ c \in Nat
    BY <1>4 DEF Contexts
  <2> QED BY ONLY <2>1, <2>2, c < m
<1> QED BY <1>4, <1>5, Zenon DEF NewContext

\* camblas_cuda_create makes a context that nothing has.
LEMMA CreateShape ==
  ASSUME Shape, NEW t \in Threads, CreateContext(t)
  PROVE  /\ Shape' /\ AtRest(t) /\ \A u \in Threads \ {t} : call'[u] = call[u]
         /\ NewContext \in Contexts /\ context[NewContext].state = "unused"
         /\ call'[t].todo = <<[do |-> "register", context |-> NewContext]>>
         /\ call'[t].pointer = <<>>
         /\ context' = [context EXCEPT ![NewContext] = Created(NextCall(t).algorithm, Free(Held))]
         /\ UNCHANGED <<handle, registry, capture, ended>>
<1>1. TypeOK /\ \A u \in Threads : Mode(u)
  BY DEF Shape
<1>2. PICK c : c = NewContext
  OBVIOUS
<1>3. PICK new : new = Created(NextCall(t).algorithm, Free(Held))
  OBVIOUS
<1>4. /\ Does(t, "call") /\ ~Capturing
      /\ (\E d \in Contexts : context[d].state = "unused") /\ context' = [context EXCEPT ![c] = new]
      /\ capture' = Disturbed
      /\ call' = [call EXCEPT ![t].todo = <<[do |-> "register", context |-> c]>>, ![t].id = calls + 1]
      /\ UNCHANGED <<script, handle, registry, calls, ended>>
  BY <1>2, <1>3 DEF CreateContext, MayCall, camblas_cuda_create, bindingVars
<1>5. script[t] # <<>> /\ Head(script[t]).do = "call" /\ t \notin ended /\ Resting(t)
  BY <1>4 DEF Does
<1>6. AtRest(t)
  BY ONLY <1>1, <1>5, RestingThread, t \in Threads
<1>7. c \in Contexts /\ context[c].state = "unused"
  <2>1. PICK d \in Contexts : context[d].state = "unused"
    BY <1>4
  <2> QED BY ONLY <2>1, <1>2, NextContext
<1>8. capture' = capture
  BY <1>4 DEF Disturbed
<1>9. ContextsTyped'
  <2>1. DOMAIN new = ContextFields
    BY <1>3 DEF Created, Unused, ContextFields
  <2>2. DOMAIN context = Contexts /\ \A d \in Contexts : DOMAIN context[d] = ContextFields
    BY <1>1 DEF TypeOK
  <2> QED BY <2>1, <2>2, <1>4 DEF ContextsTyped
<1>10. PICK x : x = [call[t] EXCEPT !.todo = <<[do |-> "register", context |-> c]>>, !.id = calls + 1]
  OBVIOUS
<1>11. call' = [call EXCEPT ![t] = x]
  <2>1. DOMAIN call = Threads
    BY <1>1 DEF TypeOK
  <2> QED BY ONLY <2>1, <1>4, <1>10, t \in Threads
<1>12. /\ DOMAIN x = CallFields /\ x.todo = <<[do |-> "register", context |-> c]>>
       /\ x.id = calls + 1 /\ x.context = 0 /\ x.pointer = <<>>
  <2>1. DOMAIN call[t] = CallFields /\ call[t].context = 0 /\ call[t].pointer = <<>>
    BY <1>1, <1>6 DEF TypeOK, AtRest, Outside
  <2> QED BY ONLY <2>1, <1>10 DEF CallFields
<1>13. call'[t] = x
  BY ONLY <1>1, <1>11, <1>12, CallReplaced, t \in Threads
<1>14. Creating(t)'
  <2>1. x.id # 0
    BY <1>12, <1>1 DEF TypeOK
  <2> QED BY <1>4, <1>5, <1>7, <1>8, <1>12, <1>13, <2>1 DEF Creating, Capturing
<1>15. HandlesTyped' /\ registry' \subseteq Contexts /\ ended' \subseteq Threads
  BY <1>1, <1>4 DEF TypeOK, HandlesTyped
<1>16. /\ DOMAIN script' = Threads /\ \A u \in Threads : IsProgram(script'[u], IsTurn)
  BY <1>1, <1>4 DEF TypeOK
<1>17. \A u \in Threads \ {t} : /\ script'[u] = script[u] /\ (u \in ended' <=> u \in ended)
                                /\ Calling(u) => /\ call[u].context \in registry'
                                                 /\ handle'[u] = handle[u]
  BY <1>4 DEF Calling
<1>18. calls' = calls
  BY <1>4
<1>19. Shape' /\ \A u \in Threads \ {t} : call'[u] = call[u]
  BY ONLY Shape, t \in Threads, <1>8, <1>9, <1>11, <1>12, <1>14, <1>15, <1>16, <1>17, <1>18,
          OutsideShape
<1> QED BY <1>2, <1>3, <1>4, <1>6, <1>7, <1>8, <1>12, <1>13, <1>19

\* The registration of a new context, in the call it was made for.
LEMMA AtRegister ==
  ASSUME Shape, NEW t \in Threads, At(t, "register")
  PROVE  /\ Creating(t) /\ Instruction(t).context \in Contexts
         /\ call[t].todo = <<[do |-> "register", context |-> Instruction(t).context]>>
<1>1. call[t].todo # <<>> /\ Head(call[t].todo).do = "register" /\ Mode(t)
  BY DEF At, Shape
<1>2. ~AtRest(t)
  BY <1>1 DEF AtRest
<1>3. ~Calling(t)
  <2> SUFFICES ASSUME Calling(t) PROVE FALSE
    OBVIOUS
  <2>1. CallTodo(call[t].todo, Dos) /\ Head(call[t].todo).do # "return"
    BY <1>1 DEF Calling
  <2>2. IsCode(Head(call[t].todo), Dos)
    BY ONLY <2>1, NextIsCode
  <2>3. Head(call[t].todo).do \in Dos
    BY ONLY <2>2, CodeDown
  <2> QED BY <2>3, <1>1 DEF Dos, CodeDos, SafeDos
<1>4. ~Leaving(t)
  <2> SUFFICES ASSUME Leaving(t) PROVE FALSE
    OBVIOUS
  <2>1. IsSeq(call[t].todo) /\ \A i \in Range(call[t].todo) : i.do \in LeavingDos
    BY DEF Leaving, LeavingTodo, IsLeaving
  <2>2. Head(call[t].todo) \in Range(call[t].todo)
    BY ONLY <1>1, <2>1, Rested
  <2> QED BY ONLY <1>1, <2>1, <2>2 DEF LeavingDos
<1>5. Creating(t)
  BY <1>1, <1>2, <1>3, <1>4 DEF Mode
<1>6. PICK c \in Contexts : call[t].todo = <<[do |-> "register", context |-> c]>>
  BY <1>5 DEF Creating
<1>7. Instruction(t) = [do |-> "register", context |-> c]
  BY <1>6 DEF Instruction
<1>8. Instruction(t).context = c
  BY ONLY <1>7
<1> QED BY <1>5, <1>6, <1>8

\* Handle::Handle registers it, and the call begins.
LEMMA RegisterShape ==
  ASSUME Shape, NEW t \in Threads, Register(t)
  PROVE  /\ Shape' /\ Calling(t)' /\ \A u \in Threads \ {t} : call'[u] = call[u]
         /\ call'[t].pointer = Tensors(t, Free(Held))
         /\ NextCall(t).host \in BOOLEAN /\ Creating(t)
<1>1. TypeOK /\ \A u \in Threads : Mode(u)
  BY DEF Shape
<1>2. PICK c : c = Instruction(t).context
  OBVIOUS
<1>3. PICK k : k = NextCall(t).host
  OBVIOUS
<1>4. /\ At(t, "register") /\ Enter(t, c) /\ registry' = registry \cup {c}
      /\ handle' = [handle EXCEPT ![t][k] = c]
      /\ UNCHANGED <<capture, context, ended>>
  BY <1>2, <1>3 DEF Register
<1>5. Creating(t) /\ c \in Contexts
  BY ONLY Shape, t \in Threads, <1>2, <1>4, AtRegister
<1>6. script[t] # <<>> /\ Head(script[t]).do = "call" /\ t \notin ended /\ ~Capturing
  BY <1>5 DEF Creating
<1>7. k \in BOOLEAN
  <2>1. IsTurn(Head(script[t]))
    BY ONLY <1>1, <1>6, NextTurn, t \in Threads
  <2> QED BY <2>1, <1>3, <1>6 DEF IsTurn, NextCall
<1>8. /\ HandlesTyped' /\ handle'[t][k] = c /\ \A u \in Threads \ {t} : handle'[u] = handle[u]
  <2>1. DOMAIN handle = Threads /\ \A u \in Threads : DOMAIN handle[u] = BOOLEAN
    BY <1>1 DEF TypeOK
  <2>2. DOMAIN handle' = Threads
        /\ \A u \in Threads : handle'[u] = IF u = t THEN [handle[t] EXCEPT ![k] = c] ELSE handle[u]
    BY ONLY <2>1, <1>4, t \in Threads
  <2>3. DOMAIN [handle[t] EXCEPT ![k] = c] = BOOLEAN /\ [handle[t] EXCEPT ![k] = c][k] = c
    BY ONLY <2>1, <1>7, t \in Threads
  <2> QED BY ONLY <2>1, <2>2, <2>3, t \in Threads DEF HandlesTyped
<1>9. ContextsTyped' /\ registry' \subseteq Contexts /\ c \in registry'
  BY <1>1, <1>4, <1>5 DEF TypeOK, ContextsTyped
<1>10. \E j \in BOOLEAN : handle'[t][j] = c
  BY <1>7, <1>8
<1>11. \A u \in Threads \ {t} : handle'[u] = handle[u] /\ (Calling(u) => call[u].context \in registry')
  BY <1>4, <1>8 DEF Calling
<1>12. UNCHANGED <<ended, capture>> /\ (Capturing => ~NextCall(t).host)
  BY <1>4, <1>6
<1>13. /\ Shape' /\ Calling(t)' /\ \A u \in Threads \ {t} : call'[u] = call[u]
       /\ call'[t].pointer = Tensors(t, Free(Held))
  BY ONLY Shape, <1>4, <1>5, <1>6, <1>8, <1>9, <1>10, <1>11, <1>12, EnterShape, t \in Threads
<1> QED BY <1>3, <1>5, <1>7, <1>13

\* If that fails the context will be destroyed.
LEMMA RegisterFailsShape ==
  ASSUME Shape, NEW t \in Threads, RegisterFails(t)
  PROVE  /\ Shape' /\ Creating(t) /\ \A u \in Threads \ {t} : call'[u] = call[u]
         /\ call'[t].todo = <<[do |-> "destroy", context |-> Instruction(t).context]>>
         /\ call'[t].pointer = <<>>
<1>1. TypeOK /\ \A u \in Threads : Mode(u)
  BY DEF Shape
<1>2. PICK i : i = [do |-> "destroy", context |-> Instruction(t).context]
  OBVIOUS
<1>3. PICK x : x = [Idle EXCEPT !.todo = <<i>>]
  OBVIOUS
<1>4. /\ At(t, "register") /\ call' = [call EXCEPT ![t] = x] /\ Turn(t)
      /\ UNCHANGED <<capture, context, handle, registry, calls, ended>>
  BY <1>2, <1>3 DEF RegisterFails, streamVars
<1>5. Creating(t)
  BY ONLY Shape, t \in Threads, <1>4, AtRegister
<1>6. DOMAIN x = CallFields /\ x.todo = <<i>> /\ x.id = 0 /\ x.context = 0 /\ x.pointer = <<>>
  BY ONLY <1>3 DEF Idle, CallFields
<1>7. call'[t] = x
  BY ONLY <1>1, <1>4, <1>6, CallReplaced, t \in Threads
<1>8. LeavingTodo(<<i>>, t \in ended)
  <2>1. IsLeaving(i) /\ i.do = "destroy"
    BY <1>2 DEF IsLeaving, LeavingDos
  <2>2. i.do \in {"erase", "destroy own"} => t \in ended
    BY ONLY <2>1
  <2>3. LeavingProgram(<<i>>, t \in ended)
    BY ONLY <2>1, <2>2, LeavingShort
  <2>4. <<i>> # <<>>
    OBVIOUS
  <2> QED BY ONLY <2>3, <2>4 DEF LeavingTodo, LeavingProgram
<1>9. Leaving(t)'
  BY <1>4, <1>5, <1>6, <1>7, <1>8 DEF Leaving, Outside, Creating, Capturing
<1>10. script[t] # <<>>
  BY <1>5 DEF Creating
<1>11. /\ DOMAIN script' = Threads /\ \A u \in Threads : IsProgram(script'[u], IsTurn)
       /\ \A u \in Threads \ {t} : script'[u] = script[u]
  BY ONLY <1>1, <1>4, <1>10, TurnTaken, t \in Threads
<1>12. /\ ContextsTyped' /\ HandlesTyped' /\ registry' \subseteq Contexts /\ ended' \subseteq Threads
       /\ capture' = capture /\ calls' = calls
  BY <1>1, <1>4 DEF TypeOK, ContextsTyped, HandlesTyped
<1>13. \A u \in Threads \ {t} : /\ script'[u] = script[u] /\ (u \in ended' <=> u \in ended)
                                /\ Calling(u) => /\ call[u].context \in registry'
                                                 /\ handle'[u] = handle[u]
  BY <1>4, <1>11 DEF Calling
<1>14. Shape' /\ \A u \in Threads \ {t} : call'[u] = call[u]
  BY ONLY Shape, t \in Threads, <1>4, <1>6, <1>9, <1>11, <1>12, <1>13, OutsideShape
<1> QED BY <1>2, <1>5, <1>6, <1>7, <1>14

\* The end of a call.
LEMMA ReturnShape ==
  ASSUME Shape, NEW t \in Threads, ReturnDevice(t) \/ ReturnHost(t)
  PROVE  /\ Shape' /\ Calling(t) /\ \A u \in Threads \ {t} : call'[u] = call[u]
         /\ call'[t] = Idle
<1>1. TypeOK /\ \A u \in Threads : Mode(u)
  BY DEF Shape
<1>2. /\ At(t, "return") /\ call' = [call EXCEPT ![t] = Idle]
      /\ UNCHANGED <<capture, context, script, handle, registry, calls, ended>>
  BY DEF ReturnDevice, ReturnHost, bindingVars
<1>3. Calling(t)
  BY <1>1, <1>2, InACall
<1>4. DOMAIN Idle = CallFields
  BY DEF Idle, CallFields
<1>5. /\ DOMAIN call' = Threads /\ \A u \in Threads : DOMAIN call'[u] = CallFields
      /\ call'[t] = Idle /\ \A u \in Threads \ {t} : call'[u] = call[u]
  BY ONLY <1>1, <1>2, <1>4, CallReplaced, t \in Threads
<1>6. TypeOK'
  BY <1>1, <1>2, <1>5 DEF TypeOK
<1>7. ASSUME NEW u \in Threads PROVE Mode(u)'
  <2>1. CASE u = t
    BY <2>1, <1>5 DEF Mode, AtRest, Outside, Idle
  <2>2. CASE u # t
    <3>1. call'[u] = call[u] /\ script'[u] = script[u] /\ (u \in ended' <=> u \in ended)
          /\ handle'[u] = handle[u] /\ (Calling(u) => call[u].context \in registry')
          /\ Capturing' = Capturing
      BY <2>2, <1>2, <1>5 DEF Calling, Capturing
    <3> QED BY ONLY <1>1, <3>1, OthersKeep, u \in Threads
  <2> QED BY <2>1, <2>2
<1> QED BY <1>3, <1>5, <1>6, <1>7 DEF Shape

\* The end of a thread.
LEMMA EndShape ==
  ASSUME Shape, NEW t \in Threads, EndThread(t)
  PROVE  /\ Shape' /\ AtRest(t) /\ \A u \in Threads \ {t} : call'[u] = call[u]
         /\ call'[t].todo = <<[do |-> "erase", host |-> FALSE], [do |-> "erase", host |-> TRUE]>>
         /\ call'[t].pointer = <<>>
<1>1. TypeOK /\ \A u \in Threads : Mode(u)
  BY DEF Shape
<1>2. PICK a, b : a = [do |-> "erase", host |-> FALSE] /\ b = [do |-> "erase", host |-> TRUE]
  OBVIOUS
<1>3. /\ call' = [call EXCEPT ![t].todo = <<a, b>>] /\ ended' = ended \cup {t}
      /\ Resting(t) /\ NoGraph
      /\ UNCHANGED <<capture, context, script, handle, registry, calls>>
  BY <1>2 DEF EndThread, streamVars
<1>4. AtRest(t)
  BY ONLY <1>1, <1>3, RestingThread, t \in Threads
<1>5. PICK x : x = [call[t] EXCEPT !.todo = <<a, b>>]
  OBVIOUS
<1>6. call' = [call EXCEPT ![t] = x]
  <2>1. DOMAIN call = Threads
    BY <1>1 DEF TypeOK
  <2> QED BY ONLY <2>1, <1>3, <1>5, t \in Threads
<1>7. DOMAIN x = CallFields /\ x.todo = <<a, b>> /\ x.id = 0 /\ x.context = 0 /\ x.pointer = <<>>
  <2>1. DOMAIN call[t] = CallFields /\ call[t].id = 0 /\ call[t].context = 0 /\ call[t].pointer = <<>>
    BY <1>1, <1>4 DEF TypeOK, AtRest, Outside
  <2> QED BY ONLY <2>1, <1>5 DEF CallFields
<1>8. call'[t] = x
  BY ONLY <1>1, <1>6, <1>7, CallReplaced, t \in Threads
<1>9. LeavingTodo(<<a, b>>, TRUE)
  <2>1. IsLeaving(a) /\ IsLeaving(b) /\ a.do = "erase" /\ b.do = "erase"
    BY <1>2 DEF IsLeaving, LeavingDos
  <2>2. Range(<<a, b>>) = {a, b}
    BY DEF Range
  <2>3. IsSeq(<<a, b>>)
    BY ONLY <2>2 DEF IsSeq
  <2>4. \A k \in 2..Len(<<a, b>>) : <<a, b>>[k].do # "destroy own"
    <3>1. Len(<<a, b>>) = 2 /\ <<a, b>>[2] = b /\ \A k \in 2..2 : k = 2
      OBVIOUS
    <3> QED BY ONLY <3>1, <2>1
  <2>5. <<a, b>> # <<>>
    OBVIOUS
  <2> QED BY ONLY <2>1, <2>2, <2>3, <2>4, <2>5 DEF LeavingTodo
<1>10. Leaving(t)'
  <2>1. t \in ended' /\ call'[t].todo = <<a, b>>
    BY <1>3, <1>7, <1>8
  <2>2. LeavingTodo(call'[t].todo, t \in ended')
    BY ONLY <1>9, <2>1
  <2>3. ~Capturing'
    BY <1>3 DEF Capturing, NoGraph
  <2> QED BY <1>7, <1>8, <2>2, <2>3 DEF Leaving, Outside
<1>11. /\ DOMAIN script' = Threads /\ \A u \in Threads : IsProgram(script'[u], IsTurn)
       /\ ContextsTyped' /\ HandlesTyped' /\ registry' \subseteq Contexts /\ ended' \subseteq Threads
       /\ capture' = capture /\ calls' = calls
  BY <1>1, <1>3 DEF TypeOK, ContextsTyped, HandlesTyped
<1>12. \A u \in Threads \ {t} : /\ script'[u] = script[u] /\ (u \in ended' <=> u \in ended)
                                /\ Calling(u) => /\ call[u].context \in registry'
                                                 /\ handle'[u] = handle[u]
  BY <1>3 DEF Calling
<1>13. Shape' /\ \A u \in Threads \ {t} : call'[u] = call[u]
  BY ONLY Shape, t \in Threads, <1>6, <1>7, <1>10, <1>11, <1>12, OutsideShape
<1> QED BY <1>2, <1>4, <1>7, <1>8, <1>13

\* What a thread that destroys contexts does next is one of its instructions.
LEMMA AtLeaving ==
  ASSUME Shape, NEW t \in Threads, NEW what \in LeavingDos \ {"synchronize", "await"}, At(t, what)
  PROVE  /\ Leaving(t) /\ Instruction(t).do = what /\ IsLeaving(Instruction(t))
         /\ Instruction(t) = call[t].todo[1] /\ Instruction(t) \in Range(call[t].todo)
         /\ IsSeq(call[t].todo) /\ call[t].todo # <<>>
         /\ what \in {"erase", "destroy own"} => t \in ended
<1>1. Leaving(t)
  <2>1. Mode(t)
    BY DEF Shape
  <2> QED BY ONLY <2>1, LeavingThread, At(t, what), what \in LeavingDos \ {"synchronize", "await"}
<1>2. /\ LeavingTodo(call[t].todo, t \in ended) /\ IsSeq(call[t].todo) /\ call[t].todo # <<>>
      /\ \A i \in Range(call[t].todo) : IsLeaving(i) /\ (i.do \in {"erase", "destroy own"} => t \in ended)
  BY <1>1 DEF Leaving, LeavingTodo
<1>3. Head(call[t].todo) = call[t].todo[1] /\ Head(call[t].todo) \in Range(call[t].todo)
  BY ONLY <1>2, Rested
<1>4. Instruction(t) = Head(call[t].todo) /\ Instruction(t).do = what
  BY DEF Instruction, At
<1> QED BY <1>1, <1>2, <1>3, <1>4

\* The thread-local handles of a thread that ends (EraseHandle, DestroyOwn).
LEMMA EraseShape ==
  ASSUME Shape, Separate, NEW t \in Threads, EraseHandle(t)
  PROVE  /\ Shape' /\ \A u \in Threads \ {t} : call'[u] = call[u]
         /\ call'[t].pointer = call[t].pointer
         /\ \/ call'[t].todo = <<>> \o Tail(call[t].todo) /\ UNCHANGED registry
            \/ /\ call'[t].todo = <<[do |-> "destroy own", host |-> Instruction(t).host]>>
                                  \o Tail(call[t].todo)
               /\ handle[t][Instruction(t).host] \in registry
               /\ registry' = registry \ {handle[t][Instruction(t).host]}
<1>1. /\ At(t, "erase") /\ UNCHANGED <<script, calls, ended, capture, context, handle>>
  BY DEF EraseHandle, streamVars
<1>2. PICK k : k = Instruction(t).host
  OBVIOUS
<1>3. /\ Leaving(t) /\ k \in BOOLEAN /\ t \in ended /\ Instruction(t).do = "erase"
  BY ONLY Shape, t \in Threads, <1>1, <1>2, AtLeaving DEF LeavingDos, IsLeaving
<1>4. PICK h : h = handle[t][k]
  OBVIOUS
<1>5. PICK i : i = [do |-> "destroy own", host |-> k]
  OBVIOUS
<1>6. \/ /\ Continue(t, <<>>) /\ UNCHANGED registry
      \/ /\ h \notin {Absent, Null} /\ registry' = registry \ {h} /\ Continue(t, <<i>>)
  BY <1>2, <1>4, <1>5, Zenon DEF EraseHandle
<1>7. ContextsTyped' /\ HandlesTyped' /\ registry' \subseteq Contexts
  BY <1>1, <1>6 DEF Shape, TypeOK, ContextsTyped, HandlesTyped
<1>8. CASE Continue(t, <<>>) /\ UNCHANGED registry
  <2>1. \A u \in Threads \ {t} : handle'[u] = handle[u] /\ (Calling(u) => call[u].context \in registry')
    BY <1>1, <1>8 DEF Calling
  <2>2. LeavingProgram(<<>>, t \in ended)
    BY LeavingShort
  <2>3. /\ Shape' /\ \A u \in Threads \ {t} : call'[u] = call[u]
        /\ call'[t].todo = <<>> \o Tail(call[t].todo) /\ call'[t].pointer = call[t].pointer
    BY ONLY Shape, t \in Threads, <1>1, <1>3, <1>7, <1>8, <2>1, <2>2, LeavingStep
  <2> QED BY <2>3, <1>8
<1>9. CASE h \notin {Absent, Null} /\ registry' = registry \ {h} /\ Continue(t, <<i>>)
  <2>1. h \in registry
    <3>1. Instruction(t).do = "erase"
      BY <1>3
    <3>2. ~Leaves(t, k)
      BY <3>1 DEF Leaves, At, Instruction
    <3>3. h \in {Null} \cup registry \cup {Absent}
      BY <1>3, <1>4, <3>2 DEF Separate
    <3> QED BY <3>2, <3>3, <1>9
  <2>2. \A u \in Threads \ {t} : handle'[u] = handle[u] /\ (Calling(u) => call[u].context \in registry')
    <3> SUFFICES ASSUME NEW u \in Threads \ {t}, Calling(u) PROVE call[u].context \in registry'
      BY <1>1
    <3>1. PICK j \in BOOLEAN : handle[u][j] = call[u].context /\ call[u].context \in registry
      BY DEF Calling
    <3>2. handle[u][j] # h
      BY <3>1, <1>3, <1>4, <1>9 DEF Separate
    <3> QED BY <3>1, <3>2, <1>9
  <2>3. LeavingProgram(<<i>>, t \in ended)
    <3>1. IsLeaving(i)
      BY <1>3, <1>5 DEF IsLeaving, LeavingDos
    <3> QED BY ONLY <3>1, <1>3, LeavingShort
  <2>4. /\ Shape' /\ \A u \in Threads \ {t} : call'[u] = call[u]
        /\ call'[t].todo = <<i>> \o Tail(call[t].todo) /\ call'[t].pointer = call[t].pointer
    BY ONLY Shape, t \in Threads, <1>1, <1>3, <1>7, <1>9, <2>2, <2>3, LeavingStep
  <2> QED BY <2>1, <2>4, <1>2, <1>4, <1>5, <1>9
<1> QED BY <1>6, <1>8, <1>9

\* A handle gives its context to its destruction.
LEMMA DestroyOwnShape ==
  ASSUME Shape, NEW t \in Threads, DestroyOwn(t)
  PROVE  /\ Shape' /\ \A u \in Threads \ {t} : call'[u] = call[u]
         /\ call'[t].pointer = call[t].pointer
         /\ call'[t].todo = (IF handle[t][Instruction(t).host] = Null THEN <<>>
              ELSE <<[do |-> "destroy", context |-> handle[t][Instruction(t).host]]>>)
                            \o Tail(call[t].todo)
         /\ Instruction(t).host \in BOOLEAN
         /\ DOMAIN handle' = Threads /\ \A u \in Threads \ {t} : handle'[u] = handle[u]
         /\ handle'[t] = [handle[t] EXCEPT ![Instruction(t).host] = Absent]
<1>1. PICK k : k = Instruction(t).host
  OBVIOUS
<1>2. PICK i : i = [do |-> "destroy", context |-> handle[t][k]]
  OBVIOUS
<1>3. PICK p : p = IF handle[t][k] = Null THEN <<>> ELSE <<i>>
  OBVIOUS
<1>4. /\ At(t, "destroy own") /\ UNCHANGED <<script, calls, ended, capture, context, registry>>
      /\ Continue(t, p) /\ handle' = [handle EXCEPT ![t][k] = Absent]
  BY <1>1, <1>2, <1>3 DEF DestroyOwn, streamVars
<1>5. Leaving(t) /\ k \in BOOLEAN
  BY ONLY Shape, t \in Threads, <1>1, <1>4, AtLeaving DEF LeavingDos, IsLeaving
<1>6. DOMAIN handle = Threads /\ \A u \in Threads : DOMAIN handle[u] = BOOLEAN
  BY DEF Shape, TypeOK
<1>7. /\ DOMAIN handle' = Threads /\ \A u \in Threads \ {t} : handle'[u] = handle[u]
      /\ handle'[t] = [handle[t] EXCEPT ![k] = Absent]
  BY ONLY <1>4, <1>6, t \in Threads
<1>8. HandlesTyped'
  BY <1>6, <1>7 DEF HandlesTyped
<1>9. ContextsTyped' /\ registry' \subseteq Contexts
  BY <1>4 DEF Shape, TypeOK, ContextsTyped
<1>10. \A u \in Threads \ {t} : handle'[u] = handle[u] /\ (Calling(u) => call[u].context \in registry')
  BY <1>4, <1>7 DEF Calling
<1>11. LeavingProgram(p, t \in ended)
  <2>1. IsLeaving(i) /\ i.do = "destroy"
    BY <1>2 DEF IsLeaving, LeavingDos
  <2>2. LeavingProgram(<<i>>, t \in ended) /\ LeavingProgram(<<>>, t \in ended)
    <3>1. i.do \in {"erase", "destroy own"} => t \in ended
      BY ONLY <2>1
    <3> QED BY ONLY <2>1, <3>1, LeavingShort
  <2> QED BY <1>3, <2>2
<1>12. /\ Shape' /\ \A u \in Threads \ {t} : call'[u] = call[u]
       /\ call'[t].todo = p \o Tail(call[t].todo) /\ call'[t].pointer = call[t].pointer
  BY ONLY Shape, t \in Threads, <1>4, <1>5, <1>8, <1>9, <1>10, <1>11, LeavingStep
<1> QED BY <1>1, <1>2, <1>3, <1>5, <1>7, <1>12

\* camblas_cuda_destroy: the wait, and then the release.
LEMMA DestroyShape ==
  ASSUME Shape, NEW t \in Threads, Destroy(t)
  PROVE  /\ Shape' /\ Leaving(t) /\ \A u \in Threads \ {t} : call'[u] = call[u]
         /\ call'[t].pointer = call[t].pointer
         /\ \E i : /\ i.do = "release" /\ i.context = Instruction(t).context
                   /\ call'[t].todo = (Wait \o <<i>>) \o Tail(call[t].todo)
<1>1. PICK i : i = [Instruction(t) EXCEPT !.do = "release"]
  OBVIOUS
<1>2. /\ At(t, "destroy") /\ Continue(t, Wait \o <<i>>)
      /\ UNCHANGED <<script, calls, ended, capture, context, handle, registry>>
  BY <1>1 DEF Destroy, streamVars, bindingVars
<1>3. Leaving(t) /\ {"do", "context"} \subseteq DOMAIN Instruction(t)
  BY ONLY Shape, t \in Threads, <1>2, AtLeaving DEF LeavingDos, IsLeaving
<1>4. i.do = "release" /\ i.context = Instruction(t).context
  BY ONLY <1>1, <1>3
<1>5. LeavingProgram(Wait \o <<i>>, t \in ended)
  BY ONLY <1>4, WaitAndRelease
<1>6. ContextsTyped' /\ HandlesTyped' /\ registry' \subseteq Contexts
  BY <1>2 DEF Shape, TypeOK, ContextsTyped, HandlesTyped
<1>7. \A u \in Threads \ {t} : handle'[u] = handle[u] /\ (Calling(u) => call[u].context \in registry')
  BY <1>2 DEF Calling
<1>8. /\ Shape' /\ \A u \in Threads \ {t} : call'[u] = call[u]
      /\ call'[t].todo = (Wait \o <<i>>) \o Tail(call[t].todo) /\ call'[t].pointer = call[t].pointer
  BY ONLY Shape, t \in Threads, <1>2, <1>3, <1>5, <1>6, <1>7, LeavingStep
<1> QED BY ONLY <1>3, <1>4, <1>8, Zenon

\* camblas_cuda_destroy is done.
LEMMA ReleaseShape ==
  ASSUME Shape, NEW t \in Threads, Release(t)
  PROVE  /\ Shape' /\ Leaving(t) /\ \A u \in Threads \ {t} : call'[u] = call[u]
         /\ call'[t].pointer = call[t].pointer
         /\ call'[t].todo = <<>> \o Tail(call[t].todo)
<1>1. PICK c : c = Instruction(t).context
  OBVIOUS
<1>2. /\ At(t, "release") /\ Continue(t, <<>>) /\ capture' = Disturbed
      /\ context' = [context EXCEPT ![c] = [Unused EXCEPT !.state = "destroyed"]]
      /\ UNCHANGED <<script, calls, ended, handle, registry>>
  BY <1>1 DEF Release, FreeContext, bindingVars
<1>3. Leaving(t)
  BY ONLY Shape, t \in Threads, <1>2, AtLeaving DEF LeavingDos
<1>4. capture' = capture
  BY <1>2, <1>3 DEF Leaving, Disturbed
<1>5. LeavingProgram(<<>>, t \in ended)
  BY LeavingShort
<1>6. ContextsTyped'
  <2>1. PICK x : x = [Unused EXCEPT !.state = "destroyed"]
    OBVIOUS
  <2>2. DOMAIN x = ContextFields
    BY ONLY <2>1 DEF Unused, ContextFields
  <2>3. DOMAIN context = Contexts /\ \A d \in Contexts : DOMAIN context[d] = ContextFields
    BY DEF Shape, TypeOK
  <2> QED BY ONLY <2>1, <2>2, <2>3, <1>2 DEF ContextsTyped
<1>7. HandlesTyped' /\ registry' \subseteq Contexts
  BY <1>2 DEF Shape, TypeOK, HandlesTyped
<1>8. \A u \in Threads \ {t} : handle'[u] = handle[u] /\ (Calling(u) => call[u].context \in registry')
  BY <1>2 DEF Calling
<1>9. /\ Shape' /\ \A u \in Threads \ {t} : call'[u] = call[u]
      /\ call'[t].todo = <<>> \o Tail(call[t].todo) /\ call'[t].pointer = call[t].pointer
  BY ONLY Shape, t \in Threads, <1>2, <1>3, <1>4, <1>5, <1>6, <1>7, <1>8, LeavingStep
<1> QED BY <1>3, <1>9

\* The handles of the thread that closed are reset.
LEMMA ClearShape ==
  ASSUME Shape, NEW t \in Threads, ClearHandles(t)
  PROVE  /\ Shape' /\ \A u \in Threads \ {t} : call'[u] = call[u]
         /\ call'[t].pointer = call[t].pointer
         /\ call'[t].todo = <<>> \o Tail(call[t].todo)
         /\ DOMAIN handle' = Threads /\ \A u \in Threads \ {t} : handle'[u] = handle[u]
         /\ handle'[t] = [host \in BOOLEAN |-> Absent]
<1>1. PICK h : h = [host \in BOOLEAN |-> Absent]
  OBVIOUS
<1>2. /\ At(t, "clear") /\ Continue(t, <<>>) /\ handle' = [handle EXCEPT ![t] = h]
      /\ UNCHANGED <<script, calls, ended, capture, context, registry>>
  BY <1>1 DEF ClearHandles, streamVars, Keys
<1>3. Leaving(t)
  BY ONLY Shape, t \in Threads, <1>2, AtLeaving DEF LeavingDos
<1>4. LeavingProgram(<<>>, t \in ended)
  BY LeavingShort
<1>5. DOMAIN handle = Threads /\ \A u \in Threads : DOMAIN handle[u] = BOOLEAN
  BY DEF Shape, TypeOK
<1>6. /\ DOMAIN handle' = Threads /\ \A u \in Threads \ {t} : handle'[u] = handle[u]
      /\ handle'[t] = h
  BY ONLY <1>2, <1>5, t \in Threads
<1>7. HandlesTyped'
  BY <1>1, <1>5, <1>6 DEF HandlesTyped
<1>8. ContextsTyped' /\ registry' \subseteq Contexts
  BY <1>2 DEF Shape, TypeOK, ContextsTyped
<1>9. \A u \in Threads \ {t} : handle'[u] = handle[u] /\ (Calling(u) => call[u].context \in registry')
  BY <1>2, <1>6 DEF Calling
<1>10. /\ Shape' /\ \A u \in Threads \ {t} : call'[u] = call[u]
       /\ call'[t].todo = <<>> \o Tail(call[t].todo) /\ call'[t].pointer = call[t].pointer
  BY ONLY Shape, t \in Threads, <1>2, <1>3, <1>4, <1>7, <1>8, <1>9, LeavingStep
<1> QED BY <1>1, <1>6, <1>10

\* A finite set in some order (CloseAll).
LEMMA Listed ==
  ASSUME NEW S, IsFiniteSet(S)
  PROVE  /\ IsSeq(SetToSeq(S)) /\ Len(SetToSeq(S)) \in Nat
         /\ \A k \in 1..Len(SetToSeq(S)) : SetToSeq(S)[k] \in S
         /\ \A j, k \in 1..Len(SetToSeq(S)) : SetToSeq(S)[j] = SetToSeq(S)[k] => j = k
<1>1. Cardinality(S) \in Nat /\ ExistsBijection(1..Cardinality(S), S)
  BY FS_CardinalityType
<1>2. PICK m \in Nat : m = Cardinality(S)
  BY <1>1
<1>3. \E f \in [1..m -> S] : IsInjective(f)
  BY <1>1, <1>2 DEF ExistsBijection, Bijection, Injection, IsInjective
<1>4. PICK q : q = SetToSeq(S)
  OBVIOUS
<1>5. q \in [1..m -> S] /\ IsInjective(q)
  BY <1>2, <1>3, <1>4, Zenon DEF SetToSeq
<1>6. q \in Seq(S) /\ Len(q) = m
  BY <1>5
<1>7. IsSeq(q)
  BY ONLY <1>6, OwnRange
<1>8. \A k \in 1..m : q[k] \in S
  BY <1>5
<1>9. \A j, k \in 1..m : q[j] = q[k] => j = k
  BY <1>5 DEF IsInjective
<1> QED BY <1>4, <1>6, <1>7, <1>8, <1>9

\* The destructions that close() begins are finitely many.
LEMMA FiniteRecords ==
  ASSUME NEW R, IsFiniteSet(R)
  PROVE  IsFiniteSet({[do |-> "destroy", context |-> c] : c \in R})
<1> DEFINE S == {[do |-> "destroy", context |-> c] : c \in R}
<1>1. PICK n \in Nat : ExistsBijection(1..n, R)
  BY FS_NatBijection
<1>2. PICK f \in [1..n -> R] : /\ \A a, b \in 1..n : f[a] = f[b] => a = b
                               /\ \A c \in R : \E a \in 1..n : f[a] = c
  BY <1>1 DEF ExistsBijection, Bijection, Injection, Surjection, IsInjective
<1>3. PICK h : h = [a \in 1..n |-> [do |-> "destroy", context |-> f[a]]]
  OBVIOUS
<1>4. h \in [1..n -> S]
  BY <1>2, <1>3
<1>5. \A a, b \in 1..n : h[a] = h[b] => a = b
  <2> SUFFICES ASSUME NEW a \in 1..n, NEW b \in 1..n, h[a] = h[b] PROVE a = b
    OBVIOUS
  <2>1. h[a].context = f[a] /\ h[b].context = f[b]
    BY <1>3
  <2> QED BY <2>1, <1>2
<1>6. \A s \in S : \E a \in 1..n : h[a] = s
  BY <1>2, <1>3
<1>7. h \in Bijection(1..n, S)
  BY <1>4, <1>5, <1>6 DEF Bijection, Injection, Surjection, IsInjective
<1>8. ExistsBijection(1..n, S)
  BY <1>7 DEF ExistsBijection
<1> QED BY <1>8, FS_NatBijection

\* What close() destroys: every registered context, once.
LEMMA CloseTodo ==
  ASSUME NEW R, IsFiniteSet(R), NEW over,
         NEW todo, todo = SetToSeq({[do |-> "destroy", context |-> c] : c \in R})
                          \o <<[do |-> "clear"]>>
  PROVE  /\ LeavingTodo(todo, over)
         /\ Dying(todo) \subseteq R /\ OnceEach(todo)
<1> DEFINE S == {[do |-> "destroy", context |-> c] : c \in R}
<1>1. PICK q, d : q = SetToSeq(S) /\ d = [do |-> "clear"]
  OBVIOUS
<1>2. IsFiniteSet(S)
  BY FiniteRecords
<1>3. /\ IsSeq(q) /\ Len(q) \in Nat /\ \A k \in 1..Len(q) : q[k] \in S
      /\ \A j, k \in 1..Len(q) : q[j] = q[k] => j = k
  <2> HIDE DEF S
  <2> QED BY <1>1, <1>2, Listed
<1>4. Range(<<d>>) = {d} /\ Len(<<d>>) = 1 /\ <<d>>[1] = d
  BY DEF Range
<1>5. IsSeq(<<d>>)
  BY <1>4 DEF IsSeq
<1>6. todo = q \o <<d>>
  BY <1>1
<1>7. /\ IsSeq(todo) /\ Range(todo) = Range(q) \cup {d} /\ Len(todo) = Len(q) + 1
      /\ \A i \in 1..Len(q) : todo[i] = q[i]
      /\ \A i \in 1..1 : todo[Len(q) + i] = <<d>>[i]
  BY ONLY <1>3, <1>4, <1>5, <1>6, Concatenated
<1>8. todo[Len(q) + 1] = d /\ d.do = "clear"
  <2>1. 1 \in 1..1
    OBVIOUS
  <2> QED BY ONLY <2>1, <1>1, <1>4, <1>7
<1>9. \A s \in S : s.do = "destroy" /\ s.context \in R /\ {"do", "context"} \subseteq DOMAIN s
  OBVIOUS
<1>10. \A s, w \in S : s.context = w.context => s = w
  OBVIOUS
<1> HIDE DEF S
<1>11. Range(q) \subseteq S
  BY <1>3 DEF Range, IsSeq
<1>12. \A k \in 1..Len(todo) : todo[k] = d \/ (k \in 1..Len(q) /\ todo[k] = q[k] /\ q[k] \in S)
  <2> SUFFICES ASSUME NEW k \in 1..Len(todo), k # Len(q) + 1
               PROVE  k \in 1..Len(q) /\ todo[k] = q[k] /\ q[k] \in S
    BY <1>8
  <2>1. k \in 1..Len(q)
    BY ONLY <1>3, <1>7, k \in 1..Len(todo), k # Len(q) + 1
  <2> QED BY <2>1, <1>3, <1>7
<1>13. LeavingTodo(todo, over)
  <2>1. todo # <<>>
    BY ONLY <1>3, <1>7
  <2>2. IsLeaving(d) /\ \A s \in S : IsLeaving(s)
    BY <1>8, <1>9 DEF IsLeaving, LeavingDos
  <2>3. \A i \in Range(todo) : IsLeaving(i) /\ i.do \notin {"erase", "destroy own"}
    BY <2>2, <1>7, <1>8, <1>9, <1>11
  <2>4. \A k \in 2..Len(todo) : todo[k].do # "destroy own"
    <3> SUFFICES ASSUME NEW k \in 2..Len(todo) PROVE todo[k].do # "destroy own"
      OBVIOUS
    <3>1. k \in 1..Len(todo)
      BY <1>3, <1>7
    <3> QED BY <3>1, <1>8, <1>9, <1>12
  <2> QED BY <2>1, <2>3, <2>4, <1>7 DEF LeavingTodo
<1>14. Dying(todo) \subseteq R
  BY <1>7, <1>8, <1>9, <1>11 DEF Dying, Doom
<1>15. OnceEach(todo)
  <2> SUFFICES ASSUME NEW j \in 1..Len(todo), NEW k \in 1..Len(todo), j # k,
                      Doom(todo[j]), Doom(todo[k])
               PROVE  todo[j].context # todo[k].context
    BY DEF OnceEach
  <2>1. todo[j] # d /\ todo[k] # d
    BY <1>8 DEF Doom
  <2>2. /\ j \in 1..Len(q) /\ k \in 1..Len(q) /\ todo[j] = q[j] /\ todo[k] = q[k]
        /\ q[j] \in S /\ q[k] \in S
    BY <1>12, <2>1
  <2>3. q[j] # q[k]
    BY <2>2, <1>3
  <2> QED BY <2>2, <2>3, <1>10
<1> QED BY <1>13, <1>14, <1>15

\* close() finds nobody in a call.
LEMMA CloseShape ==
  ASSUME Shape, NEW t \in Threads, CloseAll(t)
  PROVE  /\ Shape' /\ AtRest(t) /\ \A u \in Threads \ {t} : call'[u] = call[u]
         /\ Dying(call'[t].todo) \subseteq registry /\ OnceEach(call'[t].todo)
         /\ call'[t].todo[1].do \in {"destroy", "clear"} /\ call'[t].pointer = <<>>
         /\ \A u \in Threads : ~Calling(u) /\ ~Creating(u)
<1>1. TypeOK /\ \A u \in Threads : Mode(u)
  BY DEF Shape
<1>2. PICK r : r = SetToSeq({[do |-> "destroy", context |-> c] : c \in registry}) \o <<[do |-> "clear"]>>
  OBVIOUS
<1>3. /\ Resting(t) /\ script[t] # <<>> /\ NoGraph /\ \A u \in Threads : Resting(u) \/ u \in ended
      /\ handle' = Nulled(registry) /\ registry' = {} /\ call' = [call EXCEPT ![t].todo = r]
      /\ Turn(t) /\ UNCHANGED <<capture, context, calls, ended>>
  BY <1>2 DEF CloseAll, Does, streamVars
<1>4. AtRest(t)
  BY ONLY <1>1, <1>3, RestingThread, t \in Threads
<1>5. \A u \in Threads : ~Calling(u) /\ ~Creating(u)
  <2> SUFFICES ASSUME NEW u \in Threads PROVE ~Calling(u) /\ ~Creating(u)
    OBVIOUS
  <2>1. CASE u \in ended
    BY <2>1 DEF Calling, Creating
  <2>2. CASE Resting(u)
    <3>1. AtRest(u)
      BY ONLY <1>1, <2>2, RestingThread, u \in Threads
    <3> QED BY <3>1 DEF AtRest, Outside, Calling, Creating
  <2> QED BY <1>3, <2>1, <2>2
<1>6. IsFiniteSet(registry)
  <2>1. IsFiniteSet(1..MaxContexts)
    BY FS_Interval, ContextAssumption
  <2>2. registry \subseteq 1..MaxContexts
    BY <1>1 DEF TypeOK, Contexts
  <2> QED BY ONLY <2>1, <2>2, FS_Subset
<1>7. LeavingTodo(r, t \in ended) /\ Dying(r) \subseteq registry /\ OnceEach(r)
  BY ONLY <1>2, <1>6, CloseTodo
<1>8. PICK x : x = [call[t] EXCEPT !.todo = r]
  OBVIOUS
<1>9. call' = [call EXCEPT ![t] = x]
  <2>1. DOMAIN call = Threads
    BY <1>1 DEF TypeOK
  <2> QED BY ONLY <2>1, <1>3, <1>8, t \in Threads
<1>10. DOMAIN x = CallFields /\ x.todo = r /\ x.id = 0 /\ x.context = 0 /\ x.pointer = <<>>
  <2>1. DOMAIN call[t] = CallFields /\ call[t].id = 0 /\ call[t].context = 0 /\ call[t].pointer = <<>>
    BY <1>1, <1>4 DEF TypeOK, AtRest, Outside
  <2> QED BY ONLY <2>1, <1>8 DEF CallFields
<1>11. call'[t] = x
  BY ONLY <1>1, <1>9, <1>10, CallReplaced, t \in Threads
<1>12. Leaving(t)'
  <2>1. ~Capturing'
    BY <1>3 DEF Capturing, NoGraph
  <2> QED BY <2>1, <1>3, <1>7, <1>10, <1>11 DEF Leaving, Outside
<1>13. /\ DOMAIN script' = Threads /\ \A u \in Threads : IsProgram(script'[u], IsTurn)
       /\ \A u \in Threads \ {t} : script'[u] = script[u]
  BY ONLY <1>1, <1>3, TurnTaken, t \in Threads
<1>14. /\ ContextsTyped' /\ HandlesTyped' /\ registry' \subseteq Contexts /\ ended' \subseteq Threads
       /\ capture' = capture /\ calls' = calls
  BY <1>1, <1>3 DEF TypeOK, ContextsTyped, HandlesTyped, Nulled, Keys
<1>15. \A u \in Threads \ {t} : /\ script'[u] = script[u] /\ (u \in ended' <=> u \in ended)
                                /\ Calling(u) => /\ call[u].context \in registry'
                                                 /\ handle'[u] = handle[u]
  BY <1>3, <1>5, <1>13
<1>16. Shape' /\ \A u \in Threads \ {t} : call'[u] = call[u]
  BY ONLY Shape, t \in Threads, <1>9, <1>10, <1>12, <1>13, <1>14, <1>15, OutsideShape
<1>17. r[1].do \in {"destroy", "clear"}
  <2>1. IsFiniteSet({[do |-> "destroy", context |-> c] : c \in registry})
    BY <1>6, FiniteRecords
  <2>2. PICK S, q : S = {[do |-> "destroy", context |-> c] : c \in registry} /\ q = SetToSeq(S)
    OBVIOUS
  <2>3. PICK d : d = [do |-> "clear"]
    OBVIOUS
  <2>4. /\ IsSeq(q) /\ Len(q) \in Nat /\ \A k \in 1..Len(q) : q[k] \in S
    BY ONLY <2>1, <2>2, Listed
  <2>5. Range(<<d>>) = {d} /\ Len(<<d>>) = 1 /\ <<d>>[1] = d
    BY DEF Range
  <2>6. IsSeq(<<d>>)
    BY ONLY <2>5 DEF IsSeq
  <2>7. r = q \o <<d>>
    BY ONLY <1>2, <2>2, <2>3
  <2>8. /\ \A i \in 1..Len(q) : r[i] = q[i] /\ \A j \in 1..1 : r[Len(q) + j] = <<d>>[j]
    BY ONLY <2>4, <2>5, <2>6, <2>7, Concatenated
  <2>9. CASE Len(q) = 0
    <3>1. 1 \in 1..1 /\ 0 + 1 = 1
      OBVIOUS
    <3>2. r[0 + 1] = d
      BY ONLY <3>1, <2>4, <2>5, <2>6, <2>7, <2>9, Concatenated
    <3> QED BY ONLY <3>1, <3>2, <2>3
  <2>10. CASE Len(q) # 0
    <3>1. 1 \in 1..Len(q)
      BY ONLY <2>4, <2>10
    <3>2. r[1] = q[1] /\ q[1] \in S
      BY ONLY <3>1, <2>4, <2>6, <2>7, Concatenated
    <3>3. PICK c \in registry : q[1] = [do |-> "destroy", context |-> c]
      BY ONLY <3>2, <2>2
    <3> QED BY ONLY <3>2, <3>3
  <2> QED BY <2>9, <2>10
<1> QED BY <1>4, <1>5, <1>7, <1>10, <1>11, <1>16, <1>17


-----------------------------------------------------------------------------
(* Nobody loses a context, and no two have one (Separate).                  *)

\* A call does not register or destroy contexts.
LEMMA CallsSpare ==
  ASSUME NEW todo, NEW dos, dos \subseteq CodeDos, CallTodo(todo, dos)
  PROVE  Dying(todo) = {} /\ OnceEach(todo) /\ Head(todo).do # "destroy own"
<1>1. /\ IsSeq(todo) /\ todo # <<>> /\ todo[Len(todo)].do = "return"
      /\ \A k \in 1..(Len(todo) - 1) : IsCode(todo[k], dos)
  BY DEF CallTodo
<1>2. Len(todo) \in Nat \ {0} /\ Head(todo) = todo[1]
  BY ONLY <1>1, Rested
<1>3. \A k \in 1..Len(todo) : todo[k].do \in CodeDos \cup {"return"}
  <2> SUFFICES ASSUME NEW k \in 1..Len(todo), k # Len(todo) PROVE todo[k].do \in CodeDos
    BY <1>1
  <2>1. k \in 1..(Len(todo) - 1)
    BY ONLY <1>2, k \in 1..Len(todo), k # Len(todo)
  <2>2. IsCode(todo[k], dos)
    BY ONLY <1>1, <2>1
  <2>3. todo[k].do \in dos
    BY ONLY <2>2, CodeDown
  <2> QED BY <2>3
<1>4. \A k \in 1..Len(todo) : todo[k].do \notin {"register", "destroy", "release", "destroy own"}
  BY <1>3 DEF CodeDos, SafeDos
<1>5. \A i \in Range(todo) : \E k \in 1..Len(todo) : i = todo[k]
  <2>1. DOMAIN todo = 1..Len(todo)
    BY <1>1 DEF IsSeq
  <2> QED BY ONLY <2>1 DEF Range
<1>6. \A i \in Range(todo) : ~Doom(i)
  BY ONLY <1>4, <1>5 DEF Doom
<1>7. Dying(todo) = {}
  BY ONLY <1>6 DEF Dying
<1>8. OnceEach(todo)
  BY ONLY <1>4 DEF OnceEach, Doom
<1>9. 1 \in 1..Len(todo)
  BY ONLY <1>2
<1> QED BY ONLY <1>2, <1>4, <1>7, <1>8, <1>9

\* The contexts of two programs.
LEMMA DyingConcatenated ==
  ASSUME NEW p, NEW r, IsSeq(p), IsSeq(r)
  PROVE  /\ Dying(p \o r) = Dying(p) \cup Dying(r)
         /\ OnceEach(p) /\ OnceEach(r) /\ Dying(p) \cap Dying(r) = {} => OnceEach(p \o r)
<1>1. PICK q : q = p \o r
  OBVIOUS
<1>2. /\ Range(q) = Range(p) \cup Range(r) /\ Len(q) = Len(p) + Len(r)
      /\ \A i \in 1..Len(p) : q[i] = p[i]
      /\ \A i \in 1..Len(r) : q[Len(p) + i] = r[i]
  BY ONLY <1>1, IsSeq(p), IsSeq(r), Concatenated
<1>3. Dying(q) = Dying(p) \cup Dying(r)
  BY ONLY <1>2 DEF Dying
<1>4. Len(p) \in Nat /\ Len(r) \in Nat
  BY DEF IsSeq
<1>5. ASSUME OnceEach(p), OnceEach(r), Dying(p) \cap Dying(r) = {} PROVE OnceEach(q)
  <2> SUFFICES ASSUME NEW i \in 1..Len(q), NEW j \in 1..Len(q), i # j, Doom(q[i]), Doom(q[j])
               PROVE  q[i].context # q[j].context
    BY DEF OnceEach
  <2>1. \A k \in 1..Len(q) : \/ k \in 1..Len(p) /\ q[k] = p[k]
                             \/ \E l \in 1..Len(r) : k = Len(p) + l /\ q[k] = r[l]
    <3> SUFFICES ASSUME NEW k \in 1..Len(q), k \notin 1..Len(p)
                 PROVE  \E l \in 1..Len(r) : k = Len(p) + l /\ q[k] = r[l]
      BY <1>2
    <3>1. k - Len(p) \in 1..Len(r) /\ k = Len(p) + (k - Len(p))
      BY ONLY <1>2, <1>4, k \in 1..Len(q), k \notin 1..Len(p)
    <3>2. q[Len(p) + (k - Len(p))] = r[k - Len(p)]
      BY ONLY <3>1, <1>2
    <3>3. q[k] = r[k - Len(p)]
      BY ONLY <3>1, <3>2
    <3> QED BY ONLY <3>1, <3>3
  <2>2. \A k \in 1..Len(p) : Doom(p[k]) => p[k].context \in Dying(p)
    <3>1. \A k \in 1..Len(p) : p[k] \in Range(p)
      BY DEF IsSeq, Range
    <3> QED BY ONLY <3>1 DEF Dying
  <2>3. \A k \in 1..Len(r) : Doom(r[k]) => r[k].context \in Dying(r)
    <3>1. \A k \in 1..Len(r) : r[k] \in Range(r)
      BY DEF IsSeq, Range
    <3> QED BY ONLY <3>1 DEF Dying
  <2>4. CASE i \in 1..Len(p) /\ q[i] = p[i] /\ j \in 1..Len(p) /\ q[j] = p[j]
    BY <2>4, <1>5 DEF OnceEach
  <2>5. CASE /\ \E l \in 1..Len(r) : i = Len(p) + l /\ q[i] = r[l]
             /\ \E l \in 1..Len(r) : j = Len(p) + l /\ q[j] = r[l]
    <3>1. PICK l \in 1..Len(r), m \in 1..Len(r) :
            i = Len(p) + l /\ q[i] = r[l] /\ j = Len(p) + m /\ q[j] = r[m]
      BY ONLY <2>5
    <3>2. l # m
      BY ONLY <3>1, i # j
    <3> QED BY ONLY <3>1, <3>2, <1>5, Doom(q[i]), Doom(q[j]) DEF OnceEach
  <2>6. CASE (i \in 1..Len(p) /\ q[i] = p[i]) /\ \E l \in 1..Len(r) : j = Len(p) + l /\ q[j] = r[l]
    BY ONLY <2>6, <2>2, <2>3, <1>5, Doom(q[i]), Doom(q[j])
  <2>7. CASE (j \in 1..Len(p) /\ q[j] = p[j]) /\ \E l \in 1..Len(r) : i = Len(p) + l /\ q[i] = r[l]
    BY ONLY <2>7, <2>2, <2>3, <1>5, Doom(q[i]), Doom(q[j])
  <2> QED BY ONLY <2>1, <2>4, <2>5, <2>6, <2>7, i \in 1..Len(q), j \in 1..Len(q)
<1> QED BY ONLY <1>1, <1>3, <1>5

\* One instruction, and what comes before a release.
LEMMA DyingOne ==
  ASSUME NEW i
  PROVE  /\ IsSeq(<<i>>) /\ OnceEach(<<i>>) /\ Dying(<<i>>) \subseteq {i.context}
         /\ ~Doom(i) => Dying(<<i>>) = {}
<1>1. Range(<<i>>) = {i} /\ Len(<<i>>) = 1 /\ <<i>>[1] = i
  BY DEF Range
<1>2. IsSeq(<<i>>)
  BY ONLY <1>1 DEF IsSeq
<1>3. \A j, k \in 1..1 : j = k
  OBVIOUS
<1>4. OnceEach(<<i>>)
  BY ONLY <1>1, <1>3 DEF OnceEach
<1>5. Dying(<<i>>) \subseteq {i.context} /\ (~Doom(i) => Dying(<<i>>) = {})
  BY ONLY <1>1 DEF Dying
<1> QED BY <1>2, <1>4, <1>5

\* Two instructions that concern no context.
LEMMA DyingTwo ==
  ASSUME NEW a, NEW b, ~Doom(a), ~Doom(b)
  PROVE  IsSeq(<<a, b>>) /\ OnceEach(<<a, b>>) /\ Dying(<<a, b>>) = {}
<1>1. Range(<<a, b>>) = {a, b} /\ Len(<<a, b>>) = 2 /\ <<a, b>>[1] = a /\ <<a, b>>[2] = b
  BY DEF Range
<1>2. IsSeq(<<a, b>>)
  BY ONLY <1>1 DEF IsSeq
<1>3. \A k \in 1..2 : k = 1 \/ k = 2
  OBVIOUS
<1>4. \A k \in 1..2 : ~Doom(<<a, b>>[k])
  BY ONLY <1>1, <1>3, ~Doom(a), ~Doom(b)
<1>5. OnceEach(<<a, b>>)
  BY ONLY <1>1, <1>4 DEF OnceEach
<1>6. Dying(<<a, b>>) = {}
  BY ONLY <1>1, ~Doom(a), ~Doom(b) DEF Dying
<1> QED BY <1>2, <1>5, <1>6

\* What remains after the next instruction.
LEMMA DyingTail ==
  ASSUME NEW todo, NEW over, LeavingTodo(todo, over)
  PROVE  /\ IsSeq(Tail(todo)) /\ Dying(Tail(todo)) \subseteq Dying(todo)
         /\ <<>> \o Tail(todo) = Tail(todo)
         /\ Tail(todo) # <<>> => Head(Tail(todo)).do # "destroy own"
         /\ OnceEach(todo) => OnceEach(Tail(todo))
         /\ Doom(todo[1]) => todo[1].context \in Dying(todo)
         /\ OnceEach(todo) /\ Doom(todo[1]) => todo[1].context \notin Dying(Tail(todo))
<1>1. IsSeq(todo) /\ todo # <<>> /\ \A k \in 2..Len(todo) : todo[k].do # "destroy own"
  BY DEF LeavingTodo
<1>2. PICK r : r = Tail(todo)
  OBVIOUS
<1>3. /\ IsSeq(r) /\ Range(r) \subseteq Range(todo) /\ Len(todo) \in Nat \ {0}
      /\ Len(r) = Len(todo) - 1 /\ \A i \in 1..(Len(todo) - 1) : r[i] = todo[i + 1]
      /\ todo[1] \in Range(todo)
  BY ONLY <1>1, <1>2, Rested
<1>4. Dying(r) \subseteq Dying(todo) /\ (Doom(todo[1]) => todo[1].context \in Dying(todo))
  BY ONLY <1>3 DEF Dying
<1>5. <<>> \o r = r
  <2>1. r \in Seq(Range(r))
    BY ONLY <1>3 DEF IsSeq
  <2> QED BY ONLY <2>1
<1>6. r # <<>> => Head(r).do # "destroy own"
  <2> SUFFICES ASSUME r # <<>> PROVE Head(r).do # "destroy own"
    OBVIOUS
  <2>1. Len(r) \in Nat \ {0} /\ Head(r) = r[1]
    BY ONLY <1>3, r # <<>>, Rested
  <2>2. 1 \in 1..(Len(todo) - 1) /\ 1 + 1 \in 2..Len(todo)
    BY ONLY <2>1, <1>3
  <2> QED BY ONLY <2>1, <2>2, <1>1, <1>3
<1>7. \A i \in 1..Len(r) : i + 1 \in 1..Len(todo) /\ r[i] = todo[i + 1] /\ i + 1 # 1
  BY ONLY <1>3
<1>8. OnceEach(todo) => OnceEach(r)
  <2> SUFFICES ASSUME OnceEach(todo), NEW i \in 1..Len(r), NEW j \in 1..Len(r), i # j,
                      Doom(r[i]), Doom(r[j])
               PROVE  r[i].context # r[j].context
    BY DEF OnceEach
  <2>1. i + 1 # j + 1
    BY ONLY i \in 1..Len(r), j \in 1..Len(r), i # j, <1>3
  <2> QED BY ONLY <2>1, <1>7, OnceEach(todo), i \in 1..Len(r), j \in 1..Len(r),
                  Doom(r[i]), Doom(r[j]) DEF OnceEach
<1>9. OnceEach(todo) /\ Doom(todo[1]) => todo[1].context \notin Dying(r)
  <2> SUFFICES ASSUME OnceEach(todo), Doom(todo[1]), NEW i \in Range(r), Doom(i)
               PROVE  todo[1].context # i.context
    BY DEF Dying
  <2>1. PICK k \in 1..Len(r) : i = r[k]
    <3>1. DOMAIN r = 1..Len(r)
      BY ONLY <1>3 DEF IsSeq
    <3> QED BY ONLY <3>1, i \in Range(r) DEF Range
  <2>2. 1 \in 1..Len(todo)
    BY ONLY <1>3
  <2> QED BY ONLY <2>1, <2>2, <1>7, OnceEach(todo), Doom(todo[1]), Doom(i) DEF OnceEach
<1> QED BY ONLY <1>2, <1>3, <1>4, <1>5, <1>6, <1>8, <1>9

\* What shows that the next state keeps the contexts apart.
LEMMA SeparateNext ==
  ASSUME registry' \subseteq LiveContexts',
         \A u \in Threads : \A k \in BOOLEAN :
           handle'[u][k] \in {Null} \cup (IF Leaves(u, k)' THEN Orphans' ELSE registry' \cup {Absent}),
         \A u, v \in Threads : \A h, k \in BOOLEAN :
           handle'[u][h] = handle'[v][k] /\ handle'[u][h] \notin {Absent, Null} => u = v /\ h = k,
         \A u \in Threads : /\ Dying(call'[u].todo) \subseteq LiveContexts' \ registry'
                            /\ OnceEach(call'[u].todo),
         \A u, v \in Threads : u # v => Dying(call'[u].todo) \cap Dying(call'[v].todo) = {}
  PROVE  Separate'
  BY DEF Separate, Null, Absent

\* A step that touches neither the registry nor the handles nor the states of contexts.
LEMMA SeparateStep ==
  ASSUME Separate, NEW t \in Threads, \A u \in Threads \ {t} : call'[u] = call[u],
         UNCHANGED <<handle, registry>>, LiveContexts' = LiveContexts,
         Dying(call'[t].todo) \subseteq Dying(call[t].todo), OnceEach(call'[t].todo),
         ~At(t, "destroy own"), ~At(t, "destroy own")'
  PROVE  Separate'
<1>1. \A u \in Threads : Dying(call'[u].todo) \subseteq Dying(call[u].todo) /\ OnceEach(call'[u].todo)
  BY DEF Separate
<1>2. Orphans \subseteq Orphans'
  BY <1>1 DEF Orphans
<1>3. \A u \in Threads : \A k \in BOOLEAN : Leaves(u, k)' <=> Leaves(u, k)
  BY DEF Leaves, At, Instruction
<1>4. \A u \in Threads : \A k \in BOOLEAN :
        handle'[u][k] \in {Null} \cup (IF Leaves(u, k)' THEN Orphans' ELSE registry' \cup {Absent})
  <2>1. \A u \in Threads : \A k \in BOOLEAN :
          handle[u][k] \in {Null} \cup (IF Leaves(u, k) THEN Orphans ELSE registry \cup {Absent})
    BY ONLY Separate DEF Separate
  <2>2. handle' = handle /\ registry' = registry
    OBVIOUS
  <2> SUFFICES ASSUME NEW u \in Threads, NEW k \in BOOLEAN
               PROVE  handle'[u][k] \in {Null} \cup (IF Leaves(u, k)' THEN Orphans' ELSE registry' \cup {Absent})
    OBVIOUS
  <2>3. handle[u][k] \in {Null} \cup (IF Leaves(u, k) THEN Orphans ELSE registry \cup {Absent})
    BY ONLY <2>1, u \in Threads, k \in BOOLEAN
  <2>4. Leaves(u, k)' <=> Leaves(u, k)
    BY ONLY <1>3, u \in Threads, k \in BOOLEAN
  <2> QED BY ONLY <1>2, <2>2, <2>3, <2>4
<1>5. \A u, v \in Threads : u # v => Dying(call'[u].todo) \cap Dying(call'[v].todo) = {}
  <2>1. \A u, v \in Threads : u # v => Dying(call[u].todo) \cap Dying(call[v].todo) = {}
    BY ONLY Separate DEF Separate
  <2> SUFFICES ASSUME NEW u \in Threads, NEW v \in Threads, u # v
               PROVE  Dying(call'[u].todo) \cap Dying(call'[v].todo) = {}
    OBVIOUS
  <2>2. Dying(call[u].todo) \cap Dying(call[v].todo) = {}
    BY ONLY <2>1, u \in Threads, v \in Threads, u # v
  <2>3. Dying(call'[u].todo) \subseteq Dying(call[u].todo) /\ Dying(call'[v].todo) \subseteq Dying(call[v].todo)
    BY ONLY <1>1, u \in Threads, v \in Threads
  <2> QED BY ONLY <2>2, <2>3
<1>6. registry' \subseteq LiveContexts'
  BY DEF Separate
<1>7. \A u, v \in Threads : \A h, k \in BOOLEAN :
        handle'[u][h] = handle'[v][k] /\ handle'[u][h] \notin {Absent, Null} => u = v /\ h = k
  <2>1. \A u, v \in Threads : \A h, k \in BOOLEAN :
          handle[u][h] = handle[v][k] /\ handle[u][h] \notin {Absent, Null} => u = v /\ h = k
    BY ONLY Separate DEF Separate
  <2>2. handle' = handle
    OBVIOUS
  <2> QED BY ONLY <2>1, <2>2
<1>8. \A u \in Threads : /\ Dying(call'[u].todo) \subseteq LiveContexts' \ registry'
                         /\ OnceEach(call'[u].todo)
  BY <1>1 DEF Separate
<1> QED BY ONLY <1>4, <1>5, <1>6, <1>7, <1>8, SeparateNext

\* No context is live, registered or to be destroyed at first.
LEMMA SeparateInitially == ASSUME Init PROVE Separate
<1>1. /\ \A t \in Threads : call[t].todo = <<>> /\ \A k \in BOOLEAN : handle[t][k] = Absent
      /\ registry = {}
  BY DEF Init, Idle, Keys
<1>2. Range(<<>>) = {} /\ Len(<<>>) = 0
  BY DEF Range
<1>3. Dying(<<>>) = {} /\ OnceEach(<<>>)
  BY ONLY <1>2 DEF Dying, OnceEach
<1>4. \A t \in Threads : \A k \in BOOLEAN : ~Leaves(t, k)
  BY <1>1 DEF Leaves, At
<1> QED BY <1>1, <1>3, <1>4 DEF Separate

\* The contexts that exist stay the same when no state changes.
LEMMA LiveKept == ASSUME KeepsStates PROVE LiveContexts' = LiveContexts
  BY DEF KeepsStates, LiveContexts, Contexts

\* A step of a call, its beginning and its end.
LEMMA SeparateCalling ==
  ASSUME Separate, NEW t \in Threads, \A u \in Threads \ {t} : call'[u] = call[u],
         UNCHANGED <<handle, registry>>, KeepsStates, Calling(t) \/ AtRest(t),
         Calling(t)' \/ call'[t] = Idle
  PROVE  Separate'
<1>1. Dos \subseteq CodeDos /\ Dos' \subseteq CodeDos
  BY DEF Dos, CodeDos
<1>2. Dying(<<>>) = {} /\ OnceEach(<<>>)
  <2>1. Range(<<>>) = {} /\ Len(<<>>) = 0
    BY DEF Range
  <2> QED BY ONLY <2>1 DEF Dying, OnceEach
<1>3. ~At(t, "destroy own")
  <2>1. CASE Calling(t)
    <3>1. CallTodo(call[t].todo, Dos)
      BY <2>1 DEF Calling
    <3>2. Head(call[t].todo).do # "destroy own"
      BY ONLY <3>1, <1>1, CallsSpare
    <3> QED BY <3>2 DEF At
  <2>2. CASE AtRest(t)
    BY <2>2 DEF AtRest, At
  <2> QED BY <2>1, <2>2
<1>4. Dying(call'[t].todo) = {} /\ OnceEach(call'[t].todo) /\ ~At(t, "destroy own")'
  <2>1. CASE Calling(t)'
    <3>1. CallTodo(call'[t].todo, Dos')
      BY <2>1 DEF Calling
    <3>2. /\ Dying(call'[t].todo) = {} /\ OnceEach(call'[t].todo)
          /\ Head(call'[t].todo).do # "destroy own"
      BY ONLY <3>1, <1>1, CallsSpare
    <3> QED BY <3>2 DEF At
  <2>2. CASE call'[t] = Idle
    <3>1. call'[t].todo = <<>>
      BY <2>2 DEF Idle
    <3> QED BY <3>1, <1>2 DEF At
  <2> QED BY <2>1, <2>2
<1>5. LiveContexts' = LiveContexts
  BY LiveKept
<1> QED BY <1>3, <1>4, <1>5, SeparateStep

\* A step that is nobody's.
LEMMA SeparateSame ==
  ASSUME Separate, UNCHANGED <<context, call, handle, registry>>
  PROVE  Separate'
<1>1. LiveContexts' = LiveContexts
  BY DEF LiveContexts, Contexts
<1>2. Orphans' = Orphans
  BY <1>1 DEF Orphans
<1>3. \A u \in Threads : \A k \in BOOLEAN : Leaves(u, k)' <=> Leaves(u, k)
  BY DEF Leaves, At, Instruction
<1> QED BY <1>1, <1>2, <1>3 DEF Separate, Null, Absent

\* The wait of a thread that destroys contexts.
LEMMA SeparateWait ==
  ASSUME Shape, Separate, NEW t \in Threads, Leaving(t), Synchronize(t) \/ Await(t),
         UNCHANGED bindingVars
  PROVE  Separate'
<1>1. call'[t].todo = Tail(call[t].todo) /\ \A u \in Threads \ {t} : call'[u] = call[u]
  BY WaitShape
<1>2. LeavingTodo(call[t].todo, t \in ended)
  BY DEF Leaving
<1>3. OnceEach(call[t].todo)
  BY DEF Separate
<1>4. /\ Dying(Tail(call[t].todo)) \subseteq Dying(call[t].todo) /\ OnceEach(Tail(call[t].todo))
      /\ Tail(call[t].todo) # <<>> => Head(Tail(call[t].todo)).do # "destroy own"
  BY ONLY <1>2, <1>3, DyingTail
<1>5. ~At(t, "destroy own") /\ ~At(t, "destroy own")'
  BY <1>1, <1>4 DEF At, Synchronize, Await
<1>6. LiveContexts' = LiveContexts /\ UNCHANGED <<handle, registry>>
  BY DEF LiveContexts, Contexts, Synchronize, Await, bindingVars
<1> QED BY ONLY Separate, t \in Threads, <1>1, <1>4, <1>5, <1>6, SeparateStep

\* camblas_cuda_create: the new context is the next instruction's to register.
LEMMA SeparateCreate ==
  ASSUME Shape, Separate, NEW t \in Threads, CreateContext(t)
  PROVE  Separate'
<1>1. PICK n : n = NewContext
  OBVIOUS
<1>2. PICK i : i = [do |-> "register", context |-> n]
  OBVIOUS
<1>3. /\ AtRest(t) /\ \A u \in Threads \ {t} : call'[u] = call[u]
      /\ n \in Contexts /\ context[n].state = "unused"
      /\ call'[t].todo = <<i>>
      /\ context' = [context EXCEPT ![n] = Created(NextCall(t).algorithm, Free(Held))]
      /\ UNCHANGED <<handle, registry>>
  BY <1>1, <1>2, CreateShape
<1>4. Created(NextCall(t).algorithm, Free(Held)).state = "live"
  BY DEF Created, Unused
<1>5. LiveContexts' = LiveContexts \cup {n} /\ n \notin LiveContexts
  <2>1. DOMAIN context = Contexts
    BY DEF Shape, TypeOK
  <2> QED BY ONLY <2>1, <1>3, <1>4 DEF LiveContexts, Contexts
<1>6. Dying(<<i>>) \subseteq {n} /\ OnceEach(<<i>>)
  BY ONLY DyingOne, <1>2
<1>7. i.do = "register" /\ Head(<<i>>) = i
  BY <1>2
<1>8. \A u \in Threads : \A k \in BOOLEAN : Leaves(u, k)' <=> Leaves(u, k)
  <2>1. ~At(t, "destroy own") /\ ~At(t, "destroy own")'
    BY <1>3, <1>7 DEF At, AtRest
  <2> QED BY <2>1, <1>3 DEF Leaves, At, Instruction
<1>9. /\ \A u \in Threads \ {t} : Dying(call'[u].todo) = Dying(call[u].todo) /\ OnceEach(call'[u].todo)
      /\ Dying(call'[t].todo) \subseteq {n} /\ OnceEach(call'[t].todo)
  BY <1>3, <1>6 DEF Separate
<1>10. Orphans \subseteq Orphans'
  BY <1>3, <1>5, <1>9 DEF Orphans
<1>11. \A u \in Threads : \A k \in BOOLEAN :
         handle'[u][k] \in {Null} \cup (IF Leaves(u, k)' THEN Orphans' ELSE registry' \cup {Absent})
  BY <1>3, <1>8, <1>10 DEF Separate
<1>12. registry' \subseteq LiveContexts'
  BY <1>3, <1>5 DEF Separate
<1>13. \A u \in Threads : /\ Dying(call'[u].todo) \subseteq LiveContexts' \ registry'
                          /\ OnceEach(call'[u].todo)
  BY <1>3, <1>5, <1>9 DEF Separate
<1>14. \A u, v \in Threads : u # v => Dying(call'[u].todo) \cap Dying(call'[v].todo) = {}
  BY <1>5, <1>9 DEF Separate
<1>15. \A u, v \in Threads : \A h, k \in BOOLEAN :
         handle'[u][h] = handle'[v][k] /\ handle'[u][h] \notin {Absent, Null} => u = v /\ h = k
  BY <1>3 DEF Separate
<1> QED BY ONLY <1>11, <1>12, <1>13, <1>14, <1>15, SeparateNext

\* The registry learns of the context: it takes it over from the instruction.
LEMMA SeparateRegister ==
  ASSUME Shape, Separate, NEW t \in Threads, Register(t)
  PROVE  Separate'
<1>1. PICK c, k : c = Instruction(t).context /\ k = NextCall(t).host
  OBVIOUS
<1>2. PICK i : i = [do |-> "register", context |-> c]
  OBVIOUS
<1>3. /\ Calling(t)' /\ Creating(t) /\ \A u \in Threads \ {t} : call'[u] = call[u]
      /\ k \in BOOLEAN
  BY <1>1, RegisterShape
<1>4. /\ At(t, "register") /\ registry' = registry \cup {c}
      /\ handle' = [handle EXCEPT ![t][k] = c] /\ UNCHANGED context
  BY <1>1 DEF Register
<1>5. c \in Contexts /\ call[t].todo = <<i>> /\ i.do = "register" /\ i.context = c
  BY ONLY Shape, t \in Threads, <1>1, <1>2, <1>4, AtRegister
<1>6. c \in Dying(call[t].todo)
  <2>1. Range(<<i>>) = {i}
    BY DEF Range
  <2> QED BY ONLY <2>1, <1>5 DEF Dying, Doom
<1>7. c \in LiveContexts /\ c \notin registry /\ c \notin Orphans
  BY <1>6 DEF Separate, Orphans
<1>8. LiveContexts' = LiveContexts
  BY <1>4 DEF LiveContexts, Contexts
<1>9. Dying(call'[t].todo) = {} /\ OnceEach(call'[t].todo) /\ ~At(t, "destroy own")'
  <2>1. CallTodo(call'[t].todo, Dos') /\ Dos' \subseteq CodeDos
    BY <1>3 DEF Calling, Dos, CodeDos
  <2>2. /\ Dying(call'[t].todo) = {} /\ OnceEach(call'[t].todo)
        /\ Head(call'[t].todo).do # "destroy own"
    BY ONLY <2>1, CallsSpare
  <2> QED BY <2>2 DEF At
<1>10. \A u \in Threads : \A h \in BOOLEAN : Leaves(u, h)' <=> Leaves(u, h)
  <2>1. ~At(t, "destroy own")
    BY <1>4 DEF At
  <2> QED BY <2>1, <1>3, <1>9 DEF Leaves, At, Instruction
<1>11. /\ \A u \in Threads \ {t} : \A h \in BOOLEAN : handle'[u][h] = handle[u][h]
       /\ handle'[t][k] = c /\ \A h \in BOOLEAN \ {k} : handle'[t][h] = handle[t][h]
  <2>1. DOMAIN handle = Threads /\ DOMAIN handle[t] = BOOLEAN
    BY DEF Shape, TypeOK
  <2> QED BY ONLY <2>1, <1>3, <1>4, t \in Threads
<1>12. \A u \in Threads : \A h \in BOOLEAN :
         handle[u][h] \in {Null} \cup (IF Leaves(u, h) THEN Orphans ELSE registry \cup {Absent})
  BY DEF Separate
<1>13. c # Absent /\ c # Null
  BY <1>5, ContextAssumption DEF Contexts, Absent, Null
<1>14. \A u \in Threads : \A h \in BOOLEAN : handle[u][h] # c
  BY ONLY <1>7, <1>12, <1>13
<1>15. \A u \in Threads \ {t} : Dying(call'[u].todo) = Dying(call[u].todo) /\ OnceEach(call'[u].todo)
  BY <1>3 DEF Separate
<1>16. Orphans \subseteq Orphans'
  BY <1>4, <1>7, <1>8, <1>9, <1>15 DEF Orphans
<1>17. ~Leaves(t, k)'
  BY <1>9 DEF Leaves
<1>18. \A u \in Threads : \A h \in BOOLEAN :
         handle'[u][h] \in {Null} \cup (IF Leaves(u, h)' THEN Orphans' ELSE registry' \cup {Absent})
  <2> SUFFICES ASSUME NEW u \in Threads, NEW h \in BOOLEAN
               PROVE  handle'[u][h] \in {Null} \cup (IF Leaves(u, h)' THEN Orphans' ELSE registry' \cup {Absent})
    OBVIOUS
  <2>1. CASE u = t /\ h = k
    BY ONLY <2>1, <1>4, <1>11, <1>17
  <2>2. CASE ~(u = t /\ h = k)
    <3>1. handle'[u][h] = handle[u][h]
      BY ONLY <2>2, <1>11, u \in Threads, h \in BOOLEAN
    <3>2. handle[u][h] \in {Null} \cup (IF Leaves(u, h) THEN Orphans ELSE registry \cup {Absent})
      BY ONLY <1>12, u \in Threads, h \in BOOLEAN
    <3>3. Leaves(u, h)' <=> Leaves(u, h)
      BY ONLY <1>10, u \in Threads, h \in BOOLEAN
    <3>4. registry \subseteq registry'
      BY ONLY <1>4
    <3> QED BY ONLY <3>1, <3>2, <3>3, <3>4, <1>16
  <2> QED BY ONLY <2>1, <2>2
<1>19. registry' \subseteq LiveContexts'
  BY <1>4, <1>7, <1>8 DEF Separate
<1>20. \A u \in Threads : /\ Dying(call'[u].todo) \subseteq LiveContexts' \ registry'
                          /\ OnceEach(call'[u].todo)
  <2> SUFFICES ASSUME NEW u \in Threads
               PROVE  Dying(call'[u].todo) \subseteq LiveContexts' \ registry' /\ OnceEach(call'[u].todo)
    OBVIOUS
  <2>1. CASE u = t
    BY <2>1, <1>9
  <2>2. CASE u # t
    <3>1. Dying(call[u].todo) \subseteq LiveContexts \ registry
      BY DEF Separate
    <3>2. Dying(call[u].todo) \cap Dying(call[t].todo) = {}
      BY <2>2 DEF Separate
    <3> QED BY ONLY <2>2, <3>1, <3>2, <1>4, <1>6, <1>8, <1>15, u \in Threads
  <2> QED BY <2>1, <2>2
<1>21. \A u, v \in Threads : u # v => Dying(call'[u].todo) \cap Dying(call'[v].todo) = {}
  BY <1>9, <1>15 DEF Separate
<1>22. \A u, v \in Threads : \A h, j \in BOOLEAN :
         handle'[u][h] = handle'[v][j] /\ handle'[u][h] \notin {Absent, Null} => u = v /\ h = j
  <2>1. \A u, v \in Threads : \A h, j \in BOOLEAN :
          handle[u][h] = handle[v][j] /\ handle[u][h] \notin {Absent, Null} => u = v /\ h = j
    BY DEF Separate
  <2>2. \A u \in Threads : \A h \in BOOLEAN : (u = t /\ h = k) \/ handle'[u][h] = handle[u][h]
    BY ONLY <1>11
  <2>3. ASSUME NEW u \in Threads, NEW v \in Threads, NEW h \in BOOLEAN, NEW j \in BOOLEAN,
               handle'[u][h] = handle'[v][j], handle'[u][h] \notin {Absent, Null}
        PROVE  u = v /\ h = j
    <3>1. CASE u = t /\ h = k
      <4>1. handle'[u][h] = c
        BY ONLY <3>1, <1>11
      <4>2. (v = t /\ j = k) \/ handle'[v][j] = handle[v][j]
        BY ONLY <2>2, v \in Threads, j \in BOOLEAN
      <4>3. handle[v][j] # c
        BY ONLY <1>14, v \in Threads, j \in BOOLEAN
      <4> QED BY ONLY <3>1, <4>1, <4>2, <4>3, <2>3
    <3>2. CASE v = t /\ j = k
      <4>1. handle'[v][j] = c
        BY ONLY <3>2, <1>11
      <4>2. (u = t /\ h = k) \/ handle'[u][h] = handle[u][h]
        BY ONLY <2>2, u \in Threads, h \in BOOLEAN
      <4>3. handle[u][h] # c
        BY ONLY <1>14, u \in Threads, h \in BOOLEAN
      <4> QED BY ONLY <3>2, <4>1, <4>2, <4>3, <2>3
    <3>3. CASE ~(u = t /\ h = k) /\ ~(v = t /\ j = k)
      <4>1. handle'[u][h] = handle[u][h] /\ handle'[v][j] = handle[v][j]
        BY ONLY <3>3, <2>2, u \in Threads, h \in BOOLEAN, v \in Threads, j \in BOOLEAN
      <4>2. handle[u][h] = handle[v][j] /\ handle[u][h] \notin {Absent, Null}
        BY ONLY <4>1, <2>3
      <4>3. handle[u][h] = handle[v][j] /\ handle[u][h] \notin {Absent, Null} => u = v /\ h = j
        BY ONLY <2>1, u \in Threads, v \in Threads, h \in BOOLEAN, j \in BOOLEAN, ZenonT(60)
      <4> QED BY ONLY <4>2, <4>3
    <3> QED BY ONLY <3>1, <3>2, <3>3
  <2> QED BY ONLY <2>3
<1> QED BY ONLY <1>18, <1>19, <1>20, <1>21, <1>22, SeparateNext

\* The registration failed: the context is destroyed by the next instruction.
LEMMA SeparateRegisterFails ==
  ASSUME Shape, Separate, NEW t \in Threads, RegisterFails(t)
  PROVE  Separate'
<1>1. PICK c : c = Instruction(t).context
  OBVIOUS
<1>2. PICK i, j : i = [do |-> "register", context |-> c] /\ j = [do |-> "destroy", context |-> c]
  OBVIOUS
<1>3. call'[t].todo = <<j>> /\ \A u \in Threads \ {t} : call'[u] = call[u]
  BY <1>1, <1>2, RegisterFailsShape
<1>4. At(t, "register") /\ UNCHANGED <<context, handle, registry>>
  BY DEF RegisterFails
<1>5. call[t].todo = <<i>> /\ i.do = "register" /\ i.context = c /\ j.do = "destroy" /\ j.context = c
  BY ONLY Shape, t \in Threads, <1>1, <1>2, <1>4, AtRegister
<1>6. Range(<<i>>) = {i} /\ Head(<<j>>) = j
  BY DEF Range
<1>7. c \in Dying(call[t].todo)
  BY ONLY <1>5, <1>6 DEF Dying, Doom
<1>8. Dying(<<j>>) \subseteq {c} /\ OnceEach(<<j>>)
  BY ONLY DyingOne, <1>5
<1>9. ~At(t, "destroy own") /\ ~At(t, "destroy own")'
  BY <1>3, <1>4, <1>5, <1>6 DEF At
<1>10. LiveContexts' = LiveContexts
  BY <1>4 DEF LiveContexts, Contexts
<1>11. \A u \in Threads \ {t} : call'[u] = call[u]
  BY <1>3
<1>12. Dying(call'[t].todo) \subseteq Dying(call[t].todo) /\ OnceEach(call'[t].todo)
  BY ONLY <1>3, <1>7, <1>8, t \in Threads
<1> QED BY ONLY Separate, t \in Threads, <1>4, <1>9, <1>10, <1>11, <1>12, SeparateStep

\* The end of a thread: nothing is destroyed yet.
LEMMA SeparateEnd ==
  ASSUME Shape, Separate, NEW t \in Threads, EndThread(t)
  PROVE  Separate'
<1>1. PICK a, b : a = [do |-> "erase", host |-> FALSE] /\ b = [do |-> "erase", host |-> TRUE]
  OBVIOUS
<1>2. AtRest(t) /\ call'[t].todo = <<a, b>>
  BY <1>1, EndShape
<1>3. \A u \in Threads \ {t} : call'[u] = call[u]
  BY EndShape
<1>4. ~Doom(a) /\ ~Doom(b) /\ Head(<<a, b>>).do = "erase"
  BY <1>1 DEF Doom
<1>5. Dying(<<a, b>>) = {} /\ OnceEach(<<a, b>>)
  BY ONLY <1>4, DyingTwo
<1>6. ~At(t, "destroy own") /\ ~At(t, "destroy own")'
  BY <1>2, <1>4 DEF At, AtRest
<1>7. LiveContexts' = LiveContexts /\ UNCHANGED <<handle, registry>>
  BY DEF EndThread, LiveContexts, Contexts
<1> QED BY <1>2, <1>3, <1>5, <1>6, <1>7, SeparateStep

\* ~Handle: the context leaves the registry, and only its handle has it.
LEMMA SeparateErase ==
  ASSUME Shape, Separate, NEW t \in Threads, EraseHandle(t)
  PROVE  Separate'
<1>1. PICK k, c : k = Instruction(t).host /\ c = handle[t][k]
  OBVIOUS
<1>2. PICK i : i = [do |-> "destroy own", host |-> k]
  OBVIOUS
<1>3. At(t, "erase") /\ UNCHANGED <<context, handle>>
  BY DEF EraseHandle
<1>4. /\ LeavingTodo(call[t].todo, t \in ended) /\ k \in BOOLEAN
      /\ Instruction(t) = call[t].todo[1] /\ Instruction(t).do = "erase"
  BY ONLY Shape, t \in Threads, <1>1, <1>3, AtLeaving DEF LeavingDos, IsLeaving, Leaving
<1>5. PICK r : r = Tail(call[t].todo)
  OBVIOUS
<1>6. OnceEach(call[t].todo)
  BY DEF Separate
<1>7. /\ IsSeq(r) /\ Dying(r) \subseteq Dying(call[t].todo) /\ <<>> \o r = r /\ OnceEach(r)
      /\ r # <<>> => Head(r).do # "destroy own"
  BY ONLY <1>4, <1>5, <1>6, DyingTail
<1>8. ~At(t, "destroy own")
  BY <1>3 DEF At
<1>9. LiveContexts' = LiveContexts
  BY <1>3 DEF LiveContexts, Contexts
<1>10. \A u \in Threads \ {t} : call'[u] = call[u]
  BY EraseShape
<1>11. \/ call'[t].todo = <<>> \o r /\ UNCHANGED registry
       \/ call'[t].todo = <<i>> \o r /\ c \in registry /\ registry' = registry \ {c}
  BY <1>1, <1>2, <1>5, EraseShape
<1>12. CASE call'[t].todo = <<>> \o r /\ UNCHANGED registry
  <2>1. ~At(t, "destroy own")'
    BY <1>7, <1>12 DEF At
  <2>2. Dying(call'[t].todo) \subseteq Dying(call[t].todo) /\ OnceEach(call'[t].todo)
    BY ONLY <1>7, <1>12
  <2> QED BY ONLY Separate, t \in Threads, <1>3, <1>8, <1>9, <1>10, <1>12, <2>1, <2>2, SeparateStep
<1>13. CASE call'[t].todo = <<i>> \o r /\ c \in registry /\ registry' = registry \ {c}
  <2>1. i.do = "destroy own" /\ i.host = k /\ ~Doom(i)
    BY <1>2 DEF Doom
  <2>2. IsSeq(<<i>>) /\ OnceEach(<<i>>) /\ Dying(<<i>>) = {}
    BY ONLY <2>1, DyingOne
  <2>3. /\ Dying(<<i>> \o r) = Dying(<<i>>) \cup Dying(r)
        /\ OnceEach(<<i>>) /\ OnceEach(r) /\ Dying(<<i>>) \cap Dying(r) = {} => OnceEach(<<i>> \o r)
    BY ONLY <2>2, <1>7, DyingConcatenated
  <2>4. Dying(call'[t].todo) \subseteq Dying(call[t].todo) /\ OnceEach(call'[t].todo)
    BY ONLY <2>2, <2>3, <1>7, <1>13
  <2>5. call'[t].todo # <<>> /\ Head(call'[t].todo) = i
    <3>1. PICK p, q : p = <<i>> /\ q = p \o r
      OBVIOUS
    <3>2. Len(p) = 1 /\ p[1] = i /\ 1 \in 1..1 /\ IsSeq(p)
      BY <3>1, <2>2
    <3>3. IsSeq(q) /\ Len(q) = Len(p) + Len(r) /\ \A n \in 1..Len(p) : q[n] = p[n]
      <4>1. q = p \o r /\ IsSeq(p) /\ IsSeq(r)
        BY <3>1, <3>2, <1>7
      <4> QED BY ONLY <4>1, Concatenated, Zenon
    <3>4. Len(r) \in Nat
      <4>1. IsSeq(r)
        BY <1>7
      <4> QED BY ONLY <4>1 DEF IsSeq
    <3>5. q # <<>> /\ q[1] = i
      BY ONLY <3>2, <3>3, <3>4
    <3>6. Head(q) = q[1]
      BY ONLY <3>3, <3>5, Rested
    <3> QED BY ONLY <3>1, <3>5, <3>6, <1>13
  <2>6. /\ Leaves(t, k)' /\ \A h \in BOOLEAN : h # k => ~Leaves(t, h)'
        /\ \A u \in Threads \ {t} : \A h \in BOOLEAN : Leaves(u, h)' <=> Leaves(u, h)
    BY <2>1, <2>5, <1>10 DEF Leaves, At, Instruction
  <2>7. \A u \in Threads : Dying(call'[u].todo) \subseteq Dying(call[u].todo) /\ OnceEach(call'[u].todo)
    BY <2>4, <1>10 DEF Separate
  <2>8. Orphans \subseteq Orphans'
    BY <2>7, <1>9, <1>13 DEF Orphans
  <2>9. c \in Orphans'
    <3>1. \A u \in Threads : Dying(call'[u].todo) \subseteq LiveContexts \ registry
      BY <2>7 DEF Separate
    <3>2. c \in LiveContexts
      BY <1>13 DEF Separate
    <3> QED BY ONLY <3>1, <3>2, <1>9, <1>13 DEF Orphans
  <2>10. \A u \in Threads : \A h \in BOOLEAN :
           handle[u][h] \in {Null} \cup (IF Leaves(u, h) THEN Orphans ELSE registry \cup {Absent})
    BY DEF Separate
  <2>11. c # Absent /\ c # Null
    <3>1. c \in Contexts
      BY <1>13 DEF Shape, TypeOK
    <3> QED BY <3>1, ContextAssumption DEF Contexts, Absent, Null
  <2>12. \A u \in Threads : \A h \in BOOLEAN : handle[u][h] = c => u = t /\ h = k
    <3>1. \A u, v \in Threads : \A h, j \in BOOLEAN :
            handle[u][h] = handle[v][j] /\ handle[u][h] \notin {Absent, Null} => u = v /\ h = j
      BY DEF Separate
    <3> QED BY ONLY <3>1, <2>11, <1>1, <1>4, t \in Threads
  <2>13. \A u \in Threads : \A h \in BOOLEAN :
           handle'[u][h] \in {Null} \cup (IF Leaves(u, h)' THEN Orphans' ELSE registry' \cup {Absent})
    <3> SUFFICES ASSUME NEW u \in Threads, NEW h \in BOOLEAN
                 PROVE  handle'[u][h] \in {Null} \cup (IF Leaves(u, h)' THEN Orphans' ELSE registry' \cup {Absent})
      OBVIOUS
    <3>1. CASE u = t /\ h = k
      BY ONLY <3>1, <2>6, <2>9, <1>1, <1>3
    <3>2. CASE ~(u = t /\ h = k)
      <4>1. handle'[u][h] = handle[u][h] /\ handle[u][h] # c
        BY ONLY <3>2, <2>12, <1>3, u \in Threads, h \in BOOLEAN
      <4>2. handle[u][h] \in {Null} \cup (IF Leaves(u, h) THEN Orphans ELSE registry \cup {Absent})
        BY ONLY <2>10, u \in Threads, h \in BOOLEAN
      <4>3. Leaves(u, h)' <=> Leaves(u, h)
        <5>1. CASE u # t
          BY ONLY <5>1, <2>6, u \in Threads, h \in BOOLEAN
        <5>2. CASE u = t
          <6>1. ~Leaves(t, h) /\ ~Leaves(t, h)'
            BY <5>2, <3>2, <2>6, <1>8 DEF Leaves
          <6> QED BY ONLY <6>1, <5>2
        <5> QED BY ONLY <5>1, <5>2
      <4> QED BY ONLY <4>1, <4>2, <4>3, <2>8, <1>13
    <3> QED BY ONLY <3>1, <3>2
  <2>14. registry' \subseteq LiveContexts'
    BY <1>9, <1>13 DEF Separate
  <2>15. \A u \in Threads : /\ Dying(call'[u].todo) \subseteq LiveContexts' \ registry'
                            /\ OnceEach(call'[u].todo)
    BY <2>7, <1>9, <1>13 DEF Separate
  <2>16. \A u, v \in Threads : u # v => Dying(call'[u].todo) \cap Dying(call'[v].todo) = {}
    BY <2>7 DEF Separate
  <2>17. \A u, v \in Threads : \A h, j \in BOOLEAN :
           handle'[u][h] = handle'[v][j] /\ handle'[u][h] \notin {Absent, Null} => u = v /\ h = j
    <3>1. \A u, v \in Threads : \A h, j \in BOOLEAN :
            handle[u][h] = handle[v][j] /\ handle[u][h] \notin {Absent, Null} => u = v /\ h = j
      BY DEF Separate
    <3> QED BY ONLY <3>1, <1>3
  <2> QED BY ONLY <2>13, <2>14, <2>15, <2>16, <2>17, SeparateNext
<1> QED BY ONLY <1>11, <1>12, <1>13

\* camblas_cuda_destroy begins: the release keeps the context.
LEMMA SeparateDestroy ==
  ASSUME Shape, Separate, NEW t \in Threads, Destroy(t)
  PROVE  Separate'
<1>1. PICK i : /\ i.do = "release" /\ i.context = Instruction(t).context
               /\ call'[t].todo = (Wait \o <<i>>) \o Tail(call[t].todo)
  BY DestroyShape
<1>2. PICK r, w : r = Tail(call[t].todo) /\ w = Wait \o <<i>>
  OBVIOUS
<1>3. At(t, "destroy") /\ UNCHANGED <<context, handle, registry>>
  BY DEF Destroy, bindingVars
<1>4. /\ LeavingTodo(call[t].todo, t \in ended)
      /\ Instruction(t) = call[t].todo[1] /\ Instruction(t).do = "destroy"
  BY ONLY Shape, t \in Threads, <1>3, AtLeaving DEF LeavingDos, Leaving
<1>5. OnceEach(call[t].todo) /\ Doom(call[t].todo[1])
  BY <1>4 DEF Separate, Doom
<1>6. /\ IsSeq(r) /\ Dying(r) \subseteq Dying(call[t].todo) /\ OnceEach(r)
      /\ i.context \in Dying(call[t].todo) /\ i.context \notin Dying(r)
  BY ONLY <1>1, <1>2, <1>4, <1>5, DyingTail
<1>7. IsSeq(Wait) /\ OnceEach(Wait) /\ Dying(Wait) = {}
  <2>1. PICK a, b : a = [do |-> "synchronize"] /\ b = [do |-> "await"]
    OBVIOUS
  <2>2. ~Doom(a) /\ ~Doom(b) /\ Wait = <<a, b>>
    BY ONLY <2>1 DEF Doom, Wait
  <2> QED BY ONLY <2>2, DyingTwo
<1>8. IsSeq(<<i>>) /\ OnceEach(<<i>>) /\ Dying(<<i>>) \subseteq {i.context}
  BY ONLY DyingOne
<1>9. IsSeq(w) /\ OnceEach(w) /\ Dying(w) \subseteq {i.context}
  <2>1. IsSeq(w)
    BY ONLY <1>2, <1>7, <1>8, Concatenated
  <2> QED BY ONLY <2>1, <1>2, <1>7, <1>8, DyingConcatenated
<1>10. Dying(w \o r) \subseteq Dying(call[t].todo) /\ OnceEach(w \o r)
  BY ONLY <1>6, <1>9, DyingConcatenated
<1>11. ~At(t, "destroy own") /\ ~At(t, "destroy own")'
  <2>1. Len(w) = 3 /\ w[1].do = "synchronize"
    BY ONLY <1>1, <1>2, WaitAndRelease
  <2>2. PICK q : q = w \o r
    OBVIOUS
  <2>3. IsSeq(q) /\ Len(q) = Len(w) + Len(r) /\ \A n \in 1..Len(w) : q[n] = w[n]
    BY ONLY <2>2, <1>6, <1>9, Concatenated
  <2>8. Len(r) \in Nat
    BY ONLY <1>6 DEF IsSeq
  <2>4. q # <<>> /\ 1 \in 1..Len(w)
    BY ONLY <2>1, <2>3, <2>8
  <2>5. Head(q) = q[1]
    BY ONLY <2>3, <2>4, Rested
  <2>6. Head(q).do = "synchronize"
    BY ONLY <2>1, <2>3, <2>4, <2>5
  <2>7. call'[t].todo = q
    BY ONLY <1>1, <1>2, <2>2
  <2> QED BY <2>6, <2>7, <1>3 DEF At
<1>12. LiveContexts' = LiveContexts
  BY <1>3 DEF LiveContexts, Contexts
<1>13. \A u \in Threads \ {t} : call'[u] = call[u]
  BY DestroyShape
<1>14. Dying(call'[t].todo) \subseteq Dying(call[t].todo) /\ OnceEach(call'[t].todo)
  BY ONLY <1>1, <1>2, <1>10
<1> QED BY ONLY Separate, t \in Threads, <1>3, <1>11, <1>12, <1>13, <1>14, SeparateStep

\* The handle gives up its context, which the next instruction destroys.
LEMMA SeparateDestroyOwn ==
  ASSUME Shape, Separate, NEW t \in Threads, DestroyOwn(t)
  PROVE  Separate'
<1>1. PICK k, c : k = Instruction(t).host /\ c = handle[t][k]
  OBVIOUS
<1>2. PICK i : i = [do |-> "destroy", context |-> c]
  OBVIOUS
<1>3. At(t, "destroy own") /\ UNCHANGED <<context, registry>>
  BY DEF DestroyOwn
<1>4. LeavingTodo(call[t].todo, t \in ended)
  BY ONLY Shape, t \in Threads, <1>3, AtLeaving DEF LeavingDos, Leaving
<1>5. PICK r : r = Tail(call[t].todo)
  OBVIOUS
<1>6. OnceEach(call[t].todo)
  BY DEF Separate
<1>7. /\ IsSeq(r) /\ Dying(r) \subseteq Dying(call[t].todo) /\ <<>> \o r = r /\ OnceEach(r)
      /\ r # <<>> => Head(r).do # "destroy own"
  BY ONLY <1>4, <1>5, <1>6, DyingTail
<1>8. /\ \A u \in Threads \ {t} : call'[u] = call[u]
      /\ call'[t].todo = (IF c = Null THEN <<>> ELSE <<i>>) \o r
      /\ k \in BOOLEAN
      /\ \A u \in Threads \ {t} : handle'[u] = handle[u]
      /\ handle'[t] = [handle[t] EXCEPT ![k] = Absent]
  BY <1>1, <1>2, <1>5, DestroyOwnShape
<1>9. LiveContexts' = LiveContexts
  BY <1>3 DEF LiveContexts, Contexts
<1>10. Leaves(t, k)
  BY <1>1, <1>3 DEF Leaves
<1>11. c = Null \/ c \in Orphans
  BY <1>1, <1>8, <1>10 DEF Separate
<1>12. IsSeq(<<i>>) /\ OnceEach(<<i>>) /\ Dying(<<i>>) \subseteq {c} /\ i.do = "destroy"
  <2>1. i.context = c /\ i.do = "destroy"
    BY <1>2
  <2> QED BY ONLY <2>1, DyingOne
<1>13. /\ OnceEach(call'[t].todo) /\ ~At(t, "destroy own")'
       /\ Dying(call'[t].todo) \subseteq Dying(call[t].todo) \cup (Orphans \cap {c})
  <2>1. CASE c = Null
    <3>1. call'[t].todo = r
      BY ONLY <2>1, <1>7, <1>8
    <3> QED BY <3>1, <1>7 DEF At
  <2>2. CASE c # Null
    <3>1. PICK p, q : p = <<i>> /\ q = p \o r
      OBVIOUS
    <3>2. call'[t].todo = q
      BY ONLY <2>2, <3>1, <1>8
    <3>3. c \in Orphans
      BY ONLY <2>2, <1>11
    <3>4. c \notin Dying(call[t].todo)
      BY ONLY <3>3, t \in Threads DEF Orphans
    <3>5. Len(p) = 1 /\ p[1] = i /\ 1 \in 1..1 /\ IsSeq(p) /\ OnceEach(p) /\ Dying(p) \subseteq {c}
      BY <3>1, <1>12
    <3>6. Dying(q) = Dying(p) \cup Dying(r) /\ OnceEach(q)
      <4>1. Dying(p) \cap Dying(r) = {}
        BY ONLY <3>4, <3>5, <1>7
      <4> QED BY ONLY <4>1, <3>1, <3>5, <1>7, DyingConcatenated
    <3>7. IsSeq(q) /\ Len(q) = Len(p) + Len(r) /\ \A n \in 1..Len(p) : q[n] = p[n]
      <4>1. q = p \o r /\ IsSeq(p) /\ IsSeq(r)
        BY <3>1, <3>5, <1>7
      <4> QED BY ONLY <4>1, Concatenated, Zenon
    <3>8. Len(r) \in Nat
      <4>1. IsSeq(r)
        BY <1>7
      <4> QED BY ONLY <4>1 DEF IsSeq
    <3>9. q # <<>> /\ q[1] = i
      BY ONLY <3>5, <3>7, <3>8
    <3>10. Head(q) = q[1]
      BY ONLY <3>7, <3>9, Rested
    <3>11. ~At(t, "destroy own")'
      BY <3>2, <3>9, <3>10, <1>12 DEF At
    <3> QED BY ONLY <3>2, <3>3, <3>5, <3>6, <3>11, <1>7
  <2> QED BY ONLY <2>1, <2>2
<1>14. \A u \in Threads \ {t} : Dying(call'[u].todo) = Dying(call[u].todo) /\ OnceEach(call'[u].todo)
  BY <1>8 DEF Separate
<1>15. \A u \in Threads : \A h \in BOOLEAN :
         handle[u][h] \in {Null} \cup (IF Leaves(u, h) THEN Orphans ELSE registry \cup {Absent})
  BY DEF Separate
<1>16. \A u, v \in Threads : \A h, j \in BOOLEAN :
         handle[u][h] = handle[v][j] /\ handle[u][h] \notin {Absent, Null} => u = v /\ h = j
  BY DEF Separate
<1>17. /\ \A h \in BOOLEAN \ {k} : handle'[t][h] = handle[t][h]
       /\ handle'[t][k] = Absent
  <2>1. DOMAIN handle[t] = BOOLEAN
    BY DEF Shape, TypeOK
  <2> QED BY ONLY <2>1, <1>8
<1>18. \A x \in Orphans \ {c} : x \in Orphans'
  BY <1>3, <1>9, <1>13, <1>14 DEF Orphans
<1>19. \A u \in Threads : \A h \in BOOLEAN :
         handle'[u][h] \in {Null} \cup (IF Leaves(u, h)' THEN Orphans' ELSE registry' \cup {Absent})
  <2> SUFFICES ASSUME NEW u \in Threads, NEW h \in BOOLEAN
               PROVE  handle'[u][h] \in {Null} \cup (IF Leaves(u, h)' THEN Orphans' ELSE registry' \cup {Absent})
    OBVIOUS
  <2>1. handle[u][h] \in {Null} \cup (IF Leaves(u, h) THEN Orphans ELSE registry \cup {Absent})
    BY ONLY <1>15, u \in Threads, h \in BOOLEAN
  <2>2. CASE u = t
    <3>1. ~Leaves(u, h)'
      BY <2>2, <1>13 DEF Leaves
    <3>2. h # k => ~Leaves(u, h)
      BY <2>2, <1>1 DEF Leaves
    <3> QED BY ONLY <2>1, <2>2, <3>1, <3>2, <1>3, <1>17, h \in BOOLEAN
  <2>3. CASE u # t
    <3>1. Leaves(u, h)' <=> Leaves(u, h)
      BY <2>3, <1>8 DEF Leaves, At, Instruction
    <3>2. handle'[u][h] = handle[u][h]
      BY ONLY <2>3, <1>8, u \in Threads
    <3>3. handle[u][h] \in Orphans => handle[u][h] # c
      <4>1. ASSUME handle[u][h] \in Orphans, handle[u][h] = c PROVE FALSE
        <5>1. c \in Contexts
          BY <4>1 DEF Orphans, LiveContexts
        <5>2. c # Absent /\ c # Null
          BY <5>1, ContextAssumption DEF Contexts, Absent, Null
        <5> QED BY ONLY <4>1, <5>2, <2>3, <1>1, <1>8, <1>16, u \in Threads, h \in BOOLEAN, t \in Threads
      <4> QED BY ONLY <4>1
    <3> QED BY ONLY <2>1, <3>1, <3>2, <3>3, <1>3, <1>18
  <2> QED BY ONLY <2>2, <2>3
<1>20. registry' \subseteq LiveContexts'
  BY <1>3, <1>9 DEF Separate
<1>21. Orphans \subseteq LiveContexts \ registry
  BY DEF Orphans
<1>22. \A u \in Threads : /\ Dying(call'[u].todo) \subseteq LiveContexts' \ registry'
                          /\ OnceEach(call'[u].todo)
  BY <1>3, <1>9, <1>13, <1>14, <1>21 DEF Separate
<1>23. \A u \in Threads : Orphans \cap Dying(call[u].todo) = {}
  BY DEF Orphans
<1>24. \A u, v \in Threads : u # v => Dying(call'[u].todo) \cap Dying(call'[v].todo) = {}
  BY <1>13, <1>14, <1>23 DEF Separate
<1>25. \A u, v \in Threads : \A h, j \in BOOLEAN :
         handle'[u][h] = handle'[v][j] /\ handle'[u][h] \notin {Absent, Null} => u = v /\ h = j
  <2>1. \A u \in Threads : \A h \in BOOLEAN :
          handle'[u][h] = Absent \/ handle'[u][h] = handle[u][h]
    BY ONLY <1>8, <1>17
  <2> QED BY ONLY <2>1, <1>16
<1> QED BY ONLY <1>19, <1>20, <1>22, <1>24, <1>25, SeparateNext

\* A context is released: nobody has it any more.
LEMMA SeparateRelease ==
  ASSUME Shape, Separate, NEW t \in Threads, Release(t)
  PROVE  Separate'
<1>1. PICK c : c = Instruction(t).context
  OBVIOUS
<1>2. /\ At(t, "release") /\ UNCHANGED <<handle, registry>>
      /\ context' = [context EXCEPT ![c] = [Unused EXCEPT !.state = "destroyed"]]
  BY <1>1 DEF Release, FreeContext, bindingVars
<1>3. /\ LeavingTodo(call[t].todo, t \in ended)
      /\ Instruction(t) = call[t].todo[1] /\ Instruction(t).do = "release"
  BY ONLY Shape, t \in Threads, <1>2, AtLeaving DEF LeavingDos, Leaving
<1>4. OnceEach(call[t].todo) /\ Doom(call[t].todo[1])
  BY <1>3 DEF Separate, Doom
<1>5. PICK r : r = Tail(call[t].todo)
  OBVIOUS
<1>6. /\ IsSeq(r) /\ Dying(r) \subseteq Dying(call[t].todo) /\ <<>> \o r = r /\ OnceEach(r)
      /\ r # <<>> => Head(r).do # "destroy own"
      /\ c \in Dying(call[t].todo) /\ c \notin Dying(r)
  BY ONLY <1>1, <1>3, <1>4, <1>5, DyingTail
<1>7. call'[t].todo = r /\ \A u \in Threads \ {t} : call'[u] = call[u]
  BY <1>5, <1>6, ReleaseShape
<1>8. LiveContexts' = LiveContexts \ {c}
  <2>1. DOMAIN context = Contexts
    BY DEF Shape, TypeOK
  <2>2. [Unused EXCEPT !.state = "destroyed"].state = "destroyed"
    BY DEF Unused
  <2> QED BY ONLY <2>1, <2>2, <1>2 DEF LiveContexts, Contexts
<1>9. c \notin registry /\ c \notin Orphans
  BY <1>6 DEF Separate, Orphans
<1>10. /\ \A u \in Threads : /\ Dying(call'[u].todo) \subseteq Dying(call[u].todo) \ {c}
                             /\ OnceEach(call'[u].todo)
  <2> SUFFICES ASSUME NEW u \in Threads
               PROVE  Dying(call'[u].todo) \subseteq Dying(call[u].todo) \ {c} /\ OnceEach(call'[u].todo)
    OBVIOUS
  <2>1. CASE u = t
    BY ONLY <2>1, <1>6, <1>7
  <2>2. CASE u # t
    <3>1. Dying(call[u].todo) \cap Dying(call[t].todo) = {} /\ OnceEach(call[u].todo)
      BY <2>2 DEF Separate
    <3> QED BY ONLY <2>2, <3>1, <1>6, <1>7, u \in Threads
  <2> QED BY ONLY <2>1, <2>2
<1>11. \A u \in Threads : \A k \in BOOLEAN : Leaves(u, k)' <=> Leaves(u, k)
  <2>1. ~At(t, "destroy own") /\ ~At(t, "destroy own")'
    BY <1>2, <1>6, <1>7 DEF At
  <2> QED BY <2>1, <1>7 DEF Leaves, At, Instruction
<1>12. Orphans \subseteq Orphans'
  BY <1>2, <1>8, <1>9, <1>10 DEF Orphans
<1>13. \A u \in Threads : \A k \in BOOLEAN :
         handle'[u][k] \in {Null} \cup (IF Leaves(u, k)' THEN Orphans' ELSE registry' \cup {Absent})
  BY <1>2, <1>11, <1>12 DEF Separate
<1>14. registry' \subseteq LiveContexts'
  BY <1>2, <1>8, <1>9 DEF Separate
<1>15. \A u \in Threads : /\ Dying(call'[u].todo) \subseteq LiveContexts' \ registry'
                          /\ OnceEach(call'[u].todo)
  BY <1>2, <1>8, <1>10 DEF Separate
<1>16. \A u, v \in Threads : u # v => Dying(call'[u].todo) \cap Dying(call'[v].todo) = {}
  BY <1>10 DEF Separate
<1>17. \A u, v \in Threads : \A h, k \in BOOLEAN :
         handle'[u][h] = handle'[v][k] /\ handle'[u][h] \notin {Absent, Null} => u = v /\ h = k
  <2>1. \A u, v \in Threads : \A h, k \in BOOLEAN :
          handle[u][h] = handle[v][k] /\ handle[u][h] \notin {Absent, Null} => u = v /\ h = k
    BY DEF Separate
  <2> QED BY ONLY <2>1, <1>2
<1> QED BY ONLY <1>13, <1>14, <1>15, <1>16, <1>17, SeparateNext

\* close() takes the contexts from the handles before it destroys them.
LEMMA SeparateClose ==
  ASSUME Shape, Separate, NEW t \in Threads, CloseAll(t)
  PROVE  Separate'
<1>1. /\ handle' = Nulled(registry) /\ registry' = {} /\ UNCHANGED context
  BY DEF CloseAll
<1>2. /\ AtRest(t) /\ \A u \in Threads \ {t} : call'[u] = call[u]
      /\ Dying(call'[t].todo) \subseteq registry /\ OnceEach(call'[t].todo)
      /\ call'[t].todo[1].do \in {"destroy", "clear"}
  BY CloseShape
<1>3. LiveContexts' = LiveContexts
  BY <1>1 DEF LiveContexts, Contexts
<1>4. ~At(t, "destroy own") /\ ~At(t, "destroy own")'
  <2>1. At(t, "destroy own")' => call'[t].todo[1].do = "destroy own"
    <3>1. Shape' /\ (At(t, "destroy own") => FALSE)
      BY <1>2, CloseShape DEF At, AtRest
    <3>2. Mode(t)'
      BY <3>1 DEF Shape
    <3>3. IsSeq(call'[t].todo)
      <4>1. (AtRest(t) => call[t].todo = <<>>)'
        BY DEF AtRest
      <4>2. (Calling(t) => IsSeq(call[t].todo))'
        BY DEF Calling, CallTodo
      <4>3. (Leaving(t) => IsSeq(call[t].todo))'
        BY DEF Leaving, LeavingTodo
      <4>4. Creating(t)' => IsSeq(call'[t].todo)
        <5> SUFFICES ASSUME NEW c, call'[t].todo = <<[do |-> "register", context |-> c]>>
                     PROVE  IsSeq(call'[t].todo)
          BY DEF Creating
        <5> QED BY DyingOne
      <4>5. IsSeq(<<>>)
        BY FreshNone DEF Fresh, Code
      <4> QED BY <3>2, <4>1, <4>2, <4>3, <4>4, <4>5 DEF Mode
    <3>4. call'[t].todo # <<>> => Head(call'[t].todo) = call'[t].todo[1]
      BY ONLY <3>3, Rested
    <3> QED BY <3>4 DEF At
  <2> QED BY <2>1, <1>2 DEF At, AtRest
<1>5. \A u \in Threads : \A k \in BOOLEAN : Leaves(u, k)' <=> Leaves(u, k)
  BY <1>2, <1>4 DEF Leaves, At, Instruction
<1>6. \A u \in Threads \ {t} : Dying(call'[u].todo) = Dying(call[u].todo) /\ OnceEach(call'[u].todo)
  BY <1>2 DEF Separate
<1>7. Orphans \subseteq Orphans'
  BY <1>1, <1>2, <1>3, <1>6 DEF Orphans
<1>8. \A u \in Threads : \A k \in BOOLEAN :
        handle'[u][k] = IF handle[u][k] \in registry THEN Null ELSE handle[u][k]
  BY <1>1 DEF Nulled, Keys
<1>9. \A u \in Threads : \A k \in BOOLEAN :
        handle[u][k] \in {Null} \cup (IF Leaves(u, k) THEN Orphans ELSE registry \cup {Absent})
  BY DEF Separate
<1>10. \A u \in Threads : \A k \in BOOLEAN :
         handle'[u][k] \in {Null} \cup (IF Leaves(u, k)' THEN Orphans' ELSE registry' \cup {Absent})
  BY ONLY <1>5, <1>7, <1>8, <1>9
<1>11. registry' \subseteq LiveContexts'
  BY <1>1
<1>12. \A u \in Threads : /\ Dying(call'[u].todo) \subseteq LiveContexts' \ registry'
                          /\ OnceEach(call'[u].todo)
  BY <1>1, <1>2, <1>3, <1>6 DEF Separate
<1>13. \A u, v \in Threads : u # v => Dying(call'[u].todo) \cap Dying(call'[v].todo) = {}
  <2>1. \A u \in Threads : Dying(call[u].todo) \cap registry = {}
    BY DEF Separate
  <2> QED BY <2>1, <1>2, <1>6 DEF Separate
<1>14. \A u, v \in Threads : \A h, k \in BOOLEAN :
         handle'[u][h] = handle'[v][k] /\ handle'[u][h] \notin {Absent, Null} => u = v /\ h = k
  <2>1. \A u, v \in Threads : \A h, k \in BOOLEAN :
          handle[u][h] = handle[v][k] /\ handle[u][h] \notin {Absent, Null} => u = v /\ h = k
    BY DEF Separate
  <2> QED BY ONLY <2>1, <1>8
<1> QED BY ONLY <1>10, <1>11, <1>12, <1>13, <1>14, SeparateNext

\* handles.clear(): the contexts are gone already.
LEMMA SeparateClear ==
  ASSUME Shape, Separate, NEW t \in Threads, ClearHandles(t)
  PROVE  Separate'
<1>1. At(t, "clear") /\ UNCHANGED <<context, registry>>
  BY DEF ClearHandles
<1>2. LeavingTodo(call[t].todo, t \in ended)
  BY ONLY Shape, t \in Threads, <1>1, AtLeaving DEF LeavingDos, Leaving
<1>3. PICK r : r = Tail(call[t].todo)
  OBVIOUS
<1>4. OnceEach(call[t].todo)
  BY DEF Separate
<1>5. /\ Dying(r) \subseteq Dying(call[t].todo) /\ <<>> \o r = r /\ OnceEach(r)
      /\ r # <<>> => Head(r).do # "destroy own"
  BY ONLY <1>2, <1>3, <1>4, DyingTail
<1>6. /\ call'[t].todo = r /\ \A u \in Threads \ {t} : call'[u] = call[u]
  BY <1>3, <1>5, ClearShape
<1>7. /\ \A u \in Threads \ {t} : handle'[u] = handle[u]
      /\ \A k \in BOOLEAN : handle'[t][k] = Absent
  BY ClearShape
<1>8. LiveContexts' = LiveContexts
  BY <1>1 DEF LiveContexts, Contexts
<1>9. ~At(t, "destroy own") /\ ~At(t, "destroy own")'
  BY <1>1, <1>5, <1>6 DEF At
<1>10. \A u \in Threads : \A k \in BOOLEAN : Leaves(u, k)' <=> Leaves(u, k)
  BY <1>6, <1>9 DEF Leaves, At, Instruction
<1>11. \A u \in Threads : Dying(call'[u].todo) \subseteq Dying(call[u].todo) /\ OnceEach(call'[u].todo)
  BY <1>5, <1>6 DEF Separate
<1>12. Orphans \subseteq Orphans'
  BY <1>1, <1>8, <1>11 DEF Orphans
<1>13. \A u \in Threads : \A k \in BOOLEAN : handle'[u][k] = Absent \/ handle'[u][k] = handle[u][k]
  BY <1>7
<1>14. \A u \in Threads : \A k \in BOOLEAN :
         handle'[u][k] \in {Null} \cup (IF Leaves(u, k)' THEN Orphans' ELSE registry' \cup {Absent})
  <2>1. \A u \in Threads : \A k \in BOOLEAN :
          handle[u][k] \in {Null} \cup (IF Leaves(u, k) THEN Orphans ELSE registry \cup {Absent})
    BY DEF Separate
  <2>2. \A k \in BOOLEAN : ~Leaves(t, k)'
    BY <1>9 DEF Leaves
  <2> QED BY ONLY <2>1, <2>2, <1>1, <1>7, <1>10, <1>12
<1>15. registry' \subseteq LiveContexts'
  BY <1>1, <1>8 DEF Separate
<1>16. \A u \in Threads : /\ Dying(call'[u].todo) \subseteq LiveContexts' \ registry'
                          /\ OnceEach(call'[u].todo)
  BY <1>1, <1>8, <1>11 DEF Separate
<1>17. \A u, v \in Threads : u # v => Dying(call'[u].todo) \cap Dying(call'[v].todo) = {}
  BY <1>11 DEF Separate
<1>18. \A u, v \in Threads : \A h, k \in BOOLEAN :
         handle'[u][h] = handle'[v][k] /\ handle'[u][h] \notin {Absent, Null} => u = v /\ h = k
  <2>1. \A u, v \in Threads : \A h, k \in BOOLEAN :
          handle[u][h] = handle[v][k] /\ handle[u][h] \notin {Absent, Null} => u = v /\ h = k
    BY DEF Separate
  <2> QED BY ONLY <2>1, <1>13
<1> QED BY ONLY <1>14, <1>15, <1>16, <1>17, <1>18, SeparateNext

-----------------------------------------------------------------------------
(* Every block has somebody who will release it (Kept).                     *)
Frees == UNION {q.frees : q \in Range(queue)}
Later == Frees \cup pool

\* A command added to the stream, and a stream without its first command.
LEMMA Appended ==
  ASSUME NEW p, IsSeq(p), NEW e
  PROVE  IsSeq(Append(p, e)) /\ Range(Append(p, e)) = Range(p) \cup {e}
<1>1. PICK q : q = Append(p, e)
  OBVIOUS
<1>2. p \in Seq(Range(p) \cup {e})
  BY DEF IsSeq
<1>3. q \in Seq(Range(p) \cup {e})
  BY <1>1, <1>2
<1>4. IsSeq(q)
  BY ONLY <1>3, OwnRange
<1>5. /\ Len(p) \in Nat /\ Len(q) = Len(p) + 1 /\ q[Len(p) + 1] = e
      /\ \A i \in 1..Len(p) : q[i] = p[i]
  BY <1>1, <1>2
<1>6. DOMAIN q = 1..Len(q) /\ DOMAIN p = 1..Len(p)
  BY <1>2, <1>3
<1>7. Range(q) = Range(p) \cup {e}
  <2>1. 1..Len(q) = 1..Len(p) \cup {Len(p) + 1}
    BY ONLY <1>5
  <2> QED BY ONLY <2>1, <1>5, <1>6 DEF Range
<1> QED BY <1>1, <1>4, <1>7

\* An element of a queue is the first one or a later one.
LEMMA FirstOrLater ==
  ASSUME NEW p, IsSeq(p), p # <<>>
  PROVE  Range(p) \subseteq {Head(p)} \cup Range(Tail(p))
<1>1. PICK r : r = Tail(p)
  OBVIOUS
<1>2. /\ IsSeq(r) /\ Len(p) \in Nat \ {0} /\ Len(r) = Len(p) - 1 /\ Head(p) = p[1]
      /\ \A i \in 1..(Len(p) - 1) : r[i] = p[i + 1]
  BY ONLY <1>1, IsSeq(p), p # <<>>, Rested
<1>3. DOMAIN p = 1..Len(p) /\ DOMAIN r = 1..Len(r)
  BY <1>2 DEF IsSeq
<1>4. \A k \in 1..Len(p) : k = 1 \/ (k - 1 \in 1..Len(r) /\ k - 1 \in 1..(Len(p) - 1) /\ (k - 1) + 1 = k)
  BY ONLY <1>2
<1>5. \A k \in 1..Len(p) : p[k] = Head(p) \/ p[k] \in Range(r)
  <2> SUFFICES ASSUME NEW k \in 1..Len(p), k # 1 PROVE p[k] \in Range(r)
    BY <1>2
  <2>1. k - 1 \in 1..Len(r) /\ r[k - 1] = p[k]
    BY ONLY <1>2, <1>4, k \in 1..Len(p), k # 1
  <2> QED BY ONLY <2>1, <1>3 DEF Range
<1> QED BY ONLY <1>1, <1>3, <1>5 DEF Range

\* The blocks that are free, for as many as there is room (Room, Nth).
LEMMA FreeBlocks ==
  ASSUME NEW n, Room(n), NEW i \in 1..n
  PROVE  /\ Nth(Free(Held), i) \in Blocks \ (allocated \cup Held)
         /\ Nth(Free(Held), i) # 0
<1>1. PICK F : F = Free(Held)
  OBVIOUS
<1>2. \E b \in F : IsNth(b, F, i)
  BY <1>1 DEF Room
<1>3. Nth(F, i) \in F
  BY ONLY <1>2, Zenon DEF Nth
<1>4. F \subseteq Blocks \ (allocated \cup Held)
  BY <1>1 DEF Free
<1>5. 0 \notin Blocks
  BY StreamAssumption
<1> QED BY <1>1, <1>3, <1>4, <1>5

\* A context that keeps what it had except for R, and what it gets.
LEMMA OwnedOne ==
  ASSUME TypeOK, NEW c, NEW x, NEW R, context' = [context EXCEPT ![c] = x],
         c \in Contexts => Owned(context[c]) \ R \subseteq Owned(x)
  PROVE  /\ AllOwned \ R \subseteq AllOwned'
         /\ c \in Contexts => Owned(x) \subseteq AllOwned'
<1>1. DOMAIN context = Contexts
  BY DEF TypeOK
<1>2. \A d \in Contexts : /\ d # c => context'[d] = context[d]
                          /\ d = c => context'[d] = x
  BY ONLY <1>1, context' = [context EXCEPT ![c] = x]
<1>3. AllOwned' = UNION {Owned(context'[d]) : d \in Contexts}
  BY DEF AllOwned, Contexts, Owned
<1> QED BY <1>2, <1>3 DEF AllOwned

\* What shows that the next state keeps every block with somebody: the
\* pointers stay and what is new belongs to a context.
LEMMA KeptSame ==
  ASSUME Kept, IsSeq(queue'), IsSeq(graph'), allocated' \subseteq Blocks,
         \A u \in Threads : call'[u].pointer = call[u].pointer,
         allocated' \subseteq allocated \cup AllOwned',
         \A b \in allocated' : /\ b \in AllOwned => b \in AllOwned'
                               /\ b \in Later => b \in Later'
  PROVE  Kept'
<1>1. \A u \in Threads : Pointers(u)' = Pointers(u)
  BY DEF Pointers
<1>2. allocated \subseteq AllOwned \cup Held \cup Later
  <2>1. Owners = ((AllOwned \cup Held) \cup Frees) \cup pool
    BY ONLY TRUE, Zenon DEF Owners, AllOwned, Held, Frees
  <2>2. allocated \subseteq Owners
    BY ONLY Kept DEF Kept
  <2> QED BY ONLY <2>1, <2>2 DEF Later
<1>3. allocated' \subseteq AllOwned' \cup Held' \cup Later'
  <2>1. Held' = Held
    BY ONLY <1>1, Zenon DEF Held
  <2> QED BY <2>1, <1>2
<1>4. Owners' = AllOwned' \cup Held' \cup Later'
  <2>1. Owners' = ((AllOwned' \cup Held') \cup Frees') \cup pool'
    BY ONLY TRUE, Zenon DEF Owners, AllOwned, Held, Frees
  <2> QED BY ONLY <2>1 DEF Later
<1>5. \A u \in Threads : \A n \in Arenas \cap DOMAIN call'[u].pointer :
        call'[u].pointer[n] \in allocated' => call'[u].pointer[n] \in AllOwned'
  BY DEF Kept
<1> QED BY <1>3, <1>4, <1>5 DEF Kept

\* The same when the call of t takes the address of its arena.
LEMMA KeptBinds ==
  ASSUME Kept, NEW t \in Threads, NEW block, Binds(t, block),
         \A u \in Threads \ {t} : call'[u] = call[u],
         block \in allocated' => block \in AllOwned',
         IsSeq(queue'), IsSeq(graph'), allocated' \subseteq Blocks,
         allocated' \subseteq allocated \cup AllOwned',
         \A b \in allocated' : /\ b \in AllOwned => b \in AllOwned'
                               /\ b \in Later => b \in Later'
  PROVE  Kept'
<1>1. PICK name \in Arenas :
        /\ DOMAIN call'[t].pointer = DOMAIN call[t].pointer \cup {name}
        /\ call'[t].pointer[name] = block
        /\ \A n \in DOMAIN call[t].pointer \ {name} : call'[t].pointer[n] = call[t].pointer[n]
  <2>1. PICK name : name = Instruction(t).into
    OBVIOUS
  <2>2. /\ name \in Arenas
        /\ call'[t].pointer = [n \in DOMAIN call[t].pointer \cup {name} |->
                                IF n = name THEN block ELSE call[t].pointer[n]]
    BY ONLY <2>1, Binds(t, block) DEF Binds, Bind
  <2>3. /\ DOMAIN call'[t].pointer = DOMAIN call[t].pointer \cup {name}
        /\ call'[t].pointer[name] = block
        /\ \A n \in DOMAIN call[t].pointer \ {name} : call'[t].pointer[n] = call[t].pointer[n]
    BY ONLY <2>2
  <2> QED BY ONLY <2>2, <2>3
<1>2. allocated \subseteq AllOwned \cup Held \cup Later
  <2>1. Owners = ((AllOwned \cup Held) \cup Frees) \cup pool
    BY ONLY TRUE, Zenon DEF Owners, AllOwned, Held, Frees
  <2>2. allocated \subseteq Owners
    BY ONLY Kept DEF Kept
  <2> QED BY ONLY <2>1, <2>2 DEF Later
<1>3. \A u \in Threads : \A b \in Pointers(u) \cap allocated : b \in AllOwned \/ b \in Pointers(u)'
  <2> SUFFICES ASSUME NEW u \in Threads, NEW n \in DOMAIN call[u].pointer,
                      call[u].pointer[n] \in allocated
               PROVE  call[u].pointer[n] \in AllOwned \/ call[u].pointer[n] \in Pointers(u)'
    BY DEF Pointers
  <2>1. CASE u # t
    BY <2>1 DEF Pointers
  <2>2. CASE u = t /\ n # name
    BY <2>2, <1>1 DEF Pointers
  <2>3. CASE u = t /\ n = name
    BY <2>3, <1>1 DEF Kept
  <2> QED BY <2>1, <2>2, <2>3
<1>4. allocated' \subseteq AllOwned' \cup Held' \cup Later'
  <2> SUFFICES ASSUME NEW b \in allocated', b \notin AllOwned', b \notin Later' PROVE b \in Held'
    OBVIOUS
  <2>1. b \in allocated /\ b \notin AllOwned /\ b \in Held
    BY <1>2
  <2>2. PICK u \in Threads : b \in Pointers(u)
    BY ONLY <2>1 DEF Held
  <2>3. b \in Pointers(u)'
    BY ONLY <2>1, <2>2, <1>3
  <2> QED BY ONLY <2>3, u \in Threads DEF Held
<1>5. Owners' = AllOwned' \cup Held' \cup Later'
  <2>1. Owners' = ((AllOwned' \cup Held') \cup Frees') \cup pool'
    BY ONLY TRUE, Zenon DEF Owners, AllOwned, Held, Frees
  <2> QED BY ONLY <2>1 DEF Later
<1>6. \A u \in Threads : \A n \in Arenas \cap DOMAIN call'[u].pointer :
        call'[u].pointer[n] \in allocated' => call'[u].pointer[n] \in AllOwned'
  <2> SUFFICES ASSUME NEW u \in Threads, NEW n \in Arenas \cap DOMAIN call'[u].pointer,
                      call'[u].pointer[n] \in allocated'
               PROVE  call'[u].pointer[n] \in AllOwned'
    OBVIOUS
  <2>1. CASE u # t
    BY <2>1 DEF Kept
  <2>2. CASE u = t /\ n # name
    <3>1. n \in Arenas \cap DOMAIN call[t].pointer /\ call'[t].pointer[n] = call[t].pointer[n]
      BY <2>2, <1>1
    <3> QED BY <3>1, <2>2 DEF Kept
  <2>3. CASE u = t /\ n = name
    BY <2>3, <1>1
  <2> QED BY <2>1, <2>2, <2>3
<1> QED BY <1>4, <1>5, <1>6 DEF Kept

\* No block is allocated at first.
LEMMA KeptInitially == ASSUME Init PROVE Kept
<1>1. queue = <<>> /\ graph = <<>> /\ allocated = {} /\ \A t \in Threads : call[t].pointer = <<>>
  BY DEF Init, StreamInit, Idle
<1>2. IsSeq(<<>>)
  BY FreshNone DEF Fresh, Code
<1> QED BY <1>1, <1>2 DEF Kept

\* The pointers stay when the instructions change.
LEMMA TodoOnly ==
  ASSUME TypeOK, NEW t \in Threads, NEW x, call' = [call EXCEPT ![t].todo = x]
  PROVE  \A u \in Threads : call'[u].pointer = call[u].pointer
<1>1. DOMAIN call = Threads /\ DOMAIN call[t] = CallFields
  BY DEF TypeOK
<1> QED BY ONLY <1>1, t \in Threads, call' = [call EXCEPT ![t].todo = x] DEF CallFields

\* A step that frees and allocates nothing and drops no command.
LEMMA KeptQuiet ==
  ASSUME Kept, \A u \in Threads : call'[u].pointer = call[u].pointer,
         UNCHANGED <<context, allocated, pool>>, IsSeq(queue'), IsSeq(graph'),
         Range(queue) \subseteq Range(queue')
  PROVE  Kept'
<1>1. AllOwned' = AllOwned
  BY DEF AllOwned, Owned, Contexts
<1>2. Later \subseteq Later'
  BY DEF Later, Frees
<1>3. allocated' \subseteq Blocks
  BY DEF Kept
<1> QED BY <1>1, <1>2, <1>3, KeptSame

\* A command goes into the stream or into the graph, if there is one.
Streams ==
  \/ UNCHANGED <<queue, graph>>
  \/ \E e : queue' = Append(queue, e) /\ UNCHANGED graph
  \/ \E e : graph' = Append(graph, e) /\ UNCHANGED queue
\* What is in the stream stays there.
LEMMA StreamKept ==
  ASSUME Kept, Streams
  PROVE  IsSeq(queue') /\ IsSeq(graph') /\ Range(queue) \subseteq Range(queue')
<1>1. IsSeq(queue) /\ IsSeq(graph)
  BY DEF Kept
<1>2. CASE UNCHANGED <<queue, graph>>
  BY <1>1, <1>2
<1>3. ASSUME NEW e, queue' = Append(queue, e), UNCHANGED graph
      PROVE  IsSeq(queue') /\ IsSeq(graph') /\ Range(queue) \subseteq Range(queue')
  BY <1>1, <1>3, Appended
<1>4. ASSUME NEW e, graph' = Append(graph, e), UNCHANGED queue
      PROVE  IsSeq(queue') /\ IsSeq(graph') /\ Range(queue) \subseteq Range(queue')
  BY <1>1, <1>4, Appended
<1> QED BY <1>2, <1>3, <1>4 DEF Streams

\* What most instructions do.
LEMMA KeptCode ==
  ASSUME TypeOK, Kept, NEW t \in Threads,
         \/ fail(t) \/ Launch(t) \/ LaunchFails(t) \/ Synchronize(t) \/ Await(t)
         \/ ReserveWaits(t) \/ GrowFails(t) \/ RetireFails(t) \/ Guard(t) \/ gemm(t) \/ lt_gemm(t)
         \/ lt_unsupported(t)
  PROVE  Kept'
<1>1. \E x : call' = [call EXCEPT ![t].todo = x]
  <2>1. CASE fail(t) \/ RetireFails(t)
    BY <2>1, Zenon DEF fail, RetireFails, Throw
  <2>2. CASE Launch(t) \/ Synchronize(t) \/ Await(t) \/ ReserveWaits(t) \/ GrowFails(t)
    BY <2>2, Zenon DEF Launch, Synchronize, Await, ReserveWaits, GrowFails, Continue
  <2>3. CASE LaunchFails(t)
    <3>1. Throw(t) \/ call' = [call EXCEPT ![t].todo = Left(@)]
      BY <2>3, Zenon DEF LaunchFails
    <3> QED BY <3>1 DEF Throw
  <2>4. CASE Guard(t)
    <3>1. \E p : Continue(t, p)
      BY <2>4, Zenon DEF Guard
    <3> QED BY <3>1 DEF Continue
  <2>5. CASE gemm(t)
    <3>1. \E p : Continue(t, p)
      BY <2>5, Zenon DEF gemm
    <3> QED BY <3>1 DEF Continue
  <2>6. CASE lt_gemm(t)
    <3>1. \E p : Continue(t, p)
      BY <2>6, Zenon DEF lt_gemm
    <3> QED BY <3>1 DEF Continue
  <2>7. CASE lt_unsupported(t)
    BY <2>7, Zenon DEF lt_unsupported, Continue
  <2> QED BY <2>1, <2>2, <2>3, <2>4, <2>5, <2>6, <2>7
<1>2. \A u \in Threads : call'[u].pointer = call[u].pointer
  BY ONLY TypeOK, t \in Threads, <1>1, TodoOnly
<1>3. UNCHANGED <<context, allocated, pool>>
  BY DEF fail, Launch, LaunchFails, Synchronize, Await, ReserveWaits, GrowFails, RetireFails,
         Guard, gemm, lt_gemm, lt_unsupported, streamVars
<1>4. Streams
  <2>1. CASE Launch(t)
    <3>1. PICK e : Issue(e)
      BY <2>1, Zenon DEF Launch
    <3> QED BY ONLY <3>1 DEF Issue, Streams
  <2>2. CASE Synchronize(t)
    <3>1. UNCHANGED graph /\ (UNCHANGED queue \/ queue' = Append(queue, Fence(t)))
      BY <2>2 DEF Synchronize
    <3> QED BY ONLY <3>1, Zenon DEF Streams
  <2>3. CASE ~Launch(t) /\ ~Synchronize(t)
    <3>1. UNCHANGED <<queue, graph>>
      BY <2>3 DEF fail, LaunchFails, Await, ReserveWaits, GrowFails, RetireFails,
                  Guard, gemm, lt_gemm, lt_unsupported, streamVars
    <3> QED BY ONLY <3>1 DEF Streams
  <2> QED BY <2>1, <2>2, <2>3
<1>5. IsSeq(queue') /\ IsSeq(graph') /\ Range(queue) \subseteq Range(queue')
  BY ONLY Kept, <1>4, StreamKept
<1> QED BY ONLY Kept, <1>2, <1>3, <1>5, KeptQuiet

\* The call takes the address of the arena its context has.
LEMMA KeptReserve ==
  ASSUME Shape, Kept, NEW t \in Threads, ReserveKept(t) \/ ReserveCaptured(t)
  PROVE  Kept'
<1>1. TypeOK
  BY DEF Shape
<1>2. UNCHANGED <<queue, graph, pool, allocated>>
  BY DEF ReserveKept, ReserveCaptured, streamVars
<1>3. IsSeq(queue') /\ IsSeq(graph') /\ allocated' \subseteq Blocks
  BY <1>2 DEF Kept
<1>4. Later' = Later
  BY <1>2 DEF Later, Frees
<1>5. PICK c, x : c = call[t].context /\ x = MyContext(t)
  OBVIOUS
<1>6. Mode(t) /\ At(t, "reserve")
  BY DEF Shape, ReserveKept, ReserveCaptured
<1>7. Calling(t)
  BY <1>6, InACall DEF CodeDos, SafeDos
<1>8. c \in Contexts /\ x = context[c] /\ DOMAIN x = ContextFields
  BY <1>1, <1>5, <1>7, MyContextExists DEF MyContext
<1>9. x.scratch \in allocated => x.scratch \in AllOwned
  <2>1. 0 \notin allocated
    BY StreamAssumption DEF Kept
  <2> QED BY ONLY <2>1, <1>8 DEF AllOwned, Owned
<1>10. CASE UNCHANGED context /\ call'[t].pointer = call[t].pointer /\ \A u \in Threads \ {t} : call'[u] = call[u]
  <2>1. Range(queue) \subseteq Range(queue')
    BY <1>2
  <2> QED BY <2>1, <1>2, <1>3, <1>10, KeptQuiet
<1>11. ASSUME AllOwned \subseteq AllOwned', Binds(t, x.scratch), \A u \in Threads \ {t} : call'[u] = call[u]
       PROVE  Kept'
  <2>1. x.scratch \in allocated' => x.scratch \in AllOwned'
    BY <1>2, <1>9, <1>11
  <2>2. \A b \in allocated' : (b \in AllOwned => b \in AllOwned') /\ (b \in Later => b \in Later')
    BY <1>4, <1>11
  <2> QED BY <2>1, <2>2, <1>2, <1>3, <1>11, KeptBinds
<1>12. CASE ReserveKept(t)
  <2>1. Advances(t) /\ Binds(t, x.scratch)
    BY <1>5, <1>12, ReserveKeptAdvances
  <2>2. \A u \in Threads \ {t} : call'[u] = call[u]
    BY <2>1 DEF Advances, Moves
  <2>3. AllOwned' = AllOwned
    BY <1>12 DEF ReserveKept, AllOwned, Owned, Contexts
  <2> QED BY <2>1, <2>2, <2>3, <1>11
<1>13. CASE ReserveCaptured(t)
  <2>1. /\ Advances(t)
        /\ \/ UNCHANGED context /\ call'[t].pointer = call[t].pointer
           \/ /\ context' = [context EXCEPT ![c] = [x EXCEPT !.scratch_captured = TRUE]]
              /\ Binds(t, x.scratch)
    BY <1>5, <1>13, ReserveCapturedAdvances
  <2>2. \A u \in Threads \ {t} : call'[u] = call[u]
    BY <2>1 DEF Advances, Moves
  <2>3. CASE /\ context' = [context EXCEPT ![c] = [x EXCEPT !.scratch_captured = TRUE]]
             /\ Binds(t, x.scratch)
    <3>1. PICK y : y = [x EXCEPT !.scratch_captured = TRUE]
      OBVIOUS
    <3>2. Owned(context[c]) \ {} \subseteq Owned(y)
      BY ONLY <3>1, <1>8 DEF Owned, ContextFields
    <3>3. context' = [context EXCEPT ![c] = y]
      BY ONLY <2>3, <3>1
    <3>4. AllOwned \ {} \subseteq AllOwned'
      BY ONLY <1>1, <3>2, <3>3, OwnedOne
    <3> QED BY <3>4, <2>1, <2>2, <2>3, <1>11
  <2> QED BY <2>1, <2>2, <2>3, <1>10, <1>11
<1> QED BY <1>12, <1>13

\* A larger arena: the old one is released, or kept for the graphs (Released, Replaced).
LEMMA KeptGrow ==
  ASSUME Shape, Kept, NEW t \in Threads, Grow(t)
  PROVE  Kept'
<1>1. PICK c, x, block : c = call[t].context /\ x = MyContext(t) /\ block = Nth(Free(Held), 1)
  OBVIOUS
<1>2. PICK y : y = Replaced(x, block, Instruction(t).size)
  OBVIOUS
<1>3. /\ Advances(t) /\ Binds(t, block) /\ Calling(t) /\ context' = [context EXCEPT ![c] = y]
  BY <1>1, <1>2, GrowAdvances
<1>4. /\ Room(1) /\ allocated' = (allocated \ Released(x)) \cup {block}
      /\ UNCHANGED <<queue, graph, pool>>
  BY <1>1 DEF Grow
<1>5. TypeOK
  BY DEF Shape
<1>6. c \in Contexts /\ x = context[c] /\ DOMAIN x = ContextFields
  BY <1>1, <1>3, <1>5, MyContextExists DEF MyContext
<1>7. block \in Blocks /\ block # 0
  <2>1. 1 \in 1..1
    OBVIOUS
  <2> QED BY ONLY <2>1, <1>1, <1>4, FreeBlocks
<1>8. /\ y.scratch = block /\ y.lt_workspace = x.lt_workspace /\ y.guard = x.guard
      /\ y.host_guard = x.host_guard
      /\ y.retired_allocations = IF x.scratch_captured THEN x.retired_allocations \cup {x.scratch}
                                 ELSE x.retired_allocations
  BY ONLY <1>2, <1>6 DEF Replaced, ContextFields
<1>9. Owned(x) \ Released(x) \subseteq Owned(y) /\ block \in Owned(y)
  BY ONLY <1>7, <1>8 DEF Owned, Released
<1>10. AllOwned \ Released(x) \subseteq AllOwned' /\ Owned(y) \subseteq AllOwned'
  <2>1. PICK R : R = Released(x)
    OBVIOUS
  <2>2. c \in Contexts => Owned(context[c]) \ R \subseteq Owned(y)
    BY ONLY <2>1, <1>6, <1>9
  <2>3. AllOwned \ R \subseteq AllOwned' /\ (c \in Contexts => Owned(y) \subseteq AllOwned')
    BY ONLY <1>3, <1>5, <2>2, OwnedOne
  <2> QED BY ONLY <2>1, <2>3, <1>6
<1>11. block \in AllOwned'
  BY ONLY <1>9, <1>10
<1>12. \A u \in Threads \ {t} : call'[u] = call[u]
  BY <1>3 DEF Advances, Moves
<1>13. Later' = Later
  BY <1>4 DEF Later, Frees
<1>14. IsSeq(queue') /\ IsSeq(graph') /\ allocated' \subseteq Blocks
  BY <1>4, <1>7 DEF Kept
<1>15. allocated' \subseteq allocated \cup AllOwned'
  BY ONLY <1>4, <1>11
<1>16. \A b \in allocated' : (b \in AllOwned => b \in AllOwned') /\ (b \in Later => b \in Later')
  BY ONLY <1>4, <1>10, <1>11, <1>13
<1> QED BY ONLY Kept, t \in Threads, <1>3, <1>11, <1>12, <1>14, <1>15, <1>16, KeptBinds

\* A plan may take a larger workspace; the old one is retired (WiderWorkspace).
LEMMA KeptPlan ==
  ASSUME Shape, Kept, NEW t \in Threads, get_plan(t)
  PROVE  Kept'
<1>1. PICK c, x, block, key :
        c = call[t].context /\ x = MyContext(t) /\ block = Nth(Free(Held), 1) /\ key = MyKey(t)
  OBVIOUS
<1>2. PICK outcome : \E widened \in BOOLEAN :
        /\ context' = [context EXCEPT ![c] =
                         NewPlan(IF widened THEN WiderWorkspace(x, block) ELSE x, key, outcome)]
        /\ allocated' = IF widened THEN allocated \cup {block} ELSE allocated
        /\ widened => Room(1)
  BY <1>1, get_planAdvances, Zenon
<1>18. PICK widened \in BOOLEAN :
        /\ context' = [context EXCEPT ![c] =
                         NewPlan(IF widened THEN WiderWorkspace(x, block) ELSE x, key, outcome)]
        /\ allocated' = IF widened THEN allocated \cup {block} ELSE allocated
        /\ widened => Room(1)
  BY ONLY <1>2
<1>3. Calling(t) /\ UNCHANGED call
  BY get_planAdvances
<1>4. UNCHANGED <<queue, graph, pool>>
  BY DEF get_plan
<1>5. TypeOK
  BY DEF Shape
<1>6. c \in Contexts /\ x = context[c] /\ DOMAIN x = ContextFields
  BY <1>1, <1>3, <1>5, MyContextExists DEF MyContext
<1>7. widened => block \in Blocks /\ block # 0
  <2>1. 1 \in 1..1
    OBVIOUS
  <2> QED BY ONLY <2>1, <1>1, <1>18, FreeBlocks
<1>8. PICK w : w = IF widened THEN WiderWorkspace(x, block) ELSE x
  OBVIOUS
<1>9. /\ DOMAIN w = ContextFields /\ Owned(x) \subseteq Owned(w)
      /\ widened => block \in Owned(w)
  BY ONLY <1>6, <1>7, <1>8 DEF ContextFields, WiderWorkspace, Owned
<1>10. PICK y : y = NewPlan(w, key, outcome)
  OBVIOUS
<1>11. Owned(y) = Owned(w)
  BY ONLY <1>9, <1>10 DEF ContextFields, NewPlan, Owned
<1>12. context' = [context EXCEPT ![c] = y]
  BY ONLY <1>18, <1>8, <1>10
<1>13. AllOwned \subseteq AllOwned' /\ Owned(y) \subseteq AllOwned'
  <2>1. c \in Contexts => Owned(context[c]) \ {} \subseteq Owned(y)
    BY ONLY <1>6, <1>9, <1>11
  <2>2. AllOwned \ {} \subseteq AllOwned' /\ (c \in Contexts => Owned(y) \subseteq AllOwned')
    BY ONLY <1>5, <1>12, <2>1, OwnedOne
  <2> QED BY ONLY <2>2, <1>6
<1>14. Later' = Later
  BY <1>4 DEF Later, Frees
<1>15. IsSeq(queue') /\ IsSeq(graph') /\ allocated' \subseteq Blocks
  BY <1>18, <1>4, <1>7 DEF Kept
<1>16. allocated' \subseteq allocated \cup AllOwned'
  BY ONLY <1>18, <1>9, <1>11, <1>13
<1>17. \A b \in allocated' : (b \in AllOwned => b \in AllOwned') /\ (b \in Later => b \in Later')
  BY ONLY <1>13, <1>14
<1> QED BY ONLY Kept, <1>3, <1>15, <1>16, <1>17, KeptSame

\* The measurements of a plan allocate nothing.
LEMMA KeptTuned ==
  ASSUME Shape, Kept, NEW t \in Threads, Tuned(t)
  PROVE  Kept'
<1>1. PICK c, x : c = call[t].context /\ x = MyContext(t)
  OBVIOUS
<1>2. PICK plans : context' = [context EXCEPT ![c] = [x EXCEPT !.plans = plans]]
  BY <1>1, TunedAdvances, Zenon
<1>3. Advances(t) /\ call'[t].pointer = call[t].pointer /\ Calling(t)
  BY TunedAdvances
<1>4. UNCHANGED <<queue, graph, pool, allocated>>
  BY DEF Tuned, streamVars
<1>5. TypeOK
  BY DEF Shape
<1>6. c \in Contexts /\ x = context[c] /\ DOMAIN x = ContextFields
  BY <1>1, <1>3, <1>5, MyContextExists DEF MyContext
<1>7. PICK y : y = [x EXCEPT !.plans = plans]
  OBVIOUS
<1>8. Owned(y) = Owned(x)
  BY ONLY <1>6, <1>7 DEF ContextFields, Owned
<1>9. AllOwned \subseteq AllOwned'
  <2>1. c \in Contexts => Owned(context[c]) \ {} \subseteq Owned(y)
    BY ONLY <1>6, <1>8
  <2>2. AllOwned \ {} \subseteq AllOwned'
    BY ONLY <1>2, <1>5, <1>7, <2>1, OwnedOne
  <2> QED BY ONLY <2>2
<1>10. Later' = Later
  BY <1>4 DEF Later, Frees
<1>11. \A u \in Threads : call'[u].pointer = call[u].pointer
  BY <1>3 DEF Advances, Moves
<1>12. IsSeq(queue') /\ IsSeq(graph') /\ allocated' \subseteq Blocks
  BY <1>4 DEF Kept
<1> QED BY ONLY Kept, <1>4, <1>9, <1>10, <1>11, <1>12, KeptSame

\* What nobody allocates or frees in: the calls refused, the ends of threads.
LEMMA KeptOutside ==
  ASSUME Shape, Separate, Kept, NEW t \in Threads,
         \/ CreateFails(t) \/ RefuseCall(t) \/ RegisterFails(t) \/ EndThread(t) \/ EraseHandle(t)
         \/ DestroyOwn(t) \/ Destroy(t) \/ CloseAll(t) \/ ClearHandles(t)
  PROVE  Kept'
<1>1. UNCHANGED <<queue, graph, pool, allocated, context>>
  BY DEF CreateFails, RefuseCall, RegisterFails, EndThread, EraseHandle, DestroyOwn, Destroy,
         CloseAll, ClearHandles, streamVars, contextVars
<1>2. \A u \in Threads : call'[u].pointer = call[u].pointer
  <2>1. CASE CreateFails(t) \/ RefuseCall(t)
    BY <2>1 DEF CreateFails, RefuseCall, contextVars
  <2>2. CASE RegisterFails(t)
    <3>1. call[t].pointer = <<>>
      BY <2>2, RegisterFailsShape DEF Creating
    <3> QED BY <2>2, <3>1, RegisterFailsShape
  <2>3. CASE EndThread(t)
    <3>1. call[t].pointer = <<>>
      BY <2>3, EndShape DEF AtRest, Outside
    <3> QED BY <2>3, <3>1, EndShape
  <2>4. CASE EraseHandle(t)
    BY <2>4, EraseShape
  <2>5. CASE DestroyOwn(t)
    BY <2>5, DestroyOwnShape
  <2>6. CASE Destroy(t)
    BY <2>6, DestroyShape
  <2>7. CASE CloseAll(t)
    <3>1. call[t].pointer = <<>>
      BY <2>7, CloseShape DEF AtRest, Outside
    <3> QED BY <2>7, <3>1, CloseShape
  <2>8. CASE ClearHandles(t)
    BY <2>8, ClearShape
  <2> QED BY <2>1, <2>2, <2>3, <2>4, <2>5, <2>6, <2>7, <2>8
<1>3. IsSeq(queue') /\ IsSeq(graph') /\ Range(queue) \subseteq Range(queue')
  BY <1>1 DEF Kept
<1> QED BY ONLY Kept, <1>1, <1>2, <1>3, KeptQuiet

\* The device returns the blocks a command frees, and replays and drops graphs.
LEMMA KeptDevice ==
  ASSUME Kept, DeviceStep, UNCHANGED contextVars
  PROVE  Kept'
<1>1. /\ queue # <<>> /\ queue' = Tail(queue) /\ allocated' = allocated \ Head(queue).frees
      /\ UNCHANGED <<graph, pool, context, call>>
  BY DEF DeviceStep, contextVars
<1>2. IsSeq(queue) /\ IsSeq(graph) /\ allocated \subseteq Blocks
  BY DEF Kept
<1>3. IsSeq(queue')
  BY ONLY <1>1, <1>2, Rested
<1>4. Range(queue) \subseteq {Head(queue)} \cup Range(queue')
  BY ONLY <1>1, <1>2, FirstOrLater
<1>5. \A b \in allocated' : b \in Later => b \in Later'
  BY ONLY <1>1, <1>4 DEF Later, Frees
<1>6. AllOwned' = AllOwned
  BY <1>1 DEF AllOwned, Owned, Contexts
<1>7. \A u \in Threads : call'[u].pointer = call[u].pointer
  BY <1>1
<1> QED BY <1>1, <1>2, <1>3, <1>5, <1>6, <1>7, KeptSame

\* Captures and replays.
LEMMA KeptApplication ==
  ASSUME Kept, NEW t \in Threads, Application(t)
  PROVE  Kept'
<1>1. IsSeq(queue) /\ IsSeq(graph) /\ allocated \subseteq Blocks
  BY DEF Kept
<1>2. UNCHANGED <<context, call, allocated>>
  BY DEF Application, BeginCapture, EndCapture, Replay, DestroyGraph, contextVars
<1>3. AllOwned' = AllOwned
  BY <1>2 DEF AllOwned, Owned, Contexts
<1>4. \A u \in Threads : call'[u].pointer = call[u].pointer
  BY <1>2
<1>5. IsSeq(queue') /\ IsSeq(graph') /\ Later \subseteq Later'
  <2>1. CASE BeginCapture \/ EndCapture
    BY <2>1, <1>1 DEF BeginCapture, EndCapture, Later, Frees
  <2>2. CASE Replay
    <3>1. queue' = queue \o graph /\ UNCHANGED <<graph, pool>>
      BY <2>2 DEF Replay
    <3>2. IsSeq(queue') /\ Range(queue') = Range(queue) \cup Range(graph)
      BY ONLY <3>1, <1>1, Concatenated
    <3> QED BY <3>1, <3>2, <1>1 DEF Later, Frees
  <2>3. CASE DestroyGraph
    <3>1. PICK e : e = Command({}, {}, {}, pool)
      OBVIOUS
    <3>2. /\ queue' = (IF pool = {} THEN queue ELSE Append(queue, e))
          /\ graph' = <<>> /\ pool' = {}
      BY <2>3, <3>1 DEF DestroyGraph
    <3>3. e.frees = pool
      BY <3>1 DEF Command
    <3>4. IsSeq(Append(queue, e)) /\ Range(Append(queue, e)) = Range(queue) \cup {e}
      BY ONLY <1>1, Appended
    <3>5. IsSeq(<<>>)
      BY FreshNone DEF Fresh, Code
    <3>6. IsSeq(queue') /\ IsSeq(graph')
      BY ONLY <1>1, <3>2, <3>4, <3>5
    <3>7. Later \subseteq Later'
      <4>1. CASE pool = {}
        BY ONLY <4>1, <3>2 DEF Later, Frees
      <4>2. CASE pool # {}
        <5>1. Range(queue') = Range(queue) \cup {e}
          BY ONLY <4>2, <3>2, <3>4
        <5> QED BY ONLY <5>1, <3>3 DEF Later, Frees
      <4> QED BY ONLY <4>1, <4>2
    <3> QED BY ONLY <3>6, <3>7
  <2> QED BY <2>1, <2>2, <2>3 DEF Application
<1> QED BY ONLY Kept, <1>1, <1>2, <1>3, <1>4, <1>5, KeptSame

\* A context is released with all it has.
LEMMA KeptRelease ==
  ASSUME Shape, Kept, NEW t \in Threads, Release(t)
  PROVE  Kept'
<1>1. PICK c, x : c = Instruction(t).context /\ x = [Unused EXCEPT !.state = "destroyed"]
  OBVIOUS
<1>2. /\ context' = [context EXCEPT ![c] = x] /\ allocated' = allocated \ Owned(context[c])
      /\ UNCHANGED <<queue, graph, pool>>
  BY <1>1 DEF Release, FreeContext
<1>3. AllOwned \ Owned(context[c]) \subseteq AllOwned'
  <2>1. TypeOK
    BY DEF Shape
  <2>2. PICK R : R = Owned(context[c])
    OBVIOUS
  <2>3. c \in Contexts => Owned(context[c]) \ R \subseteq Owned(x)
    BY ONLY <2>2
  <2> QED BY ONLY <2>1, <2>2, <2>3, <1>2, OwnedOne
<1>4. Later' = Later
  BY <1>2 DEF Later, Frees
<1>5. \A u \in Threads : call'[u].pointer = call[u].pointer
  BY ReleaseShape
<1>6. IsSeq(queue') /\ IsSeq(graph') /\ allocated' \subseteq Blocks
  BY <1>2 DEF Kept
<1>7. \A b \in allocated' : (b \in AllOwned => b \in AllOwned') /\ (b \in Later => b \in Later')
  BY ONLY <1>2, <1>3, <1>4
<1> QED BY ONLY Kept, <1>2, <1>5, <1>6, <1>7, KeptSame

\* A context is created with the blocks it has from the start.
LEMMA KeptCreate ==
  ASSUME Shape, Untouched, Kept, NEW t \in Threads, CreateContext(t)
  PROVE  Kept'
<1>1. PICK n, x : n = NewContext /\ x = Created(NextCall(t).algorithm, Free(Held))
  OBVIOUS
<1>2. /\ n \in Contexts /\ context[n].state = "unused" /\ AtRest(t)
      /\ call'[t].pointer = <<>> /\ \A u \in Threads \ {t} : call'[u] = call[u]
      /\ context' = [context EXCEPT ![n] = x]
  BY <1>1, CreateShape
<1>3. Room(3) /\ allocated' = allocated \cup Owned(x) /\ UNCHANGED <<queue, graph, pool>>
  BY <1>1 DEF CreateContext, camblas_cuda_create
<1>4. Owned(x) \subseteq Blocks
  <2>1. 1 \in 1..3 /\ 2 \in 1..3 /\ 3 \in 1..3
    OBVIOUS
  <2>2. PICK F : F = Free(Held)
    OBVIOUS
  <2>3. Nth(F, 1) \in Blocks /\ Nth(F, 2) \in Blocks /\ Nth(F, 3) \in Blocks
    BY ONLY <2>1, <2>2, <1>3, FreeBlocks
  <2>4. PICK p, q, r : p = Nth(F, 1) /\ q = Nth(F, 2) /\ r = Nth(F, 3)
    OBVIOUS
  <2>5. x = [Unused EXCEPT !.state = "live", !.algorithm = NextCall(t).algorithm,
                           !.lt_workspace = p, !.guard = q, !.host_guard = r]
    BY ONLY <1>1, <2>2, <2>4 DEF Created
  <2>6. /\ x.scratch = 0 /\ x.lt_workspace = p /\ x.guard = q /\ x.host_guard = r
        /\ x.retired_allocations = {}
    BY ONLY <2>5 DEF Unused
  <2> QED BY ONLY <2>3, <2>4, <2>6 DEF Owned
<1>5. AllOwned \subseteq AllOwned' /\ Owned(x) \subseteq AllOwned'
  <2>1. TypeOK
    BY DEF Shape
  <2>2. Owned(context[n]) = {}
    BY <1>2 DEF Untouched
  <2>3. n \in Contexts => Owned(context[n]) \ {} \subseteq Owned(x)
    BY ONLY <2>2
  <2>4. AllOwned \ {} \subseteq AllOwned' /\ (n \in Contexts => Owned(x) \subseteq AllOwned')
    BY ONLY <2>1, <2>3, <1>2, OwnedOne
  <2> QED BY ONLY <2>4, <1>2
<1>6. \A u \in Threads : call'[u].pointer = call[u].pointer
  BY <1>2 DEF AtRest, Outside
<1>7. Later' = Later
  BY <1>3 DEF Later, Frees
<1>8. IsSeq(queue') /\ IsSeq(graph') /\ allocated' \subseteq Blocks
  BY <1>3, <1>4 DEF Kept
<1>9. allocated' \subseteq allocated \cup AllOwned'
  BY ONLY <1>3, <1>5
<1>10. \A b \in allocated' : (b \in AllOwned => b \in AllOwned') /\ (b \in Later => b \in Later')
  BY ONLY <1>5, <1>7
<1> QED BY ONLY Kept, <1>6, <1>8, <1>9, <1>10, KeptSame

\* A call begins with blocks that were free (Tensors).
LEMMA TensorsFree ==
  ASSUME TypeOK, NEW t \in Threads, script[t] # <<>>, Head(script[t]).do = "call",
         Room(Len(NextCall(t).tensors))
  PROVE  /\ Range(Tensors(t, Free(Held))) \subseteq Blocks \ (allocated \cup Held)
         /\ DOMAIN Tensors(t, Free(Held)) \cap Arenas = {}
<1>1. PICK F, names : F = Free(Held) /\ names = NextCall(t).tensors
  OBVIOUS
<1>2. names \in Seq(Range(names)) /\ \A n \in Range(names) : n \notin Arenas
  <2>1. IsTurn(Head(script[t]))
    BY ONLY TypeOK, t \in Threads, script[t] # <<>>, NextTurn
  <2>2. IsProgram(names, LAMBDA name : name \notin Arenas)
    BY <2>1, <1>1 DEF IsTurn, NextCall
  <2> QED BY ONLY <2>2 DEF IsProgram
<1>3. DOMAIN names = 1..Len(names)
  BY ONLY <1>2
<1>4. PICK T : T = Tensors(t, F)
  OBVIOUS
<1>5. T = [name \in Range(names) |-> Nth(F, CHOOSE i \in DOMAIN names : names[i] = name)]
  BY ONLY <1>1, <1>4 DEF Tensors
<1>6. ASSUME NEW name \in Range(names)
      PROVE  T[name] \in Blocks \ (allocated \cup Held)
  <2>1. PICK i : i = CHOOSE j \in DOMAIN names : names[j] = name
    OBVIOUS
  <2>2. \E j \in DOMAIN names : names[j] = name
    BY ONLY name \in Range(names) DEF Range
  <2>3. i \in DOMAIN names
    BY ONLY <2>1, <2>2, Zenon
  <2>4. i \in 1..Len(names)
    BY ONLY <2>3, <1>3
  <2>5. Nth(F, i) \in Blocks \ (allocated \cup Held)
    <3>1. Room(Len(names))
      BY <1>1
    <3> QED BY ONLY <3>1, <2>4, <1>1, FreeBlocks
  <2>6. T[name] = Nth(F, i)
    BY ONLY <2>1, <1>5, name \in Range(names)
  <2> QED BY ONLY <2>5, <2>6
<1>7. DOMAIN T = Range(names)
  BY ONLY <1>5
<1>8. Range(T) \subseteq Blocks \ (allocated \cup Held)
  BY ONLY <1>6, <1>7 DEF Range
<1> QED BY ONLY <1>1, <1>2, <1>4, <1>7, <1>8

\* The tensors of a call are blocks of the call.
LEMMA KeptEnter ==
  ASSUME TypeOK, Kept, NEW t \in Threads, NEW c, script[t] # <<>>, Head(script[t]).do = "call",
         call[t].pointer = <<>>, \A u \in Threads \ {t} : call'[u] = call[u],
         call'[t].pointer = Tensors(t, Free(Held)), Enter(t, c),
         UNCHANGED <<queue, graph, pool>>, AllOwned' = AllOwned
  PROVE  Kept'
<1>1. PICK T : T = Tensors(t, Free(Held))
  OBVIOUS
<1>2. Room(Len(NextCall(t).tensors)) /\ allocated' = allocated \cup Range(T)
  BY <1>1 DEF Enter
<1>3. Range(T) \subseteq Blocks \ (allocated \cup Held) /\ DOMAIN T \cap Arenas = {}
  BY ONLY TypeOK, t \in Threads, script[t] # <<>>, Head(script[t]).do = "call", <1>1, <1>2, TensorsFree
<1>4. call'[t].pointer = T
  BY <1>1
<1>5. Pointers(t)' = Range(T) /\ Pointers(t) = {}
  BY <1>4 DEF Pointers, Range
<1>6. \A u \in Threads \ {t} : Pointers(u)' = Pointers(u)
  BY DEF Pointers
<1>7. allocated \subseteq AllOwned \cup Held \cup Later
  <2>1. Owners = ((AllOwned \cup Held) \cup Frees) \cup pool
    BY ONLY TRUE, Zenon DEF Owners, AllOwned, Held, Frees
  <2>2. allocated \subseteq Owners
    BY ONLY Kept DEF Kept
  <2> QED BY ONLY <2>1, <2>2 DEF Later
<1>8. Later' = Later
  BY DEF Later, Frees
<1>9. Held \subseteq Held' /\ Range(T) \subseteq Held'
  <2>1. \A u \in Threads : Pointers(u) \subseteq Pointers(u)'
    BY ONLY <1>5, <1>6
  <2> QED BY ONLY <2>1, <1>5, t \in Threads DEF Held
<1>10. allocated' \subseteq AllOwned' \cup Held' \cup Later'
  BY <1>2, <1>7, <1>8, <1>9
<1>11. Owners' = AllOwned' \cup Held' \cup Later'
  <2>1. Owners' = ((AllOwned' \cup Held') \cup Frees') \cup pool'
    BY ONLY TRUE, Zenon DEF Owners, AllOwned, Held, Frees
  <2> QED BY ONLY <2>1 DEF Later
<1>12. \A u \in Threads : \A n \in Arenas \cap DOMAIN call'[u].pointer :
         call'[u].pointer[n] \in allocated' => call'[u].pointer[n] \in AllOwned'
  <2> SUFFICES ASSUME NEW u \in Threads, NEW n \in Arenas \cap DOMAIN call'[u].pointer,
                      call'[u].pointer[n] \in allocated'
               PROVE  call'[u].pointer[n] \in AllOwned'
    OBVIOUS
  <2>1. u # t
    BY <1>3, <1>4
  <2>2. call'[u] = call[u]
    BY <2>1
  <2>3. call[u].pointer[n] \in Held
    <3>1. call[u].pointer[n] \in Pointers(u)
      BY <2>2 DEF Pointers
    <3> QED BY ONLY <3>1, u \in Threads DEF Held
  <2>4. call[u].pointer[n] \in allocated
    BY <2>2, <2>3, <1>2, <1>3
  <2> QED BY <2>2, <2>4 DEF Kept
<1>13. IsSeq(queue') /\ IsSeq(graph') /\ allocated' \subseteq Blocks
  BY <1>2, <1>3 DEF Kept
<1> QED BY <1>10, <1>11, <1>12, <1>13 DEF Kept

\* get_context finds a context.
LEMMA KeptGetContext ==
  ASSUME Shape, Separate, Kept, NEW t \in Threads, GetContext(t)
  PROVE  Kept'
<1>1. PICK c : c = MyHandle(t)
  OBVIOUS
<1>2. /\ TypeOK /\ AtRest(t) /\ \A u \in Threads \ {t} : call'[u] = call[u]
      /\ call'[t].pointer = Tensors(t, Free(Held))
  BY GetContextShape DEF Shape
<1>3. /\ script[t] # <<>> /\ Head(script[t]).do = "call" /\ Enter(t, c)
      /\ context' = [context EXCEPT ![c].algorithm = NextCall(t).algorithm]
      /\ UNCHANGED <<queue, graph, pool>>
  BY <1>1 DEF GetContext, MayCall, Does
<1>4. AllOwned' = AllOwned
  <2>1. \A d \in Contexts : Owned(context'[d]) = Owned(context[d])
    <3>1. DOMAIN context = Contexts /\ \A d \in Contexts : DOMAIN context[d] = ContextFields
      BY <1>2 DEF TypeOK
    <3>2. PICK x, a : a = NextCall(t).algorithm /\ x = [context[c] EXCEPT !.algorithm = a]
      OBVIOUS
    <3>3. context' = [context EXCEPT ![c] = x]
      BY ONLY <1>3, <3>2
    <3>4. c \in Contexts => Owned(x) = Owned(context[c])
      BY ONLY <3>1, <3>2 DEF Owned, ContextFields
    <3> QED BY ONLY <3>1, <3>3, <3>4
  <2>2. AllOwned' = UNION {Owned(context'[d]) : d \in Contexts}
    BY DEF AllOwned, Contexts, Owned
  <2> QED BY ONLY <2>1, <2>2 DEF AllOwned
<1>5. call[t].pointer = <<>>
  BY <1>2 DEF AtRest, Outside
<1> QED BY ONLY Kept, t \in Threads, <1>2, <1>3, <1>4, <1>5, KeptEnter

\* Handle::Handle registers one.
LEMMA KeptRegister ==
  ASSUME Shape, Kept, NEW t \in Threads, Register(t)
  PROVE  Kept'
<1>1. PICK c : c = Instruction(t).context
  OBVIOUS
<1>2. /\ TypeOK /\ Creating(t) /\ \A u \in Threads \ {t} : call'[u] = call[u]
      /\ call'[t].pointer = Tensors(t, Free(Held))
  BY RegisterShape DEF Shape
<1>3. Enter(t, c) /\ UNCHANGED <<queue, graph, pool, context>>
  BY <1>1 DEF Register
<1>4. AllOwned' = AllOwned
  BY <1>3 DEF AllOwned, Owned, Contexts
<1>5. call[t].pointer = <<>> /\ script[t] # <<>> /\ Head(script[t]).do = "call"
  BY <1>2 DEF Creating
<1> QED BY ONLY Kept, t \in Threads, <1>2, <1>3, <1>4, <1>5, KeptEnter

\* A call ends: its tensors go back at once, in stream order, or with the graph.
LEMMA KeptReturn ==
  ASSUME Shape, Kept, NEW t \in Threads, ReturnDevice(t) \/ ReturnHost(t)
  PROVE  Kept'
<1>1. call'[t].pointer = <<>> /\ \A u \in Threads \ {t} : call'[u] = call[u]
  BY ReturnShape DEF Idle
<1>2. UNCHANGED <<context>> /\ allocated' \subseteq allocated
  BY DEF ReturnDevice, ReturnHost
<1>3. AllOwned' = AllOwned
  BY <1>2 DEF AllOwned, Owned, Contexts
<1>4. MyTensors(t) = Pointers(t) \cap (allocated \ AllOwned)
  BY DEF MyTensors, AllOwned
<1>5. IsSeq(queue) /\ IsSeq(graph) /\ allocated \subseteq Blocks
  BY DEF Kept
<1>6. /\ IsSeq(queue') /\ IsSeq(graph') /\ Later \subseteq Later'
      /\ allocated' \cap MyTensors(t) \subseteq Later'
  <2>1. CASE ReturnHost(t)
    BY <2>1, <1>5 DEF ReturnHost, Later, Frees
  <2>2. CASE ReturnDevice(t)
    <3>1. PICK M, e : /\ M = MyTensors(t)
                      /\ e = Command(Resolved(t, Instruction(t).reads), {}, {},
                                     IF Capturing THEN {} ELSE M)
      OBVIOUS
    <3>2. Issue(e) /\ pool' = (IF Capturing THEN pool \cup M ELSE pool)
      BY <2>2, <3>1, Zenon DEF ReturnDevice
    <3>3. e.frees = IF Capturing THEN {} ELSE M
      BY ONLY <3>1 DEF Command
    <3>4. CASE Capturing
      <4>1. queue' = queue /\ graph' = Append(graph, e) /\ pool' = pool \cup M
        BY ONLY <3>2, <3>4 DEF Issue
      <4>2. IsSeq(graph')
        BY ONLY <4>1, <1>5, Appended
      <4> QED BY <4>1, <4>2, <1>5, <3>1 DEF Later, Frees
    <3>5. CASE ~Capturing
      <4>1. queue' = Append(queue, e) /\ graph' = graph /\ pool' = pool
        BY ONLY <3>2, <3>5 DEF Issue
      <4>2. IsSeq(queue') /\ Range(queue') = Range(queue) \cup {e}
        BY ONLY <4>1, <1>5, Appended
      <4>3. e.frees = M
        BY ONLY <3>3, <3>5
      <4> QED BY <4>1, <4>2, <4>3, <1>5, <3>1 DEF Later, Frees
    <3> QED BY ONLY <3>4, <3>5
  <2> QED BY <2>1, <2>2
<1>7. allocated \subseteq AllOwned \cup Held \cup Later
  <2>1. Owners = ((AllOwned \cup Held) \cup Frees) \cup pool
    BY ONLY TRUE, Zenon DEF Owners, AllOwned, Held, Frees
  <2>2. allocated \subseteq Owners
    BY ONLY Kept DEF Kept
  <2> QED BY ONLY <2>1, <2>2 DEF Later
<1>8. \A u \in Threads \ {t} : Pointers(u)' = Pointers(u)
  BY <1>1 DEF Pointers
<1>9. allocated' \subseteq AllOwned' \cup Held' \cup Later'
  <2> SUFFICES ASSUME NEW b \in allocated', b \notin AllOwned', b \notin Later' PROVE b \in Held'
    OBVIOUS
  <2>1. b \in allocated /\ b \notin AllOwned /\ b \in Held
    BY <1>2, <1>3, <1>6, <1>7
  <2>2. PICK u \in Threads : b \in Pointers(u)
    BY ONLY <2>1 DEF Held
  <2>3. u # t
    BY <2>1, <2>2, <1>4, <1>6
  <2>4. b \in Pointers(u)'
    BY ONLY <2>2, <2>3, <1>8, u \in Threads
  <2> QED BY ONLY <2>4, u \in Threads DEF Held
<1>10. Owners' = AllOwned' \cup Held' \cup Later'
  <2>1. Owners' = ((AllOwned' \cup Held') \cup Frees') \cup pool'
    BY ONLY TRUE, Zenon DEF Owners, AllOwned, Held, Frees
  <2> QED BY ONLY <2>1 DEF Later
<1>11. \A u \in Threads : \A n \in Arenas \cap DOMAIN call'[u].pointer :
         call'[u].pointer[n] \in allocated' => call'[u].pointer[n] \in AllOwned'
  <2> SUFFICES ASSUME NEW u \in Threads, NEW n \in Arenas \cap DOMAIN call'[u].pointer,
                      call'[u].pointer[n] \in allocated'
               PROVE  call'[u].pointer[n] \in AllOwned'
    OBVIOUS
  <2>1. u # t
    BY <1>1 DEF Arenas
  <2>2. call'[u] = call[u]
    BY <2>1, <1>1
  <2> QED BY <2>2, <1>2, <1>3 DEF Kept
<1> QED BY <1>2, <1>5, <1>6, <1>9, <1>10, <1>11 DEF Kept

-----------------------------------------------------------------------------
(* What has not been created (Untouched).                                   *)
LEMMA UntouchedOne ==
  ASSUME TypeOK, Untouched, NEW c, NEW x, context' = [context EXCEPT ![c] = x],
         c \in Contexts => x.state # "unused"
  PROVE  Untouched'
<1>1. DOMAIN context = Contexts
  BY DEF TypeOK
<1>2. \A d \in Contexts : \/ d # c /\ context'[d] = context[d]
                          \/ d = c /\ context'[d] = x
  BY ONLY <1>1, context' = [context EXCEPT ![c] = x]
<1>3. \A d \in Contexts : context'[d].state = "unused" => Owned(context'[d]) = {}
  <2> SUFFICES ASSUME NEW d \in Contexts, context'[d].state = "unused" PROVE Owned(context'[d]) = {}
    OBVIOUS
  <2>1. context'[d] = context[d] /\ context[d].state = "unused"
    BY <1>2
  <2> QED BY <2>1 DEF Untouched
<1> QED BY <1>3 DEF Untouched, Contexts, Owned

\* Steps that change no context.
LEMMA UntouchedSame == ASSUME Untouched, UNCHANGED context PROVE Untouched'
  BY DEF Untouched, Contexts, Owned

\* A call changes its own context only.
LEMMA UntouchedCall ==
  ASSUME TypeOK, Separate, Untouched, NEW c \in registry, NEW x, KeepsStates,
         context' = [context EXCEPT ![c] = x]
  PROVE  Untouched'
<1>1. c \in Contexts /\ context[c].state = "live"
  BY DEF Separate, LiveContexts
<1>2. context'[c] = x /\ context'[c].state = context[c].state
  <2>1. DOMAIN context = Contexts
    BY DEF TypeOK
  <2> QED BY <2>1, <1>1 DEF KeepsStates
<1>3. x.state # "unused"
  BY <1>1, <1>2
<1> QED BY ONLY TypeOK, Untouched, <1>3, context' = [context EXCEPT ![c] = x], UntouchedOne

-----------------------------------------------------------------------------
(* The invariant holds and is kept.                                         *)
\* An instruction that is not a wait is met in a call.
LEMMA StepInCall ==
  ASSUME Shape, NEW t \in Threads, ContextStep(t)
  PROVE  \/ Calling(t)
         \/ Leaving(t) /\ (Synchronize(t) \/ Await(t))
<1>1. Mode(t)
  BY DEF Shape
<1>2. CASE Synchronize(t) \/ Await(t)
  <2>1. At(t, "synchronize") \/ At(t, "await")
    BY <1>2 DEF Synchronize, Await
  <2> QED BY <1>1, <1>2, <2>1, InAWait
<1>3. CASE ~(Synchronize(t) \/ Await(t))
  <2>1. \/ At(t, "fail") \/ At(t, "launch") \/ At(t, "reserve") \/ At(t, "grow") \/ At(t, "guard")
        \/ At(t, "gemm") \/ At(t, "lt") \/ At(t, "tuned")
    BY <1>3 DEF ContextStep, fail, Launch, LaunchFails, ReserveCaptured, ReserveKept, ReserveWaits,
                Grow, GrowFails, RetireFails, Guard, gemm, get_plan, lt_gemm, lt_unsupported, Tuned
  <2>2. PICK what \in {"fail", "launch", "reserve", "grow", "guard", "gemm", "lt", "tuned"} :
          At(t, what)
    BY ONLY <2>1
  <2>3. what \in (CodeDos \cup {"return"}) \ {"synchronize", "await"}
    BY ONLY what \in {"fail", "launch", "reserve", "grow", "guard", "gemm", "lt", "tuned"}
       DEF CodeDos, SafeDos
  <2> QED BY ONLY <1>1, <2>2, <2>3, InACall
<1> QED BY <1>2, <1>3

\* Every instruction of a call advances it.
LEMMA StepAdvances ==
  ASSUME Shape, NEW t \in Threads, Calling(t), ContextStep(t)
  PROVE  Advances(t)
<1>1. CASE fail(t) \/ Launch(t) \/ LaunchFails(t)
  BY <1>1, FailAdvances, LaunchAdvances, LaunchFailsAdvances
<1>2. CASE Synchronize(t) \/ Await(t)
  BY <1>2, WaitAdvances
<1>3. CASE ReserveCaptured(t) \/ ReserveKept(t) \/ ReserveWaits(t)
  BY <1>3, ReserveCapturedAdvances, ReserveKeptAdvances, ReserveWaitsAdvances
<1>4. CASE Grow(t)
  BY <1>4, GrowAdvances
<1>5. CASE GrowFails(t) \/ RetireFails(t)
  BY <1>5, GrowFailsAdvances, RetireFailsAdvances
<1>6. CASE Guard(t) \/ gemm(t) \/ lt_gemm(t) \/ lt_unsupported(t)
  BY <1>6, GuardAdvances, gemmAdvances, lt_gemmAdvances, lt_unsupportedAdvances
<1>7. CASE get_plan(t)
  BY <1>7, get_planAdvances
<1>8. CASE Tuned(t)
  BY <1>8, TunedAdvances
<1> QED BY <1>1, <1>2, <1>3, <1>4, <1>5, <1>6, <1>7, <1>8 DEF ContextStep

\* No instruction of a call makes a context out of what was never created.
LEMMA StepUntouched ==
  ASSUME Shape, Separate, Untouched, NEW t \in Threads, ContextStep(t)
  PROVE  Untouched'
<1>1. CASE UNCHANGED context
  BY <1>1, UntouchedSame
<1>2. CASE Calling(t) /\ KeepsStates /\ \E x : context' = [context EXCEPT ![call[t].context] = x]
  <2>1. PICK x : context' = [context EXCEPT ![call[t].context] = x]
    BY <1>2
  <2>2. TypeOK /\ call[t].context \in registry
    BY <1>2 DEF Shape, Calling
  <2> QED BY ONLY <2>1, <2>2, <1>2, Separate, Untouched, UntouchedCall
<1>3. CASE ReserveCaptured(t)
  <2>1. KeepsStates /\ (UNCHANGED context \/ \E x : context' = [context EXCEPT ![call[t].context] = x])
    BY <1>3, ReserveCapturedAdvances, Zenon DEF Advances
  <2>2. Calling(t)
    <3>1. ContextStep(t) /\ ~Synchronize(t) /\ ~Await(t)
      BY <1>3 DEF ReserveCaptured, Synchronize, Await, At
    <3> QED BY ONLY Shape, t \in Threads, <3>1, StepInCall
  <2> QED BY <2>1, <2>2, <1>1, <1>2
<1>4. CASE Grow(t)
  <2>1. Calling(t) /\ KeepsStates /\ \E x : context' = [context EXCEPT ![call[t].context] = x]
    BY <1>4, GrowAdvances, Zenon DEF Advances
  <2> QED BY <2>1, <1>2
<1>5. CASE get_plan(t)
  <2>1. Calling(t) /\ KeepsStates /\ \E x : context' = [context EXCEPT ![call[t].context] = x]
    BY <1>5, get_planAdvances, Zenon DEF Advances
  <2> QED BY <2>1, <1>2
<1>6. CASE Tuned(t)
  <2>1. Calling(t) /\ KeepsStates /\ \E x : context' = [context EXCEPT ![call[t].context] = x]
    BY <1>6, TunedAdvances, Zenon DEF Advances
  <2> QED BY <2>1, <1>2
<1>7. CASE ~(ReserveCaptured(t) \/ Grow(t) \/ get_plan(t) \/ Tuned(t))
  <2>1. UNCHANGED context
    BY <1>7 DEF ContextStep, fail, Launch, LaunchFails, Synchronize, Await, ReserveKept,
                ReserveWaits, GrowFails, RetireFails, Guard, gemm, lt_gemm, lt_unsupported
  <2> QED BY <2>1, <1>1
<1> QED BY <1>3, <1>4, <1>5, <1>6, <1>7

\* Every instruction of a call keeps the owners of the blocks.
LEMMA StepKept ==
  ASSUME Shape, Kept, NEW t \in Threads, ContextStep(t)
  PROVE  Kept'
<1>1. CASE ReserveCaptured(t) \/ ReserveKept(t)
  BY <1>1, KeptReserve
<1>2. CASE Grow(t)
  BY <1>2, KeptGrow
<1>3. CASE get_plan(t)
  BY <1>3, KeptPlan
<1>4. CASE Tuned(t)
  BY <1>4, KeptTuned
<1>5. CASE ~(ReserveCaptured(t) \/ ReserveKept(t) \/ Grow(t) \/ get_plan(t) \/ Tuned(t))
  <2>1. \/ fail(t) \/ Launch(t) \/ LaunchFails(t) \/ Synchronize(t) \/ Await(t)
        \/ ReserveWaits(t) \/ GrowFails(t) \/ RetireFails(t) \/ Guard(t) \/ gemm(t) \/ lt_gemm(t)
        \/ lt_unsupported(t)
    BY <1>5 DEF ContextStep
  <2>2. TypeOK
    BY DEF Shape
  <2> QED BY ONLY <2>1, <2>2, Kept, t \in Threads, KeptCode
<1> QED BY <1>1, <1>2, <1>3, <1>4, <1>5

\* The instructions of calls and the waits of destructions.
LEMMA StepHolds ==
  ASSUME IInv, NEW t \in Threads, ContextStep(t), UNCHANGED bindingVars
  PROVE  IInv'
<1>1. Shape /\ Separate /\ Untouched /\ Kept
  BY DEF IInv
<1>2. Untouched' /\ Kept'
  BY ONLY <1>1, t \in Threads, ContextStep(t), StepUntouched, StepKept
<1>3. CASE Calling(t)
  <2>1. Advances(t)
    BY ONLY <1>1, <1>3, t \in Threads, ContextStep(t), StepAdvances
  <2>2. Shape' /\ Calling(t)'
    BY ONLY <1>1, <1>3, <2>1, t \in Threads, UNCHANGED bindingVars, AdvancesKeepsShape
  <2>3. KeepsStates /\ (\A u \in Threads \ {t} : call'[u] = call[u]) /\ UNCHANGED <<handle, registry>>
    BY <2>1 DEF Advances, Moves, bindingVars
  <2>4. Separate'
    BY ONLY <1>1, <1>3, <2>2, <2>3, t \in Threads, SeparateCalling
  <2> QED BY <2>2, <2>4, <1>2 DEF IInv
<1>4. CASE Leaving(t) /\ (Synchronize(t) \/ Await(t))
  <2>1. Shape'
    BY ONLY <1>1, <1>4, t \in Threads, UNCHANGED bindingVars, WaitShape
  <2>2. Separate'
    BY ONLY <1>1, <1>4, t \in Threads, UNCHANGED bindingVars, SeparateWait
  <2> QED BY <2>1, <2>2, <1>2 DEF IInv
<1> QED BY ONLY <1>1, <1>3, <1>4, t \in Threads, ContextStep(t), StepInCall

-----------------------------------------------------------------------------
(* Every other step keeps the invariant.                                    *)

\* Kernels run, a graph is captured or replayed, and calls that are refused.
LEMMA DeviceHolds == ASSUME IInv, Device PROVE IInv'
<1>1. Shape /\ Separate /\ Untouched /\ Kept
  BY DEF IInv
<1>2. DeviceStep /\ UNCHANGED <<contextVars, bindingVars>> /\ UNCHANGED capture
  BY DEF Device, DeviceStep
<1>3. UNCHANGED <<context, call, handle, registry>>
  BY <1>2 DEF contextVars, bindingVars
<1>4. Shape'
  BY ONLY <1>1, <1>2, ShapeSame
<1>5. Separate' /\ Untouched'
  BY ONLY <1>1, <1>3, SeparateSame, UntouchedSame
<1>6. Kept'
  BY ONLY <1>1, <1>2, KeptDevice
<1> QED BY <1>4, <1>5, <1>6 DEF IInv

\* Steps with the graph.
LEMMA ApplicationHolds == ASSUME IInv, NEW t \in Threads, Application(t) PROVE IInv'
<1>1. Shape /\ Separate /\ Untouched /\ Kept
  BY DEF IInv
<1>2. UNCHANGED <<context, call, handle, registry>>
  BY DEF Application, contextVars
<1>3. Shape' /\ Kept'
  BY ONLY <1>1, t \in Threads, Application(t), ApplicationShape, KeptApplication
<1>4. Separate' /\ Untouched'
  BY ONLY <1>1, <1>2, SeparateSame, UntouchedSame
<1> QED BY <1>3, <1>4 DEF IInv

\* Calls that are refused or whose context cannot be made.
LEMMA RefusalHolds ==
  ASSUME IInv, NEW t \in Threads, CreateFails(t) \/ RefuseCall(t)
  PROVE  IInv'
<1>1. Shape /\ Separate /\ Untouched /\ Kept
  BY DEF IInv
<1>2. /\ Does(t, "call") /\ Turn(t)
      /\ UNCHANGED <<context, call, handle, registry, calls, ended, capture>>
  BY DEF CreateFails, RefuseCall, MayCall, contextVars, streamVars
<1>3. Shape'
  BY ONLY <1>1, <1>2, t \in Threads, SkipShape
<1>4. Separate' /\ Untouched'
  BY ONLY <1>1, <1>2, SeparateSame, UntouchedSame
<1>5. Kept'
  BY ONLY <1>1, t \in Threads, CreateFails(t) \/ RefuseCall(t), KeptOutside
<1> QED BY <1>3, <1>4, <1>5 DEF IInv

\* get_context finds a context.
LEMMA GetContextHolds == ASSUME IInv, NEW t \in Threads, GetContext(t) PROVE IInv'
<1>1. Shape /\ Separate /\ Untouched /\ Kept
  BY DEF IInv
<1>2. /\ Shape' /\ Calling(t)' /\ AtRest(t) /\ \A u \in Threads \ {t} : call'[u] = call[u]
      /\ KeepsStates /\ UNCHANGED <<handle, registry>>
  BY ONLY <1>1, t \in Threads, GetContext(t), GetContextShape
<1>3. Separate'
  BY ONLY <1>1, <1>2, t \in Threads, SeparateCalling
<1>4. PICK c, a : c = MyHandle(t) /\ a = NextCall(t).algorithm
  OBVIOUS
<1>5. c \in registry
  <2>1. HasContext(t) /\ Does(t, "call")
    BY DEF GetContext, MayCall
  <2>2. c \notin {Absent, Null}
    BY <1>4, <2>1 DEF HasContext
  <2>3. NextCall(t).host \in BOOLEAN
    <3>1. IsProgram(script[t], IsTurn) /\ script[t] # <<>> /\ Head(script[t]).do = "call"
      BY <1>1, <2>1 DEF Shape, TypeOK, Does
    <3>2. IsSeq(script[t]) /\ \A turn \in Range(script[t]) : IsTurn(turn)
      BY ONLY <3>1 DEF IsProgram, IsSeq
    <3>3. Head(script[t]) \in Range(script[t])
      BY ONLY <3>1, <3>2, Rested
    <3>4. IsTurn(Head(script[t]))
      BY ONLY <3>2, <3>3
    <3> QED BY ONLY <3>1, <3>4, Zenon DEF IsTurn, NextCall
  <2>4. PICK k \in BOOLEAN : k = NextCall(t).host
    BY <2>3
  <2>5. c = handle[t][k]
    BY <1>4, <2>4 DEF MyHandle
  <2>6. ~Leaves(t, k)
    BY <1>2 DEF Leaves, At, AtRest
  <2> QED BY <1>1, <2>2, <2>5, <2>6 DEF Separate
<1>6. PICK x : x = [context[c] EXCEPT !.algorithm = a]
  OBVIOUS
<1>7. TypeOK /\ c \in Contexts /\ DOMAIN context = Contexts
  BY <1>1, <1>5 DEF Shape, TypeOK
<1>8. context' = [context EXCEPT ![c].algorithm = a]
  BY <1>4 DEF GetContext
<1>9. context' = [context EXCEPT ![c] = x]
  BY ONLY <1>6, <1>7, <1>8
<1>10. Untouched'
  BY ONLY <1>1, <1>2, <1>5, <1>7, <1>9, UntouchedCall
<1>11. Kept'
  BY ONLY <1>1, t \in Threads, GetContext(t), KeptGetContext
<1> QED BY <1>2, <1>3, <1>10, <1>11 DEF IInv

\* get_context makes a context.
LEMMA CreateHolds == ASSUME IInv, NEW t \in Threads, CreateContext(t) PROVE IInv'
<1>1. Shape /\ Separate /\ Untouched /\ Kept
  BY DEF IInv
<1>2. PICK n, x : n = NewContext /\ x = Created(NextCall(t).algorithm, Free(Held))
  OBVIOUS
<1>3. Shape' /\ context' = [context EXCEPT ![n] = x]
  BY ONLY <1>1, <1>2, t \in Threads, CreateContext(t), CreateShape
<1>4. x.state # "unused"
  BY <1>2 DEF Created, Unused
<1>5. TypeOK
  BY <1>1 DEF Shape
<1>6. Untouched'
  BY ONLY <1>1, <1>3, <1>4, <1>5, UntouchedOne
<1>7. Separate' /\ Kept'
  BY ONLY <1>1, t \in Threads, CreateContext(t), SeparateCreate, KeptCreate
<1> QED BY <1>3, <1>6, <1>7 DEF IInv

\* Registration, and its failure.
LEMMA RegisterHolds ==
  ASSUME IInv, NEW t \in Threads, Register(t) \/ RegisterFails(t)
  PROVE  IInv'
<1>1. Shape /\ Separate /\ Untouched /\ Kept
  BY DEF IInv
<1>2. UNCHANGED context
  BY DEF Register, RegisterFails
<1>3. Untouched'
  BY ONLY <1>1, <1>2, UntouchedSame
<1>4. CASE Register(t)
  BY ONLY IInv, <1>1, <1>3, <1>4, t \in Threads, RegisterShape, SeparateRegister, KeptRegister DEF IInv
<1>5. CASE RegisterFails(t)
  BY ONLY IInv, <1>1, <1>3, <1>5, t \in Threads, RegisterFailsShape, SeparateRegisterFails,
          KeptOutside DEF IInv
<1> QED BY <1>4, <1>5

\* The end of a call.
LEMMA ReturnHolds ==
  ASSUME IInv, NEW t \in Threads, ReturnDevice(t) \/ ReturnHost(t)
  PROVE  IInv'
<1>1. Shape /\ Separate /\ Untouched /\ Kept /\ TypeOK
  BY DEF IInv, Shape
<1>2. UNCHANGED <<context, handle, registry>>
  BY DEF ReturnDevice, ReturnHost, bindingVars
<1>3. Shape' /\ Calling(t) /\ (\A u \in Threads \ {t} : call'[u] = call[u]) /\ call'[t] = Idle
  BY ONLY <1>1, t \in Threads, ReturnDevice(t) \/ ReturnHost(t), ReturnShape
<1>4. KeepsStates
  BY ONLY <1>1, <1>2, SameStates
<1>5. Separate'
  BY ONLY <1>1, <1>2, <1>3, <1>4, t \in Threads, SeparateCalling
<1>6. Untouched' /\ Kept'
  BY ONLY <1>1, <1>2, t \in Threads, ReturnDevice(t) \/ ReturnHost(t), UntouchedSame, KeptReturn
<1> QED BY <1>3, <1>5, <1>6 DEF IInv

\* The end of a thread and close().
LEMMA LeavingHolds ==
  ASSUME IInv, NEW t \in Threads,
         \/ EndThread(t) \/ EraseHandle(t) \/ DestroyOwn(t) \/ Destroy(t)
         \/ CloseAll(t) \/ ClearHandles(t)
  PROVE  IInv'
<1>1. Shape /\ Separate /\ Untouched /\ Kept
  BY DEF IInv
<1>2. UNCHANGED context
  BY DEF EndThread, EraseHandle, DestroyOwn, Destroy, CloseAll, ClearHandles
<1>3. Untouched'
  BY ONLY <1>1, <1>2, UntouchedSame
<1>4. Kept'
  BY ONLY <1>1, t \in Threads, KeptOutside,
          \/ EndThread(t) \/ EraseHandle(t) \/ DestroyOwn(t) \/ Destroy(t)
          \/ CloseAll(t) \/ ClearHandles(t)
<1>5. CASE EndThread(t)
  <2>1. Shape' /\ Separate'
    BY ONLY <1>1, <1>5, t \in Threads, EndShape, SeparateEnd
  <2> QED BY ONLY <1>3, <1>4, <2>1 DEF IInv
<1>6. CASE EraseHandle(t)
  <2>1. Shape' /\ Separate'
    BY ONLY <1>1, <1>6, t \in Threads, EraseShape, SeparateErase
  <2> QED BY ONLY <1>3, <1>4, <2>1 DEF IInv
<1>7. CASE DestroyOwn(t)
  <2>1. Shape' /\ Separate'
    BY ONLY <1>1, <1>7, t \in Threads, DestroyOwnShape, SeparateDestroyOwn
  <2> QED BY ONLY <1>3, <1>4, <2>1 DEF IInv
<1>8. CASE Destroy(t)
  <2>1. Shape' /\ Separate'
    BY ONLY <1>1, <1>8, t \in Threads, DestroyShape, SeparateDestroy
  <2> QED BY ONLY <1>3, <1>4, <2>1 DEF IInv
<1>9. CASE CloseAll(t)
  <2>1. Shape' /\ Separate'
    BY ONLY <1>1, <1>9, t \in Threads, CloseShape, SeparateClose
  <2> QED BY ONLY <1>3, <1>4, <2>1 DEF IInv
<1>10. CASE ClearHandles(t)
  <2>1. Shape' /\ Separate'
    BY ONLY <1>1, <1>10, t \in Threads, ClearShape, SeparateClear
  <2> QED BY ONLY <1>3, <1>4, <2>1 DEF IInv
<1> QED BY <1>5, <1>6, <1>7, <1>8, <1>9, <1>10

\* camblas_cuda_destroy gives the blocks of a context back.
LEMMA ReleaseHolds == ASSUME IInv, NEW t \in Threads, Release(t) PROVE IInv'
<1>1. Shape /\ Separate /\ Untouched /\ Kept
  BY DEF IInv
<1>2. Shape' /\ Separate' /\ Kept'
  BY ONLY <1>1, t \in Threads, Release(t), ReleaseShape, SeparateRelease, KeptRelease
<1>3. PICK c, x : c = Instruction(t).context /\ x = [Unused EXCEPT !.state = "destroyed"]
  OBVIOUS
<1>4. context' = [context EXCEPT ![c] = x]
  BY <1>3 DEF Release, FreeContext
<1>5. x.state # "unused"
  BY ONLY <1>3 DEF Unused
<1>6. TypeOK
  BY <1>1 DEF Shape
<1>7. Untouched'
  BY ONLY <1>1, <1>4, <1>5, <1>6, UntouchedOne
<1> QED BY <1>2, <1>7 DEF IInv

-----------------------------------------------------------------------------
(* The theorems. *)

\* The initial states of any application.
THEOREM InvariantInitially == Init => IInv
<1> SUFFICES ASSUME Init PROVE IInv
  OBVIOUS
<1>1. Shape /\ Separate /\ Kept
  BY ONLY Init, ShapeInitially, SeparateInitially, KeptInitially
<1>2. Untouched
  <2>1. Owned(Unused) = {}
    BY DEF Owned, Unused
  <2>2. \A c \in Contexts : context[c] = Unused
    BY DEF Init
  <2> QED BY <2>1, <2>2 DEF Untouched
<1> QED BY <1>1, <1>2 DEF IInv

\* Every step, and the stutter, keeps the invariant.
THEOREM InvariantStep == IInv /\ [Next]_vars => IInv'
<1> SUFFICES ASSUME IInv, [Next]_vars PROVE IInv'
  OBVIOUS
<1>1. CASE UNCHANGED vars
  <2>1. Shape /\ Separate /\ Untouched /\ Kept
    BY DEF IInv
  <2>2. UNCHANGED <<contextVars, bindingVars, capture>>
    BY <1>1 DEF vars, streamVars
  <2>3. UNCHANGED <<context, call, handle, registry, queue, graph, allocated, pool>>
    BY <1>1 DEF vars, streamVars, contextVars, bindingVars
  <2>4. Shape' /\ Separate' /\ Untouched'
    BY ONLY <2>1, <2>2, <2>3, ShapeSame, SeparateSame, UntouchedSame
  <2>5. \A u \in Threads : call'[u].pointer = call[u].pointer
    BY <2>3
  <2>6. IsSeq(queue') /\ IsSeq(graph') /\ Range(queue) \subseteq Range(queue')
    BY <2>1, <2>3 DEF Kept
  <2>7. Kept'
    BY ONLY <2>1, <2>3, <2>5, <2>6, KeptQuiet
  <2> QED BY <2>4, <2>7 DEF IInv
<1>2. CASE Device
  BY ONLY IInv, <1>2, DeviceHolds
<1>3. CASE Terminated
  BY <1>1, <1>3 DEF Terminated
<1>4. ASSUME NEW t \in Threads, ContextStep(t) /\ UNCHANGED bindingVars PROVE IInv'
  BY ONLY IInv, <1>4, t \in Threads, StepHolds
<1>5. ASSUME NEW t \in Threads, Application(t) PROVE IInv'
  BY ONLY IInv, <1>5, t \in Threads, ApplicationHolds
<1>6. ASSUME NEW t \in Threads,
             GetContext(t) \/ CreateContext(t) \/ CreateFails(t) \/ RefuseCall(t)
      PROVE  IInv'
  BY ONLY IInv, <1>6, t \in Threads, GetContextHolds, CreateHolds, RefusalHolds
<1>7. ASSUME NEW t \in Threads,
             Register(t) \/ RegisterFails(t) \/ ReturnDevice(t) \/ ReturnHost(t)
      PROVE  IInv'
  BY ONLY IInv, <1>7, t \in Threads, RegisterHolds, ReturnHolds
<1>8. ASSUME NEW t \in Threads,
             \/ EndThread(t) \/ EraseHandle(t) \/ DestroyOwn(t) \/ Destroy(t) \/ Release(t)
             \/ CloseAll(t) \/ ClearHandles(t)
      PROVE  IInv'
  BY ONLY IInv, <1>8, t \in Threads, LeavingHolds, ReleaseHolds
<1> QED BY ONLY [Next]_vars, <1>1, <1>2, <1>3, <1>4, <1>5, <1>6, <1>7, <1>8 DEF Next

\* In every reachable state each thread is in one of the four modes, and the
\* contexts and blocks have the owners the invariant names (get_context, Handle,
\* camblas_cuda_destroy, close_all).
THEOREM InvariantHolds == Spec => []IInv
<1>1. Init => IInv
  BY InvariantInitially
<1>2. IInv /\ [Next]_vars => IInv'
  BY InvariantStep
<1> QED BY <1>1, <1>2, PTL DEF Spec

\* Contexts are registered while handles refer to them, are destroyed once and
\* never under a call, and every allocation has an owner that will release it
\* (Handle, get_context, close_all, camblas_cuda_destroy).
THEOREM HandlesStayLive == Spec => []HandlesLive
<1>1. ASSUME IInv PROVE HandlesLive
  <2>1. Shape /\ Separate /\ Kept
    BY <1>1 DEF IInv
  <2>2. registry \subseteq LiveContexts /\ allocated \subseteq Owners
    BY <2>1 DEF Separate, Kept
  <2>3. \A t \in Threads \ ended, host \in Keys : handle[t][host] \in registry \cup {Absent, Null}
    <3> SUFFICES ASSUME NEW t \in Threads \ ended, NEW host \in BOOLEAN
                 PROVE  handle[t][host] \in registry \cup {Absent, Null}
      BY DEF Keys
    <3>1. ~At(t, "destroy own")
      <4> SUFFICES ASSUME At(t, "destroy own") PROVE FALSE
        OBVIOUS
      <4>1. "destroy own" \in LeavingDos \ {"synchronize", "await"} /\ "destroy own" \in {"erase", "destroy own"}
        BY DEF LeavingDos
      <4>2. t \in ended
        BY ONLY <2>1, <4>1, t \in Threads \ ended, At(t, "destroy own"), AtLeaving
      <4> QED BY <4>2
    <3>2. ~Leaves(t, host)
      BY <3>1 DEF Leaves
    <3> QED BY <2>1, <3>2 DEF Separate
  <2>4. \A t \in Threads : call[t].context # 0 => call[t].context \in LiveContexts
    <3> SUFFICES ASSUME NEW t \in Threads, call[t].context # 0 PROVE call[t].context \in LiveContexts
      OBVIOUS
    <3>1. Mode(t)
      BY <2>1 DEF Shape
    <3>2. Calling(t)
      BY <3>1 DEF Mode, AtRest, Creating, Leaving, Outside
    <3> QED BY <2>2, <3>2 DEF Calling
  <2>5. DestroysOnce
    <3> SUFFICES ASSUME NEW t \in Threads, At(t, "destroy") \/ At(t, "release")
                 PROVE  Instruction(t).context \in LiveContexts \ registry
      BY DEF DestroysOnce
    <3>1. PICK what \in {"destroy", "release"} : At(t, what)
      OBVIOUS
    <3>2. what \in LeavingDos \ {"synchronize", "await"}
      BY ONLY what \in {"destroy", "release"} DEF LeavingDos
    <3>3. Instruction(t).do = what /\ Instruction(t) \in Range(call[t].todo)
      BY ONLY <2>1, <3>1, <3>2, t \in Threads, AtLeaving
    <3>4. Instruction(t).context \in Dying(call[t].todo)
      BY ONLY <3>3, what \in {"destroy", "release"} DEF Dying, Doom
    <3> QED BY <2>1, <3>4 DEF Separate
  <2> QED BY ONLY <2>2, <2>3, <2>4, <2>5 DEF HandlesLive
<1> QED BY <1>1, InvariantHolds, PTL

\* No call breaks a capture in progress by synchronising, allocating or releasing
\* memory (reserve_scratch, get_plan and the tuning of lt_gemm, the guarded
\* Strassen routes, get_context, host_context).
THEOREM CapturesStayLegal == Spec => []CaptureStaysLegal
<1>1. ASSUME IInv PROVE CaptureStaysLegal
  <2>1. capture \in {"none", "active", "graph", "destroyed"}
    BY <1>1 DEF IInv, Shape, TypeOK
  <2> QED BY ONLY <2>1 DEF CaptureStaysLegal
<1> QED BY <1>1, InvariantHolds, PTL
=============================================================================
