------------------------------ MODULE MCTopology ------------------------------
EXTENDS Topology, TLC

\* Two nodes with CPUs, a third one beyond the node capacity, and one with
\* memory only; CPUs 64 .. 66 are beyond the CPU capacity.
MCNodeCpus == (0 :> 0 .. 15) @@ (1 :> 16 .. 63) @@ (4 :> 64 .. 66) @@ (8 :> {})
MCNrCpuIds == {64, 128, 1024}
MCAffinityMasks == { {0}, 0 .. 15, 0 .. 63, 40 .. 66 }
MCOnlineSets == { 0 .. 63, 0 .. 47, 0 .. 66 }

Node(name, id) == [name |-> name, id |-> id]
MCDirectories ==
  LET nodes == { Node("node0", 0), Node("node1", 1) } IN
  { nodes, nodes \cup { Node("node8", 8) }, nodes \cup { Node("node4", 4) },
    { Node("node1", 1), Node("node01", 1) }, { Node("node0", 0), Node("node_x", -1) } }

MCCpuLists == { <<>>, << <<1, 0>> >>, << <<0, 3>>, <<60, 64>>, <<1, 0>> >> }

MemLine(node, kb) == [key |-> "MemTotal", node |-> node, kb |-> kb]
Other == [key |-> "MemFree", node |-> -1, kb |-> 1]
MCMemInfos == { <<Other, MemLine(0, 4), MemLine(1, -1)>>, <<MemLine(-1, 7), MemLine(-1, 7)>> }

Field(field, value) == [field |-> field, value |-> value]
Core(part) == << Field("CPU implementer", 65), Field("CPU architecture", 8), Field("CPU part", part) >>
MCCpuInfos ==
  { Core(3407) \o Core(3407), Core(3407) \o Core(3337),
    << Field("model name", 1), Field("torn", 0) >>, << Field("model name", 1) >> }

\* No SVE; 128 and 512 bits, the second one inherited; a reserved bit.
MCPrctlResults == { -1, 16, 131072 + 64, 262144 + 16 }

\* The reference build, configs/grace.json, and every opt-in cache policy.
Reference ==
  [mc |-> 128, nc |-> 256, kc |-> 128, sve_nr |-> 4, fill_grid |-> FALSE, balance_waves |-> FALSE,
   small_cacheblock |-> 0, deep_cacheblock |-> 0, deep_kc |-> 0,
   deep_kc_cache_bytes |-> 0, deep_kc_min_threads |-> 16, shallow_aspect |-> FALSE,
   deep_row_block |-> 0, deep_row_block_fp64 |-> 0, deep_row_block_max_threads |-> 32]
Grace ==
  [Reference EXCEPT !.mc = 256, !.nc = 512, !.kc = 256, !.fill_grid = TRUE, !.balance_waves = TRUE,
     !.deep_kc_min_threads = 64, !.deep_kc_cache_bytes = 524288, !.shallow_aspect = TRUE,
     !.deep_row_block = 256, !.deep_row_block_fp64 = 256]
Opted(cacheblock) ==
  [Reference EXCEPT !.fill_grid = TRUE, !.small_cacheblock = cacheblock, !.deep_cacheblock = cacheblock,
     !.deep_kc = 256]
LongK == [Reference EXCEPT !.deep_kc = 256]

Op(dtype, ta, tb, m, n, k) == [m |-> m, n |-> n, k |-> k, ta |-> ta, tb |-> tb, dtype |-> dtype, batch |-> 1]
Ctx(mode, threads) ==
  [mode |-> mode, repro |-> "FAST", num_threads |-> threads, given |-> TRUE, executor |-> TRUE]
Sgemm(m, n, k) == Op("F32", "N", "N", m, n, k)

Calls(ops, contexts, builds) == [op : ops, ctx : contexts, build : builds]
Fixed == { Ctx("none", 3), Ctx("fixed", 3), [Ctx("fixed", 3) EXCEPT !.given = FALSE], Ctx("sve", 0),
           [Ctx("ablation", 3) EXCEPT !.repro = "BITWISE"], [Ctx("ablation", 3) EXCEPT !.repro = "other"],
           [Ctx("shape-aware", 3) EXCEPT !.given = FALSE], Ctx("other", 3) }
Sizes == { Sgemm(0, 4, 4), Sgemm(8, 8, 8), Sgemm(64, 64, 64), Op("F64", "T", "N", 32, 16, 8),
           [Sgemm(16, 16, 16) EXCEPT !.batch = 3], [Sgemm(16, 16, 16) EXCEPT !.ta = "C"] }
Shallow == { Sgemm(1024, 1024, 512), Sgemm(512, 2048, 1024), Sgemm(1000, 1000, 1000) }
Deep == { Sgemm(4096, 512, 2048), Sgemm(1024, 512, 2048), Op("F64", "N", "T", 1500, 700, 2000),
          Op("F64", "N", "N", 1024, 512, 2048) }

MCRequests ==
  Calls({Sgemm(8, 8, 8)}, Fixed, {Reference})
  \cup Calls(Sizes, {Ctx("shape-aware", 3), Ctx("fixed", -1)}, {Grace})
  \cup Calls(Shallow \cup Deep, { Ctx("shape-aware", t) : t \in {1, 16, 64} }, {Reference, Grace})
  \cup Calls({Sgemm(1000, 1000, 1000), Sgemm(4096, 512, 2048)},
             {[Ctx("ablation", 64) EXCEPT !.executor = FALSE]}, {Grace})
  \cup Calls({Sgemm(1024, 1024, 512), Sgemm(4096, 512, 2048), Op("F64", "N", "N", 4096, 512, 2048)},
             {Ctx("ablation", 16)}, { Opted(x) : x \in 1 .. 4 } \cup {LongK})
=============================================================================
