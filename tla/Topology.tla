------------------------------- MODULE Topology -------------------------------
(***************************************************************************)
(* camblas_topology_discover of src/topology.c, read by read, in a system  *)
(* that changes between the reads, and the plans then made from the        *)
(* snapshot (Planner).                                                     *)
(*                                                                         *)
(* A file is what it says: a CPU list is the sequence of its ranges        *)
(* <<first, last>>, a range with first > last standing for any text the    *)
(* parser refuses; a line of meminfo or cpuinfo is a record, a value of -1 *)
(* standing for a malformed one.  Any read may fail or find a file longer  *)
(* than its buffer.                                                        *)
(***************************************************************************)
EXTENDS Planner, SequencesExt

CONSTANTS
  CPU_SETSIZE,          \* first size of the affinity mask
  AFFINITY_ABSOLUTE_CAP, \* largest size tried
  NodeCpus,             \* the machine's nodes: id -> its CPUs
  NrCpuIds,             \* sizes of mask kernels ask for
  AffinityMasks,        \* CPU sets the process may be given
  OnlineSets,           \* CPU sets that may be online
  Changes,              \* how often the system changes during a discovery
  Directories,          \* listings of /sys/devices/system/node: sets of [name, id]
  CpuLists,             \* texts a cpulist file may hold instead of the kernel's
  MemInfos, CpuInfos,   \* contents of meminfo and of cpuinfo
  PrctlResults,         \* results of prctl(PR_SVE_GET_VL)
  Requests              \* the planner calls: [op, ctx, build]

\* The map from CPUs to nodes is the machine's: no CPU moves between nodes.
ASSUME NodesDisjoint ==
  \A i, j \in DOMAIN NodeCpus : i # j => NodeCpus[i] \cap NodeCpus[j] = {}

VARIABLES
  pc,       \* the next read of the discovery
  sys,      \* the system: allowed CPUs, online CPUs, mask size, changes so far
  ncpus,    \* size of the affinity mask tried
  topo,     \* the snapshot
  status,   \* status bits set so far
  scan,     \* the NUMA scan: entries left, nodes found, the entry in hand
  call,     \* the planner call made, in a sequence of at most one
  planned   \* its result

vars == <<pc, sys, ncpus, topo, status, scan, call, planned>>

FATAL_BITS == {"FATAL", "OVERFLOW", "INDETERMINATE"}
IS_FATAL(s) == s \cap FATAL_BITS # {}

---------------------------------------------------------------------------
(* CPU sets and CPU lists.                                                 *)

EmptySet == [bits |-> {}, nbits |-> 0]

\* camblas_cpuset_set of every CPU of S in turn.
CpuSet(S) == [bits |-> S, nbits |-> IF S = {} THEN 0 ELSE Max(S) + 1]

camblas_cpuset_intersect(a, b) == CpuSet(a.bits \cap b.bits)

\* The maximal runs of consecutive CPUs, in order.
camblas_cpuset_format(S) ==
  LET starts == SetToSortSeq({ c \in S : c - 1 \notin S }, <)
  IN  [i \in DOMAIN starts |->
         <<starts[i], Min({ e \in S : e >= starts[i] /\ e + 1 \notin S })>>]

camblas_parse_cpulist(list) ==
  LET reversed == { i \in DOMAIN list : list[i][1] > list[i][2] }
      beyond == { i \in DOMAIN list : list[i][2] >= MAX_CPUS }
      faults == reversed \cup beyond
  IN  [rc |-> IF list = <<>> THEN -3
              ELSE IF faults = {} THEN 0
              ELSE IF Min(faults) \in reversed THEN -1 ELSE -2,
       set |-> IF faults = {} THEN CpuSet(UNION { list[i][1] .. list[i][2] : i \in DOMAIN list })
               ELSE EmptySet]

\* What read_file_full may return for a file: an error, a truncated text, or
\* the text.
Reads(contents) == [rc : {0}, text : contents] \cup [rc : {-1, -2}, text : {<<>>}]

\* The kernel writes the CPUs that are online.
KernelList(S) == {camblas_cpuset_format(S \cap sys.online)} \cup CpuLists

---------------------------------------------------------------------------
(* meminfo and cpuinfo.                                                    *)

\* Lines that claim to be this node's MemTotal: [key, node, kb].
parse_memtotal_line(line, id) == line.key = "MemTotal" /\ line.node \in {-1, id}

\* Exactly one, well-formed, and no NUL anywhere; 0 is unavailable.
parse_memtotal_bytes(lines, id) ==
  LET claims == { i \in DOMAIN lines : parse_memtotal_line(lines[i], id) }
  IN  IF /\ \A i \in DOMAIN lines : lines[i].key # "NUL"
         /\ Cardinality(claims) = 1
         /\ \A i \in claims : lines[i].kb >= 0
      THEN lines[CHOOSE i \in claims : TRUE].kb ELSE 0

CpuInfoLimit(field) == CASE field = "CPU part" -> 4095
                         [] field = "model name" -> INT_MAX
                         [] OTHER -> 255

\* A line that was read whole, with a value of its field's range.
CpuInfoLine(line) == line.field # "torn" /\ line.value \in 0 .. CpuInfoLimit(line.field)

\* The records of all CPUs agree.
CpuInfoConsistent(lines) ==
  \A i \in DOMAIN lines :
    /\ CpuInfoLine(lines[i])
    /\ \A j \in DOMAIN lines : lines[j].field = lines[i].field => lines[j].value = lines[i].value

\* The model a stream names: its model name, else the MIDR triple of an ARMv8
\* core; <<>> is unavailable.
discover_cpu_model(read) ==
  LET Values(f) == { read.text[i].value : i \in { j \in DOMAIN read.text : read.text[j].field = f } }
      midr == Values("CPU implementer") \X Values("CPU part")
  IN  IF read.rc # 0 THEN <<>>
      ELSE IF ~CpuInfoConsistent(read.text) THEN <<>>
      ELSE IF Values("model name") # {} THEN <<CHOOSE v \in Values("model name") : TRUE>>
      ELSE IF midr # {} /\ Values("CPU architecture") = {8} THEN CHOOSE p \in midr : TRUE
      ELSE <<>>

\* The bits of a prctl result: 16 of length, one of inheritance.
discover_sve_vl(raw) ==
  LET length == raw % 65536 IN
  IF /\ raw >= 0 /\ raw \div 65536 \in {0, 2}
     /\ length >= 16 /\ length <= 8192 /\ length % 16 = 0
  THEN length * 8 ELSE 0

---------------------------------------------------------------------------
NoSnapshot ==
  [allowed |-> EmptySet, n_allowed |-> 0, nodes |-> <<>>, sve_vl_bits |-> 0,
   model |-> <<>>, n_online |-> 0]
NoScan == [left |-> {}, temp |-> <<>>, entry |-> -1, cpus |-> EmptySet, failed |-> FALSE]
\* Nothing reads the system after the discovery.
NoSystem == [allowed |-> {}, online |-> {}, nr |-> 0, changes |-> 0]

Init ==
  /\ pc = "affinity"
  /\ sys \in [allowed : AffinityMasks, online : OnlineSets, nr : NrCpuIds, changes : {0}]
  /\ ncpus = CPU_SETSIZE
  /\ topo = NoSnapshot
  /\ status = {}
  /\ scan = NoScan
  /\ call = <<>> /\ planned = Refused(0)

\* A CPU goes on or off line, or the process is given other CPUs.
SystemChanges ==
  /\ pc # "done" /\ pc # "planned" /\ sys.changes < Changes
  /\ \E s \in [allowed : AffinityMasks, online : OnlineSets] :
       sys' = [sys EXCEPT !.allowed = s.allowed, !.online = s.online, !.changes = @ + 1]
  /\ UNCHANGED <<pc, ncpus, topo, status, scan, call, planned>>

Goto(label) ==
  /\ pc' = label
  /\ sys' = IF label = "done" THEN NoSystem ELSE sys
  /\ ncpus' = IF label = "done" THEN CPU_SETSIZE ELSE ncpus
  /\ UNCHANGED <<call, planned>>

\* The kernel grants online CPUs, all of them when none of the mask is online.
Granted == IF sys.allowed \cap sys.online = {} THEN sys.online ELSE sys.allowed \cap sys.online

\* A mask with CPUs beyond the public limit is cleared.
AllowedResult(cpus) ==
  IF \E cpu \in cpus : cpu >= MAX_CPUS THEN [rc |-> {"OVERFLOW"}, cpus |-> {}]
  ELSE IF cpus = {} THEN [rc |-> {"FATAL"}, cpus |-> {}]
  ELSE [rc |-> {}, cpus |-> cpus]

\* CPU_ALLOC fails, or sched_getaffinity with anything but EINVAL.
AffinityFails ==
  /\ pc = "affinity" /\ ncpus <= AFFINITY_ABSOLUTE_CAP
  /\ status' = {"FATAL"}
  /\ Goto("done")
  /\ UNCHANGED <<topo, scan>>

\* EINVAL: the mask is too small.
AffinityGrows ==
  /\ pc = "affinity" /\ ncpus < sys.nr
  /\ IF 2 * ncpus > AFFINITY_ABSOLUTE_CAP
     THEN status' = {"INDETERMINATE"} /\ Goto("done")
     ELSE /\ ncpus' = 2 * ncpus
          /\ UNCHANGED <<pc, sys, status, call, planned>>
  /\ UNCHANGED <<topo, scan>>

discover_allowed_cpus ==
  /\ pc = "affinity" /\ ncpus >= sys.nr
  /\ LET got == AllowedResult(Granted) IN
     /\ topo' = [topo EXCEPT !.allowed = CpuSet(got.cpus), !.n_allowed = Cardinality(got.cpus)]
     /\ status' = got.rc
     /\ Goto(IF IS_FATAL(got.rc) THEN "done" ELSE "online")
  /\ UNCHANGED scan

\* The list of online CPUs, else sysconf, which may fail as well.
OnlineCounts ==
  UNION { IF read.rc = -1 THEN {0, Cardinality(sys.online)}
          ELSE IF read.rc = 0
          THEN {Cardinality(camblas_parse_cpulist(read.text).set.bits)}
          ELSE {0} : read \in Reads(KernelList(sys.online)) }

AnyOnline(count) == count   \* A mutant.
\* A count that does not cover the allowed CPUs is unavailable.
UsableOnline(count) == IF count < topo.n_allowed THEN 0 ELSE count

discover_online_cpus ==
  /\ pc = "online"
  /\ \E count \in OnlineCounts : topo' = [topo EXCEPT !.n_online = UsableOnline(count)]
  /\ Goto("opendir")
  /\ UNCHANGED <<status, scan>>

---------------------------------------------------------------------------
(* discover_numa.                                                          *)

\* The directory is missing, unreadable, or lists entries.
OpenDirectory ==
  /\ pc = "opendir"
  /\ \/ \E bit \in {"NO_NUMA", "NUMA_INCOMPLETE"} :
          status' = status \cup {bit} /\ Goto("sve") /\ UNCHANGED scan
     \/ \E d \in Directories :
          scan' = [NoScan EXCEPT !.left = d] /\ Goto("readdir") /\ UNCHANGED status
  /\ UNCHANGED topo

Fail == scan' = [scan EXCEPT !.failed = TRUE] /\ Goto("closedir")

\* A name that is no node id, one node too many, a node met before.
Rejected(entry) ==
  \/ entry.id < 0 \/ entry.id >= INT_MAX
  \/ Len(scan.temp) >= MAX_NUMA_NODES
  \/ \E i \in DOMAIN scan.temp : scan.temp[i].id = entry.id

ReadEntry ==
  /\ pc = "readdir"
  /\ \/ scan.left = {} /\ Goto("closedir") /\ UNCHANGED scan
     \/ Fail                                         \* readdir sets errno
     \/ \E entry \in scan.left :
          IF Rejected(entry) THEN Fail
          ELSE /\ scan' = [scan EXCEPT !.left = @ \ {entry}, !.entry = entry.id]
               /\ Goto("cpulist")
  /\ UNCHANGED <<topo, status>>

\* Nodes without CPUs, or without allowed ones, are passed over.
ReadCpuList ==
  /\ pc = "cpulist"
  /\ \E read \in Reads(KernelList(NodeCpus[scan.entry])) :
       LET parsed == camblas_parse_cpulist(read.text)
           cpus == camblas_cpuset_intersect(parsed.set, topo.allowed)
       IN  IF read.rc # 0 \/ parsed.rc \in {-1, -2} THEN Fail
           ELSE IF cpus.bits = {} THEN Goto("readdir") /\ UNCHANGED scan
           ELSE /\ scan' = [scan EXCEPT !.temp = Append(@,
                     [id |-> scan.entry, cpus |-> cpus, n_cpus |-> Cardinality(cpus.bits),
                      physical |-> Cardinality(parsed.set.bits), memory |-> 0])]
                /\ Goto("meminfo")
  /\ UNCHANGED <<topo, status>>

\* Memory is optional: anything unreadable or ambiguous leaves zero.
ReadMemInfo ==
  /\ pc = "meminfo"
  /\ \E read \in Reads(MemInfos) :
       scan' = [scan EXCEPT !.temp[Len(scan.temp)].memory =
                  IF read.rc = 0 THEN parse_memtotal_bytes(read.text, scan.entry) ELSE 0]
  /\ Goto("readdir")
  /\ UNCHANGED <<topo, status>>

ById(nodes) == SetToSortSeq({ nodes[i] : i \in DOMAIN nodes }, LAMBDA x, y : x.id < y.id)

\* closedir may fail too; any failure clears every node.
CloseDirectory ==
  /\ pc = "closedir"
  /\ \E failed \in {scan.failed, TRUE} :
       /\ status' = status \cup (IF failed THEN {"NUMA_INCOMPLETE"}
                                 ELSE IF scan.temp = <<>> THEN {"NO_NUMA"} ELSE {})
       /\ topo' = [topo EXCEPT !.nodes = IF failed THEN <<>> ELSE ById(scan.temp)]
  /\ scan' = NoScan
  /\ Goto("sve")

---------------------------------------------------------------------------
VectorLength ==
  /\ pc = "sve"
  /\ \E raw \in PrctlResults :
       /\ topo' = [topo EXCEPT !.sve_vl_bits = discover_sve_vl(raw)]
       /\ status' = status \cup (IF discover_sve_vl(raw) = 0 THEN {"NO_SVE"} ELSE {})
  /\ Goto("model")
  /\ UNCHANGED scan

Model ==
  /\ pc = "model"
  /\ \E read \in Reads(CpuInfos) :
       /\ topo' = [topo EXCEPT !.model = discover_cpu_model(read)]
       /\ status' = status \cup (IF discover_cpu_model(read) = <<>> THEN {"NO_MODEL"} ELSE {})
  /\ Goto("done")
  /\ UNCHANGED scan

\* A GEMM call plans, follows the plan and drops it.
MakePlan(q) ==
  /\ pc = "done"
  /\ pc' = "planned" /\ call' = <<q>>
  /\ planned' = camblas_plan_make(q.op, topo, q.ctx, q.build)
  /\ UNCHANGED <<sys, ncpus, topo, status, scan>>

DropPlan ==
  /\ pc = "planned"
  /\ pc' = "done" /\ call' = <<>> /\ planned' = Refused(0)
  /\ UNCHANGED <<sys, ncpus, topo, status, scan>>

Next ==
  \/ SystemChanges
  \/ AffinityFails \/ AffinityGrows \/ discover_allowed_cpus
  \/ discover_online_cpus
  \/ OpenDirectory \/ ReadEntry \/ ReadCpuList \/ ReadMemInfo \/ CloseDirectory
  \/ VectorLength \/ Model
  \/ \E q \in Requests : MakePlan(q)
  \/ DropPlan

Spec == Init /\ [][Next]_vars

---------------------------------------------------------------------------
\* The planner never sees the status, so the snapshot must speak for itself:
\* however the system changed between the reads, the planner accepts it
\* exactly when no status bit is fatal, and the optional bits agree with
\* what is missing from it.
SnapshotMatchesStatus ==
  pc = "done" =>
    /\ IS_FATAL(status) <=> validate_topology_metadata(topo) # 0
    /\ IS_FATAL(status) => topo = NoSnapshot
    /\ ~IS_FATAL(status) =>
         /\ ("NO_SVE" \in status) <=> (topo.sve_vl_bits = 0)
         /\ ("NO_MODEL" \in status) <=> (topo.model = <<>>)
         /\ (status \cap {"NO_NUMA", "NUMA_INCOMPLETE"} # {}) <=> (topo.nodes = <<>>)

\* A plan made from a snapshot keeps within its CPUs, gives every thread of a
\* filled grid a task of whole micro-tiles, and a block chosen for the cache
\* fits it; a mode that needs the snapshot makes none from a fatal one.
PlanFitsSnapshot ==
  pc = "planned" =>
    LET q == call[1] IN
    /\ planned.rc = 0 => PlanKeepsPromises(q.op, topo, q.ctx, q.build, planned.plan)
    /\ IS_FATAL(status) /\ q.ctx.mode \notin {"none", "fixed"} => planned.rc # 0
=============================================================================
