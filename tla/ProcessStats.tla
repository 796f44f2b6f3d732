---------------------------- MODULE ProcessStats ----------------------------
(***************************************************************************)
(* Process statistics: the limits read from the cgroup files               *)
(* (internal/util/cgroups.go), the sampling loop (processMonitor_linux.go) *)
(* with its two ring buffers (safe_buffer.go), and the availability and    *)
(* health status computed from them (metrics.go) for every health message. *)
(*                                                                         *)
(* Usage is counted in units of which an available limit has Limit; what   *)
(* the code computes as a ratio of averages is compared here without the   *)
(* division.  The contents of the cgroup files and the samples are inputs. *)
(***************************************************************************)
EXTENDS Integers, Sequences

CONSTANTS
    Window,      \* historySeconds / historyIntervalSeconds
    Limit,       \* the limit of a container that has one, in units of usage
    Usages,      \* usage a sample can show
    MaxSamples   \* bound: samples taken

ASSUME StatsAssumption ==
    Window \in Nat \ {0} /\ Limit \in Nat \ {0} /\ Usages \subseteq Nat /\ MaxSamples \in Nat

VARIABLES
    maxMemory,   \* maxMemory: -1 unknown, 0 never set
    cpuLimit,    \* cpuMillicoreLimit, likewise
    memory,      \* memHistory: the slots of the ring and the current one
    cpu,         \* cpuMillicoreHistory
    memTaken,    \* history: memory samples, oldest first
    cpuTaken,    \* history: CPU samples as stored
    started      \* readCgroupLimits has run

statsVars == <<maxMemory, cpuLimit, memory, cpu, memTaken, cpuTaken, started>>

Nil == -1    \* an empty slot of a ring

Rings == [slot : [0..(Window - 1) -> Usages \cup {0, Nil}], at : 0..(Window - 1)]

StatsTypeOK ==
    /\ maxMemory \in {-1, 0, Limit} /\ cpuLimit \in {-1, 0, Limit}
    /\ memory \in Rings /\ cpu \in Rings
    /\ memTaken \in Seq(Usages) /\ Len(memTaken) <= MaxSamples
    /\ cpuTaken \in Seq(Usages \cup {0}) /\ Len(cpuTaken) <= MaxSamples
    /\ started \in BOOLEAN

NewSafeBuffer == [slot |-> [i \in 0..(Window - 1) |-> Nil], at |-> 0]

StatsInit ==
    /\ maxMemory = 0 /\ cpuLimit = 0
    /\ memory = NewSafeBuffer /\ cpu = NewSafeBuffer
    /\ memTaken = << >> /\ cpuTaken = << >>
    /\ started = FALSE

\* SafeBuffer.Add
Add(ring, v) ==
    [slot |-> [ring.slot EXCEPT ![ring.at] = v], at |-> (ring.at + 1) % Window]

\* SafeBuffer.GetData: the slots from the current one on, without the empty ones.
GetData(ring) ==
    LET entry(i) == ring.slot[(ring.at + i - 1) % Window]
        dataSlice[i \in 0..Window] ==
            IF i = 0 THEN << >>
            ELSE IF entry(i) = Nil THEN dataSlice[i - 1]
            ELSE Append(dataSlice[i - 1], entry(i))
    IN  dataSlice[Window]

\* memTotal and cpuMillicoreTotal.
Total(data) ==
    LET total[i \in 0..Len(data)] == IF i = 0 THEN 0 ELSE total[i - 1] + data[i]
    IN  total[Len(data)]

\* memoryAvailability and cpuAvailability: -1 without samples or limit.
Known(limit, data) == limit > 0 /\ data # << >>

\* Slip: an unknown availability is below the threshold.
ScarceOrUnknown(limit, data) ==
    Known(limit, data) => 10 * Total(data) > 9 * limit * Len(data)

\* 0 <= availability < 0.1: the average exceeds nine tenths of the limit; an
\* availability below zero is reported as zero.
Scarce(limit, data) == Known(limit, data) /\ 10 * Total(data) > 9 * limit * Len(data)

\* IsUnhealthyUsage of what GetProcessStats returns.
IsUnhealthyUsage == Scarce(cpuLimit, GetData(cpu)) \/ Scarce(maxMemory, GetData(memory))
-----------------------------------------------------------------------------
\* What a limit file gives.  Memory: absent leaves the variable alone, "max" and
\* text that is no number mean unknown.  CPU: "max", "-1" and an empty file mean
\* the whole machine, text that is no number means unknown.
MemoryLimits == {0, -1, Limit}
CpuLimits == {0, -1, Limit}

\* readCgroupLimits, once, when MonitorProcessStats starts.
ReadCgroupLimits ==
    /\ ~started
    /\ started' = TRUE
    /\ maxMemory' \in MemoryLimits /\ cpuLimit' \in CpuLimits
    /\ UNCHANGED <<memory, cpu, memTaken, cpuTaken>>

\* A tick of MonitorProcessStats: the memory sample ...
SampleMemory(m) ==
    /\ started /\ Len(memTaken) < MaxSamples /\ Len(memTaken) = Len(cpuTaken)
    /\ memory' = Add(memory, m)
    /\ memTaken' = Append(memTaken, m)
    /\ UNCHANGED <<maxMemory, cpuLimit, cpu, cpuTaken, started>>

\* ... and the CPU sample.  The first one is measured from the zero time,
\* centuries ago, and is zero whatever the process used.
SampleCpu(c) ==
    LET used == IF cpuTaken = << >> THEN 0 ELSE c
    IN  /\ Len(cpuTaken) < Len(memTaken)
        /\ cpu' = Add(cpu, used)
        /\ cpuTaken' = Append(cpuTaken, used)
        /\ UNCHANGED <<maxMemory, cpuLimit, memory, memTaken, started>>

StatsNext ==
    \/ ReadCgroupLimits
    \/ \E u \in Usages : SampleMemory(u) \/ SampleCpu(u)
-----------------------------------------------------------------------------
\* The last Window samples.
Recent(taken) == SubSeq(taken, Len(taken) - Window + 1, Len(taken))

Quiet(limit, taken) ==
    Len(taken) >= Window /\ \A i \in 1..Window : 10 * Recent(taken)[i] <= 9 * limit

Busy(limit, taken) ==
    Len(taken) >= Window /\ \A i \in 1..Window : 10 * Recent(taken)[i] > 9 * limit

\* The status follows the last minute: after a whole window of samples within
\* nine tenths of each known limit it is healthy again, whatever came before,
\* and after a window above the limit of either it is unhealthy.
StatusFollowsWindow ==
    /\ (maxMemory > 0 => Quiet(maxMemory, memTaken)) /\ (cpuLimit > 0 => Quiet(cpuLimit, cpuTaken))
        => ~IsUnhealthyUsage
    /\ (maxMemory > 0 /\ Busy(maxMemory, memTaken)) \/ (cpuLimit > 0 /\ Busy(cpuLimit, cpuTaken))
        => IsUnhealthyUsage
=============================================================================
