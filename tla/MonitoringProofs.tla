-------------------------- MODULE MonitoringProofs --------------------------
(***************************************************************************)
(* Proofs about what the gateway reports of its requests: the program a    *)
(* request is attributed to (ProcessInspector), the lines of the log       *)
(* (RequestLogger) and the live list of requests (WSHub), for any number   *)
(* of connections, ports and programs, of handlers, of requests and pages, *)
(* and for any capacity of the channel and of the list.                    *)
(*                                                                         *)
(* The three share no variable: each has an invariant of its own.          *)
(***************************************************************************)
EXTENDS ProcessInspector, RequestLogger, WSHub, FiniteSetTheorems, FoldLemmas, TLAPS
-----------------------------------------------------------------------------
(* ProcessInspector.                                                       *)

(* Who has a port is a connection from this port. *)
SocketsMatch ==
  \A p \in Ports : owner[p] # NoConn =>
    /\ conn[owner[p]].at # "none"
    /\ conn[owner[p]].port = p
    /\ conn[owner[p]].pid \in used[p]

(* Whatever the tables and the goroutines hold for a port is a program     *)
(* that had the port.                                                      *)
EntriesUsed ==
  /\ \A p \in Ports : {portToPID[p], scanned.table[p]} \subseteq used[p] \cup {None}
  /\ \A c \in Conns : {conn[c].seen, conn[c].result} \subseteq used[conn[c].port] \cup {None}

(* A connection that is known stays covered by every scan, and a scan has  *)
(* for the connections it covers what the table is going to have.          *)
ScanIsExact ==
  /\ \A c \in known \cup covered : conn[c].at # "none"
  /\ ~scanned.busy => covered = {}
  /\ \A c \in covered : IsOpen(c) => scanned.table[conn[c].port] \in {conn[c].pid, None}
  /\ \A c \in known : scanned.busy /\ IsOpen(c) => c \in covered

InspectorInv == InspectorTypeOK /\ SocketsMatch /\ EntriesUsed /\ ScanIsExact /\ KnownIsExact

(* A scan sees, for every port, the program that is connected or nobody    *)
(* (scanTCPTableFast).                                                     *)
LEMMA ScanSeesOwners ==
  ASSUME InspectorTypeOK, SocketsMatch, NEW f \in Tables, Scan(f), NEW p \in Ports
  PROVE  /\ f[p] \in used[p] \cup {None}
         /\ owner[p] # NoConn => f[p] \in {conn[owner[p]].pid, None}
BY DEF Scan, SocketsMatch, InspectorTypeOK

LEMMA InspectorInitInv == InspectorInit => InspectorInv
BY InspectorAssumption
DEF InspectorInit, InspectorInv, InspectorTypeOK, SocketsMatch, EntriesUsed, ScanIsExact, KnownIsExact,
   Free, NoScan, Tables, Stations, None

(* A goroutine that goes on keeps the port and program of its connection. *)
LEMMA GoesFacts ==
  ASSUME InspectorTypeOK, NEW c \in Conns, NEW a \in Stations \ {"none"},
         NEW s \in Pids \cup {None}, NEW r \in Pids \cup {None}, Goes(c, a, s, r)
  PROVE  /\ \A d \in Conns : d # c => conn'[d] = conn[d]
         /\ conn'[c] = [at |-> a, port |-> conn[c].port, pid |-> conn[c].pid, seen |-> s, result |-> r]
         /\ \A d \in Conns : conn'[d].port = conn[d].port /\ conn'[d].pid = conn[d].pid
         /\ conn' \in [Conns -> [at : Stations, port : Ports, pid : Pids \cup {None},
                                seen : Pids \cup {None}, result : Pids \cup {None}]]
BY DEF Goes, InspectorTypeOK

(* As long as it only looks, the tables are what they were. *)
LEMMA GoesKeeps ==
  ASSUME InspectorInv, NEW c \in Conns, NEW a \in Stations \ {"none"},
         NEW s \in Pids \cup {None}, NEW r \in Pids \cup {None},
         conn[c].at # "none", Goes(c, a, s, r),
         {s, r} \subseteq used[conn[c].port] \cup {None},
         UNCHANGED <<owner, portToPID, scanned, used, covered, known>>
  PROVE  InspectorInv'
<1>0. /\ \A d \in Conns : /\ conn'[d].port = conn[d].port
                          /\ conn'[d].pid = conn[d].pid
                          /\ conn[d].at # "none" => conn'[d].at # "none"
      /\ \A d \in Conns : d # c => conn'[d] = conn[d]
      /\ conn'[c].seen = s /\ conn'[c].result = r
      /\ conn' \in [Conns -> [at : Stations, port : Ports, pid : Pids \cup {None},
                             seen : Pids \cup {None}, result : Pids \cup {None}]]
  <2>1. InspectorTypeOK
    BY DEF InspectorInv
  <2>2. /\ \A d \in Conns : d # c => conn'[d] = conn[d]
        /\ conn'[c] = [at |-> a, port |-> conn[c].port, pid |-> conn[c].pid, seen |-> s, result |-> r]
        /\ \A d \in Conns : conn'[d].port = conn[d].port /\ conn'[d].pid = conn[d].pid
        /\ conn' \in [Conns -> [at : Stations, port : Ports, pid : Pids \cup {None},
                               seen : Pids \cup {None}, result : Pids \cup {None}]]
    BY <2>1, GoesFacts
  <2> QED
    BY <2>2
<1> USE DEF InspectorInv, InspectorTypeOK
<1>1. InspectorTypeOK'
  BY <1>0
<1>2. SocketsMatch'
  BY <1>0 DEF SocketsMatch
<1>3. EntriesUsed'
  <2>1. \A d \in Conns : {conn'[d].seen, conn'[d].result} \subseteq used[conn[d].port] \cup {None}
    BY <1>0 DEF EntriesUsed
  <2> QED
    BY <1>0, <2>1 DEF EntriesUsed
<1>4. ScanIsExact' /\ KnownIsExact'
  BY <1>0 DEF ScanIsExact, KnownIsExact, IsOpen
<1> QED
  BY <1>1, <1>2, <1>3, <1>4

LEMMA LookForKeeps ==
  ASSUME InspectorInv, NEW c \in Conns, NEW w \in Stations \ {"none"}, NEW n \in Stations \ {"none"},
         conn[c].at # "none", LookFor(c, w, n),
         UNCHANGED <<owner, portToPID, scanned, used, covered, known>>
  PROVE  InspectorInv'
<1> DEFINE p == conn[c].port
<1>1. PICK f \in Tables : Scan(f) /\ Goes(c, IF f[p] = None THEN n ELSE w, f[p], None)
  BY DEF LookFor
<1>2. p \in Ports /\ f[p] \in Pids \cup {None}
  BY DEF InspectorInv, InspectorTypeOK, Tables
<1>3. {f[p], None} \subseteq used[p] \cup {None}
  BY <1>1, <1>2, ScanSeesOwners DEF InspectorInv
<1>4. (IF f[p] = None THEN n ELSE w) \in Stations \ {"none"}
  OBVIOUS
<1> HIDE DEF p
<1> QED
  BY <1>1, <1>2, <1>3, <1>4, GoesKeeps DEF p

LEMMA LookKeeps ==
  ASSUME InspectorInv, NEW c \in Conns, NEW w \in Stations \ {"none"}, NEW n \in Stations \ {"none"},
         conn[c].at # "none", Look(c, w, n),
         UNCHANGED <<owner, portToPID, scanned, used, covered, known>>
  PROVE  InspectorInv'
<1>1. CASE Goes(c, n, None, None)
  BY <1>1, GoesKeeps
<1>2. CASE LookFor(c, w, n)
  BY <1>2, LookForKeeps
<1> QED
  BY <1>1, <1>2 DEF Look

(* The write of what was seen: whoever is no longer known is another       *)
(* program on the same port.                                               *)
LEMMA WriteKeeps ==
  ASSUME InspectorInv, NEW c \in Conns, NEW n \in Stations \ {"none"}, conn[c].at # "none",
         Write(c, n), UNCHANGED <<owner, scanned, used, covered>>
  PROVE  InspectorInv'
<1>0. /\ \A d \in Conns : /\ conn'[d].port = conn[d].port
                          /\ conn'[d].pid = conn[d].pid
                          /\ conn[d].at # "none" => conn'[d].at # "none"
      /\ \A d \in Conns : d # c => conn'[d] = conn[d]
      /\ conn'[c].seen = None
      /\ conn'[c].result \in {None, conn[c].seen}
      /\ portToPID' = [portToPID EXCEPT ![conn[c].port] = conn[c].seen]
      /\ known' = {d \in known : conn[d].port = conn[c].port => conn[d].pid = conn[c].seen}
      /\ conn' \in [Conns -> [at : Stations, port : Ports, pid : Pids \cup {None},
                             seen : Pids \cup {None}, result : Pids \cup {None}]]
  <2> DEFINE r == IF n = "resolved" THEN conn[c].seen ELSE None
  <2>1. InspectorTypeOK /\ r \in Pids \cup {None} /\ None \in Pids \cup {None}
    BY DEF InspectorInv, InspectorTypeOK
  <2>2. Goes(c, n, None, r)
    BY DEF Write
  <2>3. /\ portToPID' = [portToPID EXCEPT ![conn[c].port] = conn[c].seen]
        /\ known' = {d \in known : conn[d].port = conn[c].port => conn[d].pid = conn[c].seen}
        /\ r \in {None, conn[c].seen}
    BY DEF Write
  <2> HIDE DEF r
  <2>4. /\ \A d \in Conns : d # c => conn'[d] = conn[d]
        /\ conn'[c] = [at |-> n, port |-> conn[c].port, pid |-> conn[c].pid, seen |-> None, result |-> r]
        /\ \A d \in Conns : conn'[d].port = conn[d].port /\ conn'[d].pid = conn[d].pid
        /\ conn' \in [Conns -> [at : Stations, port : Ports, pid : Pids \cup {None},
                               seen : Pids \cup {None}, result : Pids \cup {None}]]
    BY <2>1, <2>2, GoesFacts
  <2> QED
    BY <2>3, <2>4
<1> USE DEF InspectorInv, InspectorTypeOK
<1>1. InspectorTypeOK'
  BY <1>0 DEF Tables
<1>2. SocketsMatch'
  BY <1>0 DEF SocketsMatch
<1>3. EntriesUsed'
  <2>1. \A d \in Conns : {conn'[d].seen, conn'[d].result} \subseteq used[conn[d].port] \cup {None}
    BY <1>0 DEF EntriesUsed
  <2>2. \A p \in Ports : portToPID'[p] \in used[p] \cup {None}
    BY <1>0 DEF EntriesUsed, Tables
  <2> QED
    BY <1>0, <2>1, <2>2 DEF EntriesUsed
<1>4. ScanIsExact'
  BY <1>0 DEF ScanIsExact, IsOpen
<1>5. KnownIsExact'
  <2> SUFFICES ASSUME NEW d \in known', IsOpen(d)'
               PROVE  portToPID'[conn'[d].port] \in {conn'[d].pid, None}
    BY DEF KnownIsExact
  <2>1. d \in known /\ d \in Conns /\ IsOpen(d)
    BY <1>0 DEF IsOpen
  <2>2. CASE conn[d].port = conn[c].port
    BY <1>0, <2>1, <2>2 DEF Tables
  <2>3. CASE conn[d].port # conn[c].port
    BY <1>0, <2>1, <2>3 DEF Tables, KnownIsExact
  <2> QED
    BY <2>2, <2>3
<1> QED
  BY <1>1, <1>2, <1>3, <1>4, <1>5

LEMMA GatewayStep == ASSUME InspectorInv, NEW c \in Conns, Gateway(c) PROVE InspectorInv'
<1>1. CASE RegisterNew(c)
  BY <1>1, LookKeeps DEF RegisterNew, Stations
<1>2. CASE RegisterActive(c)
  BY <1>2, LookKeeps DEF RegisterActive, Stations
<1>3. CASE ResolveClientProcess(c)
  <2>1. /\ conn[c].at = "lookup"
        /\ UNCHANGED <<owner, portToPID, scanned, used, covered, known>>
    BY <1>3 DEF ResolveClientProcess
  <2>2. CASE Goes(c, "resolved", None, portToPID[conn[c].port])
    <3>1. {None, portToPID[conn[c].port]} \subseteq used[conn[c].port] \cup {None}
      BY DEF InspectorInv, InspectorTypeOK, EntriesUsed
    <3>2. portToPID[conn[c].port] \in Pids \cup {None}
      BY DEF InspectorInv, InspectorTypeOK, Tables
    <3> QED
      BY <2>1, <2>2, <3>1, <3>2, GoesKeeps DEF Stations
  <2>3. CASE LookFor(c, "found", "resolved")
    BY <2>1, <2>3, LookForKeeps DEF Stations
  <2> QED
    BY <1>3, <2>2, <2>3 DEF ResolveClientProcess
<1>4. CASE RegisterNewWrite(c) \/ RegisterActiveWrite(c) \/ ResolveWrite(c)
  BY <1>4, WriteKeeps DEF RegisterNewWrite, RegisterActiveWrite, ResolveWrite, Stations
<1> QED
  BY <1>1, <1>2, <1>3, <1>4 DEF Gateway

LEMMA ConnectStep ==
  ASSUME InspectorInv, NEW c \in Conns, NEW p \in Ports, NEW pid \in Pids, Connect(c, p, pid)
  PROVE  InspectorInv'
<1> USE DEF InspectorInv, InspectorTypeOK
<1>r. PICK r \in [at : Stations, port : Ports, pid : Pids \cup {None},
                  seen : Pids \cup {None}, result : Pids \cup {None}] :
        /\ r.at = "connected" /\ r.port = p /\ r.pid = pid /\ r.seen = None /\ r.result = None
        /\ conn' = [conn EXCEPT ![c] = r]
  <2> DEFINE s == [at |-> "connected", port |-> p, pid |-> pid, seen |-> None, result |-> None]
  <2>2. conn' = [conn EXCEPT ![c] = s]
    BY DEF Connect
  <2>3. s \in [at : Stations, port : Ports, pid : Pids \cup {None},
               seen : Pids \cup {None}, result : Pids \cup {None}]
    BY DEF Stations
  <2> QED
    BY <2>2, <2>3
<1>1. /\ conn[c].at = "none" /\ owner[p] = NoConn
      /\ owner' = [owner EXCEPT ![p] = c]
      /\ used' = [used EXCEPT ![p] = @ \cup {pid}]
      /\ \A d \in Conns : d # c => conn'[d] = conn[d]
      /\ conn'[c] = r
      /\ UNCHANGED <<portToPID, scanned, covered, known>>
  BY <1>r DEF Connect
<1>2. InspectorTypeOK'
  BY <1>1, <1>r
<1>3. SocketsMatch'
  <2> SUFFICES ASSUME NEW s \in Ports, owner'[s] # NoConn
               PROVE  /\ conn'[owner'[s]].at # "none"
                      /\ conn'[owner'[s]].port = s
                      /\ conn'[owner'[s]].pid \in used'[s]
    BY DEF SocketsMatch
  <2>1. CASE s = p
    BY <1>1, <1>r, <2>1
  <2>2. CASE s # p
    <3>1. owner'[s] = owner[s] /\ owner[s] # c
      BY <1>1, <2>2 DEF SocketsMatch
    <3> QED
      BY <1>1, <2>2, <3>1 DEF SocketsMatch
  <2> QED
    BY <2>1, <2>2
<1>4. EntriesUsed'
  <2>1. \A s \in Ports : used[s] \subseteq used'[s]
    BY <1>1
  <2>2. \A d \in Conns : {conn'[d].seen, conn'[d].result} \subseteq used'[conn'[d].port] \cup {None}
    BY <1>1, <1>r, <2>1 DEF EntriesUsed
  <2>3. \A s \in Ports : {portToPID'[s], scanned'.table[s]} \subseteq used'[s] \cup {None}
    BY <1>1, <2>1 DEF EntriesUsed
  <2> QED
    BY <2>2, <2>3 DEF EntriesUsed
<1>5. \A d \in known \cup covered : d # c /\ (IsOpen(d)' => IsOpen(d))
  BY <1>1, InspectorAssumption DEF ScanIsExact, IsOpen
<1>6. ScanIsExact' /\ KnownIsExact'
  BY <1>1, <1>5 DEF ScanIsExact, KnownIsExact
<1> QED
  BY <1>2, <1>3, <1>4, <1>6

LEMMA DisconnectStep == ASSUME InspectorInv, NEW c \in Conns, Disconnect(c) PROVE InspectorInv'
<1> USE DEF InspectorInv, InspectorTypeOK
<1>1. /\ owner' = [owner EXCEPT ![conn[c].port] = NoConn]
      /\ UNCHANGED <<conn, portToPID, scanned, used, covered, known>>
  BY DEF Disconnect
<1>2. InspectorTypeOK' /\ SocketsMatch' /\ EntriesUsed'
  BY <1>1 DEF SocketsMatch, EntriesUsed
<1>3. \A d \in Conns : IsOpen(d)' => IsOpen(d)
  BY <1>1, InspectorAssumption DEF IsOpen
<1>4. ScanIsExact' /\ KnownIsExact'
  BY <1>1, <1>3 DEF ScanIsExact, KnownIsExact
<1> QED
  BY <1>2, <1>4

LEMMA ForgetStep == ASSUME InspectorInv, NEW c \in Conns, Forget(c) PROVE InspectorInv'
<1> USE DEF InspectorInv, InspectorTypeOK
<1>1. /\ ~IsOpen(c) /\ conn[c].at # "none"
      /\ conn' = [conn EXCEPT ![c] = Free]
      /\ \A d \in Conns : d # c => conn'[d] = conn[d]
      /\ covered' = covered \ {c} /\ known' = known \ {c}
      /\ UNCHANGED <<owner, portToPID, scanned, used>>
  BY DEF Forget
<1>2. Free \in [at : Stations, port : Ports, pid : Pids \cup {None},
                seen : Pids \cup {None}, result : Pids \cup {None}]
  BY InspectorAssumption DEF Free, Stations
<1>3. InspectorTypeOK'
  BY <1>1, <1>2
<1>4. SocketsMatch'
  <2>1. \A p \in Ports : owner[p] # c
    BY <1>1, InspectorAssumption DEF SocketsMatch, IsOpen
  <2> QED
    BY <1>1, <2>1 DEF SocketsMatch
<1>5. EntriesUsed'
  <2>1. conn'[c].seen = None /\ conn'[c].result = None
    BY <1>1 DEF Free
  <2> QED
    BY <1>1, <2>1 DEF EntriesUsed
<1>6. \A d \in known' \cup covered' : d # c /\ conn'[d] = conn[d] /\ (IsOpen(d)' => IsOpen(d))
  BY <1>1 DEF IsOpen
<1>7. ScanIsExact' /\ KnownIsExact'
  BY <1>1, <1>6 DEF ScanIsExact, KnownIsExact
<1> QED
  BY <1>3, <1>4, <1>5, <1>7

LEMMA RefreshScanStep == ASSUME InspectorInv, RefreshScan PROVE InspectorInv'
<1> USE DEF InspectorInv, InspectorTypeOK
<1>1. PICK f \in Tables : Scan(f) /\ scanned' = [busy |-> TRUE, table |-> f]
  BY DEF RefreshScan
<1>2. /\ covered' = {c \in Conns : conn[c].at # "none" /\ IsOpen(c)}
      /\ UNCHANGED <<owner, conn, portToPID, used, known>>
  BY DEF RefreshScan
<1>3. InspectorTypeOK' /\ SocketsMatch'
  BY <1>1, <1>2 DEF SocketsMatch
<1>4. EntriesUsed'
  <2>1. \A p \in Ports : f[p] \in used[p] \cup {None}
    BY <1>1, ScanSeesOwners
  <2> QED
    BY <1>1, <1>2, <2>1 DEF EntriesUsed
<1>5. ScanIsExact'
  <2>1. \A c \in covered' : f[conn[c].port] \in {conn[c].pid, None}
    BY <1>1, <1>2, ScanSeesOwners, InspectorAssumption DEF IsOpen
  <2> QED
    BY <1>1, <1>2, <2>1 DEF ScanIsExact, IsOpen
<1>6. KnownIsExact'
  BY <1>2 DEF KnownIsExact, IsOpen
<1> QED
  BY <1>3, <1>4, <1>5, <1>6

LEMMA RefreshInstallStep == ASSUME InspectorInv, RefreshInstall PROVE InspectorInv'
<1> USE DEF InspectorInv, InspectorTypeOK
<1>1. /\ scanned.busy
      /\ portToPID' = scanned.table
      /\ scanned' = NoScan
      /\ known' = known \cup covered
      /\ covered' = {}
      /\ UNCHANGED <<owner, conn, used>>
  BY DEF RefreshInstall
<1>2. NoScan \in [busy : BOOLEAN, table : Tables] /\ ~NoScan.busy /\ \A p \in Ports : NoScan.table[p] = None
  BY DEF NoScan, Tables
<1>3. InspectorTypeOK' /\ SocketsMatch' /\ EntriesUsed'
  BY <1>1, <1>2 DEF SocketsMatch, EntriesUsed
<1>4. ScanIsExact'
  BY <1>1, <1>2 DEF ScanIsExact
<1>5. KnownIsExact'
  BY <1>1 DEF KnownIsExact, ScanIsExact, IsOpen
<1> QED
  BY <1>3, <1>4, <1>5

(* The inductive invariant: sockets, tables, goroutines and scans agree.   *)
THEOREM InspectorInvariance == InspectorSpec => []InspectorInv
<1>1. InspectorInv /\ [InspectorNext]_inspectorVars => InspectorInv'
  <2> SUFFICES ASSUME InspectorInv, [InspectorNext]_inspectorVars PROVE InspectorInv'
    OBVIOUS
  <2>1. CASE UNCHANGED inspectorVars
    BY <2>1
    DEF inspectorVars, InspectorInv, InspectorTypeOK, SocketsMatch, EntriesUsed, ScanIsExact, KnownIsExact, IsOpen
  <2> QED
    BY <2>1, ConnectStep, DisconnectStep, ForgetStep, GatewayStep, RefreshScanStep, RefreshInstallStep
       DEF InspectorNext
<1> QED
  BY InspectorInitInv, <1>1, PTL DEF InspectorSpec

(* ResolveClientProcess never gives a request a program that has not had   *)
(* its port, however scans, hooks and reused ports are interleaved.        *)
THEOREM NoStrangerIsCharged == InspectorSpec => []NeverAnotherProgram
<1>1. InspectorInv => NeverAnotherProgram
  BY DEF InspectorInv, EntriesUsed, NeverAnotherProgram
<1> QED
  BY InspectorInvariance, <1>1, PTL

(* The stale entry of a reused port does not outlive one scan              *)
(* (refreshTables replaces the whole table).                               *)
THEOREM OneScanIsEnough == InspectorSpec => []KnownIsExact
<1>1. InspectorInv => KnownIsExact
  BY DEF InspectorInv
<1> QED
  BY InspectorInvariance, <1>1, PTL
-----------------------------------------------------------------------------
(* RequestLogger.                                                          *)

(* The line that the loop has taken, while it is not at the channel; a     *)
(* file is open for the write, of a day not before the line's.             *)
LoopHolds ==
  /\ IF loop = "channel" THEN taken = <<>> ELSE Len(taken) = 1
  /\ loop = "write" => /\ open \in Days
                       /\ Head(taken).day <= open
                       /\ \A i \in DOMAIN written : written[i].file <= open

(* Nothing is of a later day than today, and the numbers go up from the    *)
(* files through the loop to the channel.                                  *)
NotLater ==
  /\ open <= today
  /\ \A h \in Handlers : \A i \in DOMAIN stamp[h] : stamp[h][i] <= today
  /\ \A i \in DOMAIN ch : ch[i].day <= today
  /\ \A i \in DOMAIN taken : taken[i].day <= today
  /\ \A i \in DOMAIN written : written[i].file <= today

Numbered ==
  /\ \A i \in DOMAIN ch : ch[i].n <= tried
  /\ \A i \in DOMAIN taken : taken[i].n <= tried
  /\ \A i \in DOMAIN written : written[i].n <= tried
  /\ \A i, j \in DOMAIN ch : i < j => ch[i].n < ch[j].n
  /\ \A i \in DOMAIN taken, j \in DOMAIN ch : taken[i].n < ch[j].n
  /\ \A i \in DOMAIN written, j \in DOMAIN ch : written[i].n < ch[j].n
  /\ \A i \in DOMAIN written, j \in DOMAIN taken : written[i].n < taken[j].n

(* The lines that each handler has stamped and not sent. *)
Stamped ==
  \A h \in Handlers :
    /\ at[h] \in {"dump", "stamp", "eventFull", "send"} => Len(stamp[h]) = 1
    /\ at[h] = "event" => Len(stamp[h]) = 2

LoggerInv == LoggerTypeOK /\ LoopHolds /\ NotLater /\ Stamped /\ Numbered /\ LinesKept

Entry == [n : Nat, day : Days, file : Days, alone : BOOLEAN]

WaitingSet == {h \in Handlers : at[h] \in {"eventFull", "sendFull"}}
-----------------------------------------------------------------------------
LEMMA WaitingIsNat == WaitingSet \in SUBSET Handlers /\ IsFiniteSet(WaitingSet) /\ Waiting \in Nat
BY LoggerAssumption, FS_Subset, FS_CardinalityType DEF WaitingSet, Waiting

LEMMA WaitingKept ==
  ASSUME WaitingSet' = WaitingSet
  PROVE  Waiting' = Waiting
BY DEF WaitingSet, Waiting

(* A handler joins those that wait for the mutex, or leaves them. *)
LEMMA WaitingMore ==
  ASSUME NEW h, h \notin WaitingSet, WaitingSet' = WaitingSet \cup {h}
  PROVE  Waiting' = Waiting + 1
<1>1. Cardinality(WaitingSet \cup {h}) = Cardinality(WaitingSet) + 1
  BY WaitingIsNat, FS_AddElement
<1> QED
  BY <1>1 DEF Waiting, WaitingSet

LEMMA WaitingLess ==
  ASSUME NEW h \in WaitingSet, WaitingSet' = WaitingSet \ {h}
  PROVE  Waiting' = Waiting - 1
<1>1. Cardinality(WaitingSet \ {h}) = Cardinality(WaitingSet) - 1
  BY WaitingIsNat, FS_RemoveElement
<1> QED
  BY <1>1 DEF Waiting, WaitingSet

(* A step of the loop, or of a clock, that leaves the handlers where they  *)
(* are.                                                                    *)
LEMMA AtKept == ASSUME UNCHANGED at PROVE Waiting' = Waiting
BY DEF Waiting
-----------------------------------------------------------------------------
LEMMA SpoiledIsFinite ==
  ASSUME LoggerInv
  PROVE  /\ IsFiniteSet(Spoiled) /\ Spoiled \subseteq DOMAIN written
         /\ IsFiniteSet(torn)
         /\ Cardinality(Spoiled) \in Nat /\ Cardinality(torn) \in Nat
         /\ Cardinality(Spoiled) + Cardinality(torn) <= lost /\ lost \in Nat
<1>1. DOMAIN written = 1..Len(written) /\ Len(written) \in Nat /\ torn \subseteq 1..MaxDay /\ MaxDay \in Nat
  BY LoggerAssumption DEF LoggerInv, LoggerTypeOK, Days
<1>2. IsFiniteSet(1..Len(written)) /\ IsFiniteSet(1..MaxDay)
  BY <1>1, FS_Interval
<1>3. Spoiled \subseteq DOMAIN written
  BY DEF Spoiled
<1> QED
  BY <1>1, <1>2, <1>3, FS_Subset, FS_CardinalityType
  DEF LoggerInv, LoggerTypeOK, LinesKept, SpoiledByLoss

(* A step that writes nothing. *)
LEMMA SpoiledKept ==
  ASSUME LoggerInv, UNCHANGED <<written, torn>>, lost' = lost \/ lost' = lost + 1
  PROVE  SpoiledByLoss'
<1>1. Spoiled' = Spoiled
  BY DEF Spoiled
<1> QED
  BY <1>1, SpoiledIsFinite DEF SpoiledByLoss

(* A line is written whole, behind a piece or by itself. *)
LEMMA SpoiledByPiece ==
  ASSUME LoggerInv, NEW x \in Entry, written' = Append(written, x),
         x.alone <=> open \notin torn, torn' = torn \ {open}, lost' = lost
  PROVE  SpoiledByLoss'
<1> DEFINE k == Len(written) + 1
<1>1. /\ DOMAIN written' = DOMAIN written \cup {k} /\ k \notin DOMAIN written
      /\ \A i \in DOMAIN written : written'[i] = written[i]
      /\ written'[k] = x
  BY DEF LoggerInv, LoggerTypeOK, Entry
<1> HIDE DEF k
<1>2. CASE open \in torn
  <2>1. ~x.alone
    BY <1>2
  <2>2. Spoiled' = Spoiled \cup {k} /\ k \notin Spoiled
    BY <1>1, <2>1 DEF Spoiled
  <2>3. Cardinality(Spoiled') = Cardinality(Spoiled) + 1
    BY <2>2, SpoiledIsFinite, FS_AddElement
  <2>4. Cardinality(torn') = Cardinality(torn) - 1
    BY <1>2, SpoiledIsFinite, FS_RemoveElement
  <2> QED
    BY <2>3, <2>4, SpoiledIsFinite DEF SpoiledByLoss
<1>3. CASE open \notin torn
  <2>1. Spoiled' = Spoiled /\ torn' = torn
    BY <1>1, <1>3 DEF Spoiled
  <2> QED
    BY <2>1, SpoiledIsFinite DEF SpoiledByLoss
<1> QED
  BY <1>2, <1>3

(* A piece of a line is written. *)
LEMMA PieceIsLost ==
  ASSUME LoggerInv, written' = written, torn' \in {torn, torn \cup {open}}, lost' = lost + 1
  PROVE  SpoiledByLoss'
<1>1. Spoiled' = Spoiled
  BY DEF Spoiled
<1>2. CASE torn' = torn
  BY <1>2, SpoiledKept
<1>3. CASE torn' = torn \cup {open}
  <2>1. Cardinality(torn') \in {Cardinality(torn), Cardinality(torn) + 1}
    BY <1>3, SpoiledIsFinite, FS_AddElement
  <2> QED
    BY <1>1, <2>1, SpoiledIsFinite DEF SpoiledByLoss
<1> QED
  BY <1>2, <1>3
-----------------------------------------------------------------------------
(* The three sequences, with the types of what their elements are asked.   *)
LEMMA LineShapes ==
  ASSUME LoggerInv
  PROVE  /\ \A i \in DOMAIN ch : ch[i].n \in Nat /\ ch[i].day \in Nat
         /\ \A i \in DOMAIN taken : taken[i] \in Line /\ taken[i].n \in Nat /\ taken[i].day \in Nat
         /\ \A i \in DOMAIN written : written[i].n \in Nat /\ written[i].file \in Nat
         /\ Len(ch) \in Nat /\ Len(taken) \in Nat /\ Len(written) \in Nat
         /\ open \in Nat /\ today \in Nat /\ tried \in Nat /\ dropped \in Nat /\ lost \in Nat
<1>1. /\ ch \in Seq(Line) /\ taken \in Seq(Line)
      /\ written \in Seq(Entry)
      /\ open \in Days \cup {Closed} /\ today \in Days /\ tried \in Nat /\ dropped \in Nat /\ lost \in Nat
  BY DEF LoggerInv, LoggerTypeOK, Entry
<1>2. Days \subseteq Nat /\ Closed \in Nat
  BY DEF Days, Closed
<1>3. /\ \A i \in DOMAIN ch : ch[i] \in Line
      /\ \A i \in DOMAIN taken : taken[i] \in Line
      /\ \A i \in DOMAIN written : written[i] \in Entry
      /\ Len(ch) \in Nat /\ Len(taken) \in Nat /\ Len(written) \in Nat
  <2>1. ASSUME NEW S, NEW s \in Seq(S) PROVE Len(s) \in Nat /\ \A i \in DOMAIN s : s[i] \in S
    OBVIOUS
  <2> HIDE DEF Line, Entry
  <2> QED
    BY <1>1, <2>1
<1> QED
  BY <1>1, <1>2, <1>3 DEF Line, Entry

LEMMA LoggerInitKeeps == LoggerInit => LoggerInv
<1> SUFFICES ASSUME LoggerInit PROVE LoggerInv
  OBVIOUS
<1>1. WaitingSet = {}
  BY DEF LoggerInit, WaitingSet
<1>2. Waiting = 0
  BY <1>1, FS_EmptySet DEF Waiting, WaitingSet
<1>3. LoggerTypeOK
  BY LoggerAssumption DEF LoggerInit, LoggerTypeOK, Days, Closed
<1>4. LoopHolds /\ NotLater /\ Stamped /\ Numbered /\ InOrder /\ RightDay
  BY DEF LoggerInit, LoopHolds, NotLater, Stamped, Numbered, InOrder, RightDay, Closed
<1>5. Accounted
  BY <1>2 DEF LoggerInit, Accounted
<1>6. SpoiledByLoss
  <2>1. Spoiled = {} /\ torn = {} /\ lost = 0
    BY DEF LoggerInit, Spoiled
  <2> QED
    BY <2>1, FS_EmptySet DEF SpoiledByLoss
<1> QED
  BY <1>3, <1>4, <1>5, <1>6 DEF LoggerInv, LinesKept

LEMMA LogStep == ASSUME LoggerInv, NEW h \in Handlers, Log(h) PROVE LoggerInv'
<1>1. PICK next \in {"dump", "send"} :
        /\ at[h] = "idle" /\ at' = [at EXCEPT ![h] = next]
        /\ calls' = calls + 1 /\ calls < MaxCalls /\ stamp' = [stamp EXCEPT ![h] = <<today>>]
        /\ UNCHANGED <<ch, dropped, today, tried, loopVars>>
  BY DEF Log
<1>2. WaitingSet' = WaitingSet
  BY <1>1 DEF WaitingSet, LoggerInv, LoggerTypeOK
<1>3. LoggerTypeOK'
  BY <1>1, LoggerAssumption DEF LoggerInv, LoggerTypeOK, loopVars
<1>4. NotLater'
  BY <1>1 DEF LoggerInv, LoggerTypeOK, Days, NotLater, loopVars
<1>5. Stamped'
  BY <1>1 DEF LoggerInv, LoggerTypeOK, Stamped
<1> QED
  BY <1>1, <1>2, <1>3, <1>4, <1>5, WaitingKept, SpoiledKept
  DEF LoggerInv, LoopHolds, Numbered, LinesKept, Accounted, InOrder, RightDay, loopVars

LEMMA DumpStep == ASSUME LoggerInv, NEW h \in Handlers, DumpPayloadOnMiss(h) PROVE LoggerInv'
<1>1. PICK next \in {"stamp", "send"} :
        /\ at[h] = "dump" /\ at' = [at EXCEPT ![h] = next]
        /\ UNCHANGED <<ch, dropped, tried, callVars, loopVars>>
  BY DEF DumpPayloadOnMiss
<1>2. WaitingSet' = WaitingSet
  BY <1>1 DEF WaitingSet, LoggerInv, LoggerTypeOK
<1>3. LoggerTypeOK'
  BY <1>1 DEF LoggerInv, LoggerTypeOK, callVars, loopVars
<1>4. Stamped'
  BY <1>1 DEF LoggerInv, LoggerTypeOK, Stamped, callVars
<1> QED
  BY <1>1, <1>2, <1>3, <1>4, WaitingKept, SpoiledKept
  DEF LoggerInv, LoopHolds, NotLater, Numbered, LinesKept,
      Accounted, InOrder, RightDay, callVars, loopVars

LEMMA StampBefore ==
  ASSUME NEW S, NEW t \in S, NEW s \in Seq(S), Len(s) = 1
  PROVE  /\ <<t>> \o s \in Seq(S) /\ Len(<<t>> \o s) = 2
         /\ DOMAIN (<<t>> \o s) = {1, 2} /\ (<<t>> \o s)[1] = t /\ (<<t>> \o s)[2] = s[1]
<1>1. <<t>> \in Seq(S) /\ Len(<<t>>) = 1
  OBVIOUS
<1>2. <<t>> \o s \in Seq(S) /\ Len(<<t>> \o s) = 2
  BY <1>1
<1>3. DOMAIN (<<t>> \o s) = {1, 2}
  BY <1>2
<1> QED
  BY <1>1, <1>2, <1>3

LEMMA AnnounceDumpStep == ASSUME LoggerInv, NEW h \in Handlers, AnnounceDump(h) PROVE LoggerInv'
<1>1. /\ at[h] = "stamp" /\ at' = [at EXCEPT ![h] = "event"]
      /\ stamp' = [stamp EXCEPT ![h] = <<today>> \o stamp[h]]
      /\ UNCHANGED <<ch, dropped, today, tried, calls, loopVars>>
  BY DEF AnnounceDump
<1>2. WaitingSet' = WaitingSet
  BY <1>1 DEF WaitingSet, LoggerInv, LoggerTypeOK
<1> DEFINE new == <<today>> \o stamp[h]
<1>3. /\ new \in Seq(Days) /\ Len(new) = 2
      /\ \A i \in DOMAIN new : new[i] <= today
  <2>1. /\ stamp[h] \in Seq(Days) /\ Len(stamp[h]) = 1 /\ 1 \in DOMAIN stamp[h]
        /\ stamp[h][1] <= today /\ today \in Days
    BY <1>1 DEF LoggerInv, LoggerTypeOK, Stamped, NotLater
  <2>2. today <= today
    BY <2>1 DEF Days
  <2> QED
    BY <2>1, <2>2, StampBefore
<1> HIDE DEF new
<1>4. stamp' = [stamp EXCEPT ![h] = new]
  BY <1>1 DEF new
<1>5. LoggerTypeOK'
  BY <1>1, <1>3, <1>4 DEF LoggerInv, LoggerTypeOK, loopVars
<1>6. NotLater' /\ Stamped'
  BY <1>1, <1>3, <1>4 DEF LoggerInv, LoggerTypeOK, NotLater, Stamped, loopVars
<1> QED
  BY <1>1, <1>2, <1>5, <1>6, WaitingKept, SpoiledKept
  DEF LoggerInv, LoopHolds, Numbered, LinesKept, Accounted, InOrder, RightDay, loopVars

(* The try of the channel, of a line of a day that is not in the future.   *)
LEMMA SendStep ==
  ASSUME LoggerInv, NEW h \in Handlers, NEW full, NEW next, Send(h, full, next),
         <<at[h], full, next>> \in {<<"event", "eventFull", "send">>, <<"send", "sendFull", "idle">>}
  PROVE  LoggerInv'
<1> DEFINE day == Head(stamp[h])
           rest == Tail(stamp[h])
<1>0. /\ tried' = tried + 1 /\ UNCHANGED <<dropped, today, calls, loopVars>>
      /\ tried \in Nat /\ ch \in Seq(Line) /\ today \in Days /\ Len(ch) <= Capacity
      /\ full \in {"eventFull", "sendFull"} /\ next \in {"send", "idle"}
      /\ at[h] \in {"event", "send"}
      /\ stamp' = [stamp EXCEPT ![h] = rest]
      /\ \/ Len(ch) < Capacity /\ ch' = Append(ch, [n |-> tried', day |-> day]) /\ at' = [at EXCEPT ![h] = next]
         \/ Len(ch) = Capacity /\ at' = [at EXCEPT ![h] = full] /\ UNCHANGED ch
  BY DEF Send, LoggerInv, LoggerTypeOK
<1>a. /\ day \in Days /\ day <= today /\ rest \in Seq(Days)
      /\ Len(rest) = IF at[h] = "event" THEN 1 ELSE 0
      /\ \A i \in DOMAIN rest : rest[i] <= today
  <2>1. /\ stamp[h] \in Seq(Days) /\ Len(stamp[h]) = IF at[h] = "event" THEN 2 ELSE 1
        /\ \A i \in DOMAIN stamp[h] : stamp[h][i] <= today
    BY <1>0 DEF LoggerInv, LoggerTypeOK, Stamped, NotLater
  <2> QED
    BY <2>1
<1> HIDE DEF day, rest
<1>b. /\ stamp' \in [Handlers -> Seq(Days)]
      /\ \A g \in Handlers : \A i \in DOMAIN stamp'[g] : stamp'[g][i] <= today
  BY <1>0, <1>a DEF LoggerInv, LoggerTypeOK, NotLater
<1>c. Stamped'
  BY <1>0, <1>a DEF LoggerInv, LoggerTypeOK, Stamped
<1>1. CASE Len(ch) < Capacity /\ ch' = Append(ch, [n |-> tried', day |-> day]) /\ at' = [at EXCEPT ![h] = next]
  <2>1. WaitingSet' = WaitingSet
    BY <1>0, <1>1 DEF WaitingSet, LoggerInv, LoggerTypeOK
  <2> DEFINE x == [n |-> tried', day |-> day]
  <2>2. x \in Line /\ x.n = tried + 1 /\ x.day = day
    BY <1>0, <1>a DEF Line
  <2> HIDE DEF x
  <2>3. /\ ch' \in Seq(Line) /\ Len(ch') = Len(ch) + 1 /\ Len(ch') <= Capacity
        /\ DOMAIN ch' = 1..Len(ch) + 1 /\ DOMAIN ch = 1..Len(ch) /\ Len(ch) \in Nat
        /\ \A i \in DOMAIN ch' : ch'[i] = IF i = Len(ch) + 1 THEN x ELSE ch[i]
    BY <1>0, <1>1, <2>2, LoggerAssumption DEF x
  <2>4. LoggerTypeOK'
    <3>1. at' \in [Handlers -> {"idle", "dump", "stamp", "event", "eventFull", "send", "sendFull"}]
      BY <1>0, <1>1 DEF LoggerInv, LoggerTypeOK
    <3>2. tried' \in Nat
      BY <1>0
    <3> QED
      BY <1>0, <1>b, <2>3, <3>1, <3>2 DEF LoggerInv, LoggerTypeOK, loopVars
  <2>5. NotLater'
    <3>1. \A i \in DOMAIN ch' : ch'[i].day <= today
      BY <1>a, <2>2, <2>3 DEF LoggerInv, NotLater
    <3>2. /\ \A i \in DOMAIN taken : taken[i].day <= today
          /\ \A i \in DOMAIN written : written[i].file <= today
          /\ open <= today
      BY DEF LoggerInv, NotLater
    <3>3. taken' = taken /\ written' = written /\ open' = open /\ today' = today
      BY <1>0 DEF loopVars
    <3> QED
      BY <1>b, <3>1, <3>2, <3>3 DEF NotLater
  <2>6. Numbered'
    <3>1. /\ \A i \in DOMAIN taken : taken[i].n \in Nat /\ taken[i].n <= tried
          /\ \A i \in DOMAIN written : written[i].n \in Nat /\ written[i].n <= tried
          /\ \A i \in DOMAIN ch : ch[i].n \in Nat /\ ch[i].n <= tried
      BY LineShapes DEF LoggerInv, Numbered
    <3>2. taken' = taken /\ written' = written /\ tried' = tried + 1
      BY <1>0 DEF loopVars
    <3>3. \A i, j \in DOMAIN ch' : i < j => ch'[i].n < ch'[j].n
      <4> SUFFICES ASSUME NEW i \in DOMAIN ch', NEW j \in DOMAIN ch', i < j PROVE ch'[i].n < ch'[j].n
        OBVIOUS
      <4>1. i \in DOMAIN ch /\ ch'[i] = ch[i]
        BY <2>3
      <4>2. CASE j \in DOMAIN ch
        <5>1. ch'[j] = ch[j]
          BY <2>3, <4>2
        <5> QED
          BY <4>1, <4>2, <5>1 DEF LoggerInv, Numbered
      <4>3. CASE j = Len(ch) + 1
        BY <1>0, <2>2, <2>3, <3>1, <4>1, <4>3
      <4> QED
        BY <2>3, <4>2, <4>3
    <3>4. \A i \in DOMAIN ch' : ch'[i].n <= tried'
      BY <1>0, <2>2, <2>3, <3>1
    <3>5. /\ \A i \in DOMAIN taken, j \in DOMAIN ch' : taken[i].n < ch'[j].n
          /\ \A i \in DOMAIN written, j \in DOMAIN ch' : written[i].n < ch'[j].n
      <4>1. /\ \A i \in DOMAIN taken, j \in DOMAIN ch : taken[i].n < ch[j].n
            /\ \A i \in DOMAIN written, j \in DOMAIN ch : written[i].n < ch[j].n
        BY DEF LoggerInv, Numbered
      <4>2. \A j \in DOMAIN ch' : (j \in DOMAIN ch /\ ch'[j] = ch[j]) \/ ch'[j].n = tried + 1
        BY <2>2, <2>3
      <4>3. ASSUME NEW i \in DOMAIN taken, NEW j \in DOMAIN ch' PROVE taken[i].n < ch'[j].n
        <5>1. CASE j \in DOMAIN ch /\ ch'[j] = ch[j]
          BY <4>1, <5>1
        <5>2. CASE ch'[j].n = tried + 1
          BY <1>0, <3>1, <5>2
        <5> QED
          BY <4>2, <5>1, <5>2
      <4>4. ASSUME NEW i \in DOMAIN written, NEW j \in DOMAIN ch' PROVE written[i].n < ch'[j].n
        <5>1. CASE j \in DOMAIN ch /\ ch'[j] = ch[j]
          BY <4>1, <5>1
        <5>2. CASE ch'[j].n = tried + 1
          BY <1>0, <3>1, <5>2
        <5> QED
          BY <4>2, <5>1, <5>2
      <4> QED
        BY <4>3, <4>4
    <3>6. /\ \A i \in DOMAIN taken : taken[i].n <= tried'
          /\ \A i \in DOMAIN written : written[i].n <= tried'
      BY <1>0, <3>1
    <3> QED
      BY <3>2, <3>3, <3>4, <3>5, <3>6 DEF LoggerInv, Numbered
  <2>7. Accounted'
    BY <1>0, <2>1, <2>3, WaitingKept, WaitingIsNat
    DEF LoggerInv, LoggerTypeOK, LinesKept, Accounted, loopVars
  <2> QED
    BY <1>0, <1>c, <2>4, <2>5, <2>6, <2>7, SpoiledKept
    DEF LoggerInv, LoopHolds, LinesKept, InOrder, RightDay, loopVars
<1>2. CASE Len(ch) = Capacity /\ at' = [at EXCEPT ![h] = full] /\ UNCHANGED ch
  <2>1. h \notin WaitingSet /\ WaitingSet' = WaitingSet \cup {h}
    BY <1>0, <1>2 DEF WaitingSet, LoggerInv, LoggerTypeOK
  <2>2. Waiting' = Waiting + 1
    BY <2>1, WaitingMore
  <2>3. LoggerTypeOK'
    BY <1>0, <1>2, <1>b DEF LoggerInv, LoggerTypeOK, loopVars
  <2>4. Numbered'
    <3>1. /\ \A i \in DOMAIN taken : taken[i].n \in Nat
          /\ \A i \in DOMAIN written : written[i].n \in Nat
          /\ \A i \in DOMAIN ch : ch[i].n \in Nat
      BY LineShapes
    <3> QED
      BY <1>0, <1>2, <3>1 DEF LoggerInv, Numbered, loopVars
  <2>5. Accounted'
    <3>1. tried = Len(ch) + Len(taken) + Len(written) + dropped + Waiting + lost
      BY DEF LoggerInv, LinesKept, Accounted
    <3>2. /\ tried' = tried + 1 /\ ch' = ch /\ taken' = taken /\ written' = written
          /\ dropped' = dropped /\ lost' = lost
      BY <1>0, <1>2 DEF loopVars
    <3>3. /\ tried' = tried + 1
          /\ Len(ch') = Len(ch) /\ Len(taken') = Len(taken) /\ Len(written') = Len(written)
          /\ dropped' = dropped /\ lost' = lost /\ Waiting' = Waiting + 1
      BY <2>2, <3>2
    <3>4. /\ Len(ch) \in Nat /\ Len(taken) \in Nat /\ Len(written) \in Nat
          /\ dropped \in Nat /\ lost \in Nat /\ Waiting \in Nat
      BY LineShapes, WaitingIsNat DEF LoggerInv, LoggerTypeOK
    <3>5. tried' = Len(ch') + Len(taken') + Len(written') + dropped' + Waiting' + lost'
      BY <3>1, <3>3, <3>4
    <3> QED
      BY <3>5 DEF Accounted
  <2> QED
    BY <1>0, <1>2, <1>b, <1>c, <2>3, <2>4, <2>5, SpoiledKept
    DEF LoggerInv, LoopHolds, NotLater, LinesKept, InOrder, RightDay, loopVars
<1> QED
  BY <1>0, <1>1, <1>2

LEMMA CountStep == ASSUME LoggerInv, NEW h \in Handlers, incDropped(h) PROVE LoggerInv'
<1>1. /\ at[h] \in {"eventFull", "sendFull"} /\ dropped' = dropped + 1
      /\ at' = [at EXCEPT ![h] = IF at[h] = "eventFull" THEN "send" ELSE "idle"]
      /\ UNCHANGED <<ch, tried, callVars, loopVars>>
  BY DEF incDropped
<1>2. h \in WaitingSet /\ WaitingSet' = WaitingSet \ {h}
  BY <1>1 DEF WaitingSet, LoggerInv, LoggerTypeOK
<1>3. Waiting' = Waiting - 1
  BY <1>2, WaitingLess
<1>4. LoggerTypeOK'
  BY <1>1 DEF LoggerInv, LoggerTypeOK, callVars, loopVars
<1>5. Accounted'
  BY <1>1, <1>3, WaitingIsNat DEF LoggerInv, LoggerTypeOK, LinesKept, Accounted, loopVars
<1>6. Stamped'
  BY <1>1 DEF LoggerInv, LoggerTypeOK, Stamped, callVars
<1> QED
  BY <1>1, <1>4, <1>5, <1>6, SpoiledKept
  DEF LoggerInv, LoopHolds, NotLater, Numbered, LinesKept, InOrder, RightDay, callVars, loopVars
-----------------------------------------------------------------------------
LEMMA TakeStep == ASSUME LoggerInv, Take PROVE LoggerInv'
<1>1. /\ loop = "channel" /\ ch # <<>> /\ taken' = <<Head(ch)>> /\ ch' = Tail(ch) /\ loop' = "mutex"
      /\ UNCHANGED <<at, dropped, open, torn, tried, written, lost, callVars>>
      /\ ch \in Seq(Line) /\ taken = <<>>
  BY DEF Take, LoggerInv, LoggerTypeOK, LoopHolds
<1>2. /\ ch' \in Seq(Line) /\ Len(ch) = Len(ch') + 1 /\ Len(ch') \in Nat
      /\ DOMAIN ch' = 1..Len(ch') /\ DOMAIN ch = 1..Len(ch)
      /\ \A i \in DOMAIN ch' : ch'[i] = ch[i + 1] /\ i + 1 \in DOMAIN ch
  BY <1>1
<1>3. /\ taken' \in Seq(Line) /\ Len(taken') = 1 /\ DOMAIN taken' = {1} /\ taken'[1] = ch[1]
      /\ 1 \in DOMAIN ch
  BY <1>1
<1>4. LoggerTypeOK'
  BY <1>1, <1>2, <1>3, LoggerAssumption DEF LoggerInv, LoggerTypeOK, callVars
<1>5. NotLater'
  BY <1>1, <1>2, <1>3 DEF LoggerInv, NotLater, callVars
<1>6. Numbered'
  <2>1. \A i \in DOMAIN ch' : ch'[i].n <= tried /\ ch[1].n < ch'[i].n
    BY <1>2, <1>3 DEF LoggerInv, Numbered
  <2>2. \A i, j \in DOMAIN ch' : i < j => ch'[i].n < ch'[j].n
    BY <1>2 DEF LoggerInv, Numbered
  <2>3. \A i \in DOMAIN written, j \in DOMAIN ch' : written[i].n < ch'[j].n
    BY <1>2 DEF LoggerInv, Numbered
  <2> QED
    BY <1>1, <1>3, <2>1, <2>2, <2>3 DEF LoggerInv, Numbered
<1>7. Accounted'
  BY <1>1, <1>2, <1>3, AtKept, WaitingIsNat DEF LoggerInv, LoggerTypeOK, LinesKept, Accounted
<1> QED
  BY <1>1, <1>3, <1>4, <1>5, <1>6, <1>7, SpoiledKept
  DEF LoggerInv, LoopHolds, Stamped, LinesKept, InOrder, RightDay, callVars

LEMMA LockStep == ASSUME LoggerInv, Lock PROVE LoggerInv'
BY AtKept, SpoiledKept
DEF Lock, LoggerInv, LoggerTypeOK, LoopHolds, NotLater, Stamped,
    Numbered, LinesKept, Accounted, InOrder, RightDay, callVars

LEMMA EnsureStep == ASSUME LoggerInv, ensureFileLocked PROVE LoggerInv'
<1>1. /\ loop = "file" /\ open' = today /\ loop' = "write"
      /\ UNCHANGED <<at, ch, dropped, taken, torn, tried, written, lost, callVars>>
  BY DEF ensureFileLocked
<1>2. taken \in Seq(Line) /\ Len(taken) = 1
  BY <1>1 DEF LoggerInv, LoggerTypeOK, LoopHolds
<1>3. Head(taken) = taken[1] /\ 1 \in DOMAIN taken
  BY <1>2
<1>4. LoggerTypeOK' /\ LoopHolds'
  BY <1>1, <1>2, <1>3 DEF LoggerInv, LoggerTypeOK, LoopHolds, NotLater, callVars
<1>5. NotLater'
  BY <1>1 DEF LoggerInv, LoggerTypeOK, NotLater, Days, callVars
<1> QED
  BY <1>1, <1>4, <1>5, AtKept, SpoiledKept
  DEF LoggerInv, Stamped, Numbered, LinesKept, Accounted, InOrder, RightDay, callVars

LEMMA OpenFailsStep == ASSUME LoggerInv, OpenFails PROVE LoggerInv'
<1>1. /\ loop = "file" /\ open' = Closed /\ taken' = <<>> /\ lost' = lost + 1 /\ loop' = "channel"
      /\ UNCHANGED <<at, ch, dropped, torn, tried, written, callVars>>
  BY DEF OpenFails
<1>2. taken \in Seq(Line) /\ Len(taken) = 1 /\ Len(taken') = 0 /\ DOMAIN taken' = {} /\ taken' \in Seq(Line)
  BY <1>1 DEF LoggerInv, LoggerTypeOK, LoopHolds
<1>3. LoggerTypeOK'
  BY <1>1, <1>2 DEF LoggerInv, LoggerTypeOK, callVars
<1>4. Accounted'
  BY <1>1, <1>2, AtKept, WaitingIsNat DEF LoggerInv, LoggerTypeOK, LinesKept, Accounted
<1>5. NotLater'
  BY <1>1, <1>2 DEF LoggerInv, LoggerTypeOK, NotLater, Days, Closed, callVars
<1> QED
  BY <1>1, <1>2, <1>3, <1>4, <1>5, SpoiledKept
  DEF LoggerInv, LoopHolds, Stamped, Numbered, LinesKept, InOrder, RightDay, callVars

LEMMA WriteLineStep == ASSUME LoggerInv, WriteLine PROVE LoggerInv'
<1> DEFINE x == [n |-> Head(taken).n, day |-> Head(taken).day, file |-> open, alone |-> open \notin torn]
<1>1. /\ loop = "write" /\ taken' = <<>> /\ loop' = "channel"
      /\ UNCHANGED <<at, ch, dropped, open, tried, callVars>>
      /\ \/ written' = Append(written, x) /\ torn' = torn \ {open} /\ lost' = lost
         \/ lost' = lost + 1 /\ torn' \in {torn, torn \cup {open}} /\ written' = written
  BY DEF WriteLine
<1>2. /\ taken \in Seq(Line) /\ Len(taken) = 1
      /\ Len(taken') = 0 /\ DOMAIN taken' = {} /\ taken' \in Seq(Line)
      /\ Head(taken) = taken[1] /\ 1 \in DOMAIN taken /\ taken[1] \in Line /\ open \in Days
  <2>1. taken \in Seq(Line) /\ Len(taken) = 1 /\ open \in Days
    BY <1>1 DEF LoggerInv, LoggerTypeOK, LoopHolds
  <2>2. taken' = <<>>
    BY <1>1
  <2>3. Len(taken') = 0 /\ DOMAIN taken' = {} /\ taken' \in Seq(Line)
    BY <2>2
  <2>4. Head(taken) = taken[1] /\ 1 \in DOMAIN taken /\ taken[1] \in Line
    BY <2>1
  <2> QED
    BY <2>1, <2>3, <2>4
<1>3. /\ x \in Entry /\ x.n = taken[1].n /\ (x.alone <=> open \notin torn)
      /\ x.day <= x.file /\ x.file = open
      /\ \A i \in DOMAIN written : written[i].file <= x.file
  BY <1>1, <1>2 DEF LoggerInv, LoopHolds, Line, Entry
<1> HIDE DEF x
<1>4. CASE written' = Append(written, x) /\ torn' = torn \ {open} /\ lost' = lost
  <2>1. /\ written \in Seq(Entry)
        /\ written' \in Seq(Entry)
        /\ Len(written') = Len(written) + 1 /\ Len(written) \in Nat
        /\ DOMAIN written = 1..Len(written) /\ DOMAIN written' = 1..Len(written) + 1
        /\ \A i \in DOMAIN written' : written'[i] = IF i = Len(written) + 1 THEN x ELSE written[i]
    BY <1>3, <1>4 DEF LoggerInv, LoggerTypeOK, Entry
  <2>2. LoggerTypeOK'
    BY <1>1, <1>2, <1>4, <2>1 DEF LoggerInv, LoggerTypeOK, Entry, callVars
  <2>3. Numbered'
    <3>1. /\ x.n <= tried /\ \A j \in DOMAIN ch : x.n < ch[j].n
          /\ \A i \in DOMAIN written : written[i].n < x.n
      BY <1>2, <1>3 DEF LoggerInv, Numbered
    <3>2. \A i \in DOMAIN written' : written'[i].n <= tried /\ \A j \in DOMAIN ch : written'[i].n < ch[j].n
      BY <2>1, <3>1 DEF LoggerInv, Numbered
    <3> QED
      BY <1>1, <1>2, <3>2 DEF LoggerInv, Numbered
  <2>4. NotLater'
    <3>1. \A i \in DOMAIN written' : written'[i].file <= today
      BY <1>3, <2>1 DEF LoggerInv, NotLater
    <3>2. ch' = ch /\ open' = open /\ stamp' = stamp /\ today' = today
      BY <1>1 DEF callVars
    <3> QED
      BY <1>2, <3>1, <3>2 DEF LoggerInv, NotLater
  <2>5. InOrder' /\ RightDay'
    <3>1. \A i \in DOMAIN written : written[i].n < x.n
      BY <1>2, <1>3 DEF LoggerInv, Numbered
    <3>2. InOrder'
      <4> SUFFICES ASSUME NEW i \in DOMAIN written', NEW j \in DOMAIN written', i < j
                   PROVE  written'[i].n < written'[j].n /\ written'[i].file <= written'[j].file
        BY DEF InOrder
      <4>0. i \in 1..Len(written) + 1 /\ j \in 1..Len(written) + 1 /\ Len(written) \in Nat
        BY <2>1
      <4>1. i \in DOMAIN written /\ written'[i] = written[i]
        <5>1. i \in 1..Len(written) /\ i # Len(written) + 1
          BY <4>0
        <5> QED
          BY <2>1, <5>1
      <4>2. CASE j = Len(written) + 1
        <5>1. written'[j] = x
          BY <2>1, <4>2
        <5>2. written[i].n < x.n
          BY <3>1, <4>1
        <5>3. written[i].file <= x.file
          BY <1>3, <4>1
        <5> QED
          BY <4>1, <5>1, <5>2, <5>3
      <4>3. CASE j \in DOMAIN written
        <5>1. written'[j] = written[j]
          BY <2>1, <4>3
        <5>2. written[i].n < written[j].n /\ written[i].file <= written[j].file
          BY <4>1, <4>3 DEF LoggerInv, LinesKept, InOrder
        <5> QED
          BY <4>1, <5>1, <5>2
      <4> QED
        BY <2>1, <4>2, <4>3
    <3>3. RightDay'
      BY <1>3, <2>1 DEF LoggerInv, LinesKept, RightDay
    <3> QED
      BY <3>2, <3>3
  <2>6. Accounted'
    BY <1>1, <1>2, <1>4, <2>1, AtKept, WaitingIsNat
    DEF LoggerInv, LoggerTypeOK, LinesKept, Accounted
  <2>7. SpoiledByLoss'
    BY <1>3, <1>4, SpoiledByPiece
  <2> QED
    BY <1>1, <2>2, <2>3, <2>4, <2>5, <2>6, <2>7 DEF LoggerInv, LoopHolds, Stamped, LinesKept, callVars
<1>5. CASE lost' = lost + 1 /\ torn' \in {torn, torn \cup {open}} /\ written' = written
  <2>1. LoggerTypeOK'
    BY <1>1, <1>2, <1>5 DEF LoggerInv, LoggerTypeOK, callVars
  <2>2. Accounted'
    BY <1>1, <1>2, <1>5, AtKept, WaitingIsNat DEF LoggerInv, LoggerTypeOK, LinesKept, Accounted
  <2> QED
    BY <1>1, <1>2, <1>5, <2>1, <2>2, PieceIsLost
    DEF LoggerInv, LoopHolds, NotLater, Stamped, Numbered, LinesKept, InOrder, RightDay, callVars
<1> QED
  BY <1>1, <1>4, <1>5

LEMMA MidnightStep == ASSUME LoggerInv, Midnight PROVE LoggerInv'
<1>1. /\ today' = today + 1 /\ today < MaxDay /\ today \in Days /\ today' \in Days
      /\ UNCHANGED <<at, stamp, ch, dropped, tried, calls, loopVars>>
  BY LoggerAssumption DEF Midnight, LoggerInv, LoggerTypeOK, Days
<1>2. LoggerTypeOK'
  BY <1>1 DEF LoggerInv, LoggerTypeOK, loopVars
<1>3. NotLater'
  <2>1. /\ \A h \in Handlers : \A i \in DOMAIN stamp[h] : stamp[h][i] \in Int
        /\ \A i \in DOMAIN ch : ch[i].day \in Int
        /\ \A i \in DOMAIN taken : taken[i].day \in Int
        /\ \A i \in DOMAIN written : written[i].file \in Int
        /\ open \in Int /\ today \in Int
    <3>1. \A h \in Handlers : \A i \in DOMAIN stamp[h] : stamp[h][i] \in Days
      BY DEF LoggerInv, LoggerTypeOK
    <3>2. Days \subseteq Int
      BY DEF Days
    <3>3. \A h \in Handlers : \A i \in DOMAIN stamp[h] : stamp[h][i] \in Int
      BY <3>1, <3>2
    <3> QED
      BY <3>3, LineShapes
  <2> QED
    BY <1>1, <2>1 DEF LoggerInv, NotLater, loopVars
<1> QED
  BY <1>1, <1>2, <1>3, AtKept, SpoiledKept
  DEF LoggerInv, LoopHolds, Stamped, Numbered, LinesKept, Accounted, InOrder, RightDay, loopVars
-----------------------------------------------------------------------------
LEMMA LoggerStepKeeps == LoggerInv /\ [LoggerNext]_loggerVars => LoggerInv'
<1> SUFFICES ASSUME LoggerInv, [LoggerNext]_loggerVars PROVE LoggerInv'
  OBVIOUS
<1>1. ASSUME NEW h \in Handlers, Log(h) \/ DumpPayloadOnMiss(h) \/ AnnounceDump(h) \/ incDropped(h)
      PROVE  LoggerInv'
  BY <1>1, LogStep, DumpStep, AnnounceDumpStep, CountStep
<1>2. ASSUME NEW h \in Handlers, SendEvent(h) PROVE LoggerInv'
  BY <1>2, SendStep DEF SendEvent
<1>3. ASSUME NEW h \in Handlers, SendLine(h) PROVE LoggerInv'
  BY <1>3, SendStep DEF SendLine
<1>4. CASE Loop
  BY <1>4, TakeStep, LockStep, EnsureStep, OpenFailsStep, WriteLineStep DEF Loop
<1>5. CASE Midnight
  BY <1>5, MidnightStep
<1>6. CASE UNCHANGED loggerVars
  BY <1>6, AtKept, SpoiledKept
  DEF loggerVars, LoggerInv, LoggerTypeOK, LoopHolds,
      NotLater, Stamped, Numbered, LinesKept, Accounted, InOrder, RightDay
<1> QED
  BY <1>1, <1>2, <1>3, <1>4, <1>5, <1>6 DEF LoggerNext, Handler

(* The invariant: the loop holds one line or none, numbers and days only   *)
(* go up from the files through the loop to the channel, and a handler has *)
(* as many stamped lines to send as its place in Log says.                 *)
THEOREM LoggerInvariance == LoggerSpec => []LoggerInv
BY LoggerInitKeeps, LoggerStepKeeps, PTL DEF LoggerSpec

(* Every line that Log and LogEvent put to the channel is written, counted *)
(* as dropped, or gone with a file that failed; those that are written are *)
(* in the order of the channel and in the file of their day or a later one,*)
(* and each failed write spoils at most one of them.                       *)
THEOREM NoLineUncounted == LoggerSpec => []LinesKept
<1>1. LoggerInv => LinesKept
  BY DEF LoggerInv
<1> QED
  BY <1>1, LoggerInvariance, PTL
-----------------------------------------------------------------------------
(* WSHub.                                                                  *)

(* A list of rows in which no request has two. *)
OneRow(list) == \A i, j \in DOMAIN list : list[i].id = list[j].id => i = j
RowList(list) == list \in Seq(Rows) /\ OneRow(list)

(* What a row says has been announced by its request's handler. *)
Told(row) == handler[row.id] # "none" /\ (row.status = Final => handler[row.id] = Final)

(* No row has to be pushed out yet. *)
Few == Cardinality(Begun) <= MaxRecent

(* The row that says what the handler said last, and its way to the pages. *)
Latest(r) == Row(r, handler[r])
ToAdd(row) == [row |-> row, step |-> "add"]
ToCast(row) == [row |-> row, step |-> "cast"]

ListsFormed ==
  /\ RowList(recent) /\ Len(recent) <= MaxRecent
  /\ shown \in [Pages -> Seq(Rows)] /\ snapshot \in [Pages -> Seq(Rows)]
  /\ \A p \in Pages : RowList(shown[p]) /\ RowList(snapshot[p])

OnlyAnnounced ==
  /\ IsFiniteSet(Begun)
  /\ \A g \in sending : Told(g.row)
  /\ \A row \in RowsOf(recent) : Told(row)
  /\ \A p \in Pages : \A row \in RowsOf(shown[p]) \cup RowsOf(snapshot[p]) : Told(row)
  /\ \A p \in Pages : \A r \in guarded[p] : handler[r] = Final

(* What a handler said last is in the list, or is on its way there. *)
ListOwes == Few => \A r \in Begun : ToAdd(Latest(r)) \in sending \/ Latest(r) \in RowsOf(recent)

(* A page that follows a request shows it or will be sent it, and guards   *)
(* it as soon as it shows the end.                                         *)
PagesOwe ==
  \A p \in Pages : \A r \in followed[p] :
    /\ link[p] = "open"
    /\ r \in Begun
    /\ Row(r, Final) \in RowsOf(shown[p]) => r \in guarded[p]
    /\ Few => \/ {ToAdd(Latest(r)), ToCast(Latest(r))} \cap sending # {}
              \/ Latest(r) \in RowsOf(shown[p])

HubInv == HubTypeOK /\ ListsFormed /\ OnlyAnnounced /\ ListOwes /\ PagesOwe
-----------------------------------------------------------------------------
LEMMA RowFacts ==
  /\ \A row \in Rows : row.id \in Requests /\ row.status \in {"running", Final}
  /\ \A row \in Rows : row = Row(row.id, row.status)
  /\ \A r \in Requests, status \in {"running", Final} :
       /\ Row(r, status) \in Rows
       /\ Row(r, status).id = r /\ Row(r, status).status = status
  /\ "running" # Final
<1>1. \A r \in Requests, status \in {"running", Final} :
        /\ Row(r, status) \in Rows
        /\ Row(r, status).id = r /\ Row(r, status).status = status
  BY DEF Rows, Row
<1>2. \A row \in Rows : \E r \in Requests, status \in {"running", Final} : row = Row(r, status)
  BY DEF Rows
<1>3. "running" # Final
  BY DEF Final
<1> QED
  BY <1>1, <1>2, <1>3

LEMMA ListFacts ==
  ASSUME NEW list, RowList(list)
  PROVE  /\ list \in Seq(Rows) /\ Len(list) \in Nat /\ DOMAIN list = 1..Len(list)
         /\ \A i \in DOMAIN list : list[i] \in Rows /\ list[i] \in RowsOf(list)
         /\ RowsOf(list) \subseteq Rows
         /\ \A x, y \in RowsOf(list) : x.id = y.id => x = y
BY DEF RowList, OneRow, RowsOf

(* A row at the end, for a request that has none. *)
LEMMA AppendRow ==
  ASSUME NEW list, RowList(list), NEW row \in Rows, Positions(list, row.id) = {}
  PROVE  /\ RowList(Append(list, row))
         /\ RowsOf(Append(list, row)) = RowsOf(list) \cup {row}
         /\ Len(Append(list, row)) = Len(list) + 1
<1> DEFINE new == Append(list, row)
<1>1. /\ list \in Seq(Rows) /\ Len(list) \in Nat /\ DOMAIN list = 1..Len(list)
      /\ \A i \in DOMAIN list : list[i].id # row.id
  BY ListFacts DEF Positions
<1>2. /\ new \in Seq(Rows) /\ Len(new) = Len(list) + 1 /\ DOMAIN new = 1..(Len(list) + 1)
      /\ \A i \in DOMAIN list : new[i] = list[i]
      /\ new[Len(list) + 1] = row
  BY <1>1
<1>3. \A i \in DOMAIN new : i \in DOMAIN list \/ i = Len(list) + 1
  BY <1>1, <1>2
<1>4. DOMAIN list \subseteq DOMAIN new /\ Len(list) + 1 \in DOMAIN new
  BY <1>1, <1>2
<1> HIDE DEF new
<1>5. OneRow(new)
  BY <1>1, <1>2, <1>3 DEF OneRow, RowList
<1>6. RowsOf(new) = RowsOf(list) \cup {row}
  BY <1>2, <1>3, <1>4 DEF RowsOf
<1> QED
  BY <1>2, <1>5, <1>6 DEF RowList, new

(* A row on top of the others. *)
LEMMA PrependRow ==
  ASSUME NEW list, RowList(list), NEW row \in Rows, Positions(list, row.id) = {}
  PROVE  /\ RowList(<<row>> \o list)
         /\ RowsOf(<<row>> \o list) = RowsOf(list) \cup {row}
<1> DEFINE new == <<row>> \o list
<1>1. /\ list \in Seq(Rows) /\ Len(list) \in Nat /\ DOMAIN list = 1..Len(list)
      /\ \A i \in DOMAIN list : list[i].id # row.id
  BY ListFacts DEF Positions
<1>2. /\ new \in Seq(Rows) /\ Len(new) = Len(list) + 1 /\ DOMAIN new = 1..(Len(list) + 1)
      /\ \A i \in DOMAIN list : new[i + 1] = list[i]
      /\ new[1] = row
  BY <1>1
<1>3. \A i \in DOMAIN new : (i - 1 \in DOMAIN list /\ new[i] = list[i - 1]) \/ i = 1
  BY <1>1, <1>2
<1>4. (\A i \in DOMAIN list : i + 1 \in DOMAIN new) /\ 1 \in DOMAIN new
  BY <1>1, <1>2
<1>5. \A i \in DOMAIN new : i \in Int
  BY <1>2
<1> HIDE DEF new
<1>6. OneRow(new)
  <2> SUFFICES ASSUME NEW i \in DOMAIN new, NEW j \in DOMAIN new, new[i].id = new[j].id PROVE i = j
    BY DEF OneRow
  <2>1. CASE i = 1 \/ j = 1
    BY <1>1, <1>2, <1>3, <2>1
  <2>2. CASE i # 1 /\ j # 1
    <3>1. /\ i - 1 \in DOMAIN list /\ new[i] = list[i - 1]
          /\ j - 1 \in DOMAIN list /\ new[j] = list[j - 1]
      BY <1>3, <2>2
    <3>2. i - 1 = j - 1
      BY <3>1 DEF RowList, OneRow
    <3> QED
      BY <3>2, <1>5
  <2> QED
    BY <2>1, <2>2
<1>7. RowsOf(new) = RowsOf(list) \cup {row}
  <2>1. RowsOf(new) \subseteq RowsOf(list) \cup {row}
    BY <1>2, <1>3 DEF RowsOf
  <2>2. RowsOf(list) \cup {row} \subseteq RowsOf(new)
    BY <1>2, <1>4 DEF RowsOf
  <2> QED
    BY <2>1, <2>2
<1> QED
  BY <1>2, <1>6, <1>7 DEF RowList, new

(* A list without its first or its last row. *)
LEMMA ShorterList ==
  ASSUME NEW list, RowList(list), Len(list) > 0
  PROVE  /\ RowList(Tail(list)) /\ RowsOf(Tail(list)) \subseteq RowsOf(list)
         /\ Len(Tail(list)) = Len(list) - 1
         /\ RowList(Front(list)) /\ RowsOf(Front(list)) \subseteq RowsOf(list)
<1>1. list \in Seq(Rows) /\ Len(list) \in Nat /\ DOMAIN list = 1..Len(list)
  BY ListFacts
<1>2. /\ Tail(list) \in Seq(Rows) /\ Len(Tail(list)) = Len(list) - 1
      /\ DOMAIN Tail(list) = 1..(Len(list) - 1)
      /\ \A i \in DOMAIN Tail(list) : Tail(list)[i] = list[i + 1] /\ i + 1 \in DOMAIN list /\ i \in Int
  BY <1>1
<1>3. OneRow(Tail(list))
  <2> SUFFICES ASSUME NEW i \in DOMAIN Tail(list), NEW j \in DOMAIN Tail(list),
                      Tail(list)[i].id = Tail(list)[j].id
               PROVE  i = j
    BY DEF OneRow
  <2>1. i + 1 = j + 1
    BY <1>2 DEF RowList, OneRow
  <2> QED
    BY <2>1, <1>2
<1>4. RowsOf(Tail(list)) \subseteq RowsOf(list)
  BY <1>2 DEF RowsOf
<1>5. Front(list) = [i \in 1..(Len(list) - 1) |-> list[i]]
  BY <1>1 DEF Front, SubSeq
<1>6. /\ Front(list) \in Seq(Rows)
      /\ DOMAIN Front(list) \subseteq DOMAIN list
      /\ \A i \in DOMAIN Front(list) : Front(list)[i] = list[i]
  BY <1>1, <1>5
<1>7. OneRow(Front(list)) /\ RowsOf(Front(list)) \subseteq RowsOf(list)
  BY <1>6 DEF OneRow, RowList, RowsOf
<1> QED
  BY <1>2, <1>3, <1>4, <1>6, <1>7 DEF RowList

(* Rows that are replaced by rows of the same requests. *)
LEMMA ReplacedRows ==
  ASSUME NEW list, RowList(list), NEW new, DOMAIN new = DOMAIN list,
         new = [i \in DOMAIN list |-> new[i]],
         \A i \in DOMAIN list : new[i] \in Rows /\ new[i].id = list[i].id
  PROVE  RowList(new) /\ Len(new) = Len(list)
<1>1. Len(list) \in Nat /\ DOMAIN list = 1..Len(list)
  BY ListFacts
<1>2. new \in Seq(Rows) /\ Len(new) = Len(list)
  BY <1>1
<1> QED
  BY <1>2 DEF RowList, OneRow

(* AddRecentRequest: which rows the list has afterwards. *)
LEMMA WithRowFacts ==
  ASSUME NEW list, RowList(list), Len(list) <= MaxRecent, NEW row \in Rows
  PROVE  /\ RowList(WithRow(list, row)) /\ Len(WithRow(list, row)) <= MaxRecent
         /\ RowsOf(WithRow(list, row)) \subseteq RowsOf(list) \cup {row}
         /\ \A x \in RowsOf(list) :
              x.id # row.id /\ (Positions(list, row.id) # {} \/ Len(list) < MaxRecent)
                => x \in RowsOf(WithRow(list, row))
         /\ \A x \in RowsOf(list) :
              x.id = row.id /\ x.status = Final /\ row.status = "running"
                => x \in RowsOf(WithRow(list, row))
         /\ (\A x \in RowsOf(list) : x.id = row.id /\ x.status = Final => row.status # "running")
              => row \in RowsOf(WithRow(list, row))
<1> DEFINE new == WithRow(list, row)
<1>0. /\ list \in Seq(Rows) /\ Len(list) \in Nat /\ DOMAIN list = 1..Len(list)
      /\ \A i \in DOMAIN list : list[i] \in Rows /\ list[i] \in RowsOf(list)
  BY ListFacts
<1>1. CASE Positions(list, row.id) = {}
  <2> DEFINE rest == IF Len(list) >= MaxRecent THEN Tail(list) ELSE list
  <2>1. RowList(rest) /\ RowsOf(rest) \subseteq RowsOf(list) /\ Len(rest) < MaxRecent
    BY <1>0, ShorterList, HubAssumption
  <2>2. Positions(rest, row.id) = {}
    <3>1. \A x \in RowsOf(list) : x.id # row.id
      BY <1>1 DEF Positions, RowsOf
    <3> QED
      BY <2>1, <3>1 DEF Positions, RowsOf
  <2>3. Len(list) < MaxRecent => rest = list
    <3>1. Len(list) < MaxRecent => ~(Len(list) >= MaxRecent)
      BY <1>0, HubAssumption
    <3> QED
      BY <3>1
  <2>4. new = Append(rest, row)
    BY <1>1 DEF WithRow, Appended
  <2> HIDE DEF rest
  <2>5. RowList(new) /\ RowsOf(new) = RowsOf(rest) \cup {row} /\ Len(new) = Len(rest) + 1
    BY <2>1, <2>2, <2>4, AppendRow
  <2>6. Len(new) <= MaxRecent
    BY <2>1, <2>5, ListFacts, HubAssumption
  <2>7. \A x \in RowsOf(list) : x.id # row.id
    BY <1>1 DEF Positions, RowsOf
  <2> HIDE DEF new
  <2>8. \A x \in RowsOf(list) :
          (Positions(list, row.id) # {} \/ Len(list) < MaxRecent) => x \in RowsOf(new)
    BY <1>1, <2>3, <2>5
  <2> QED
    BY <2>1, <2>5, <2>6, <2>7, <2>8 DEF new
<1>2. CASE Positions(list, row.id) # {}
  <2>1. new = [i \in DOMAIN list |->
                 IF list[i].id = row.id /\ ~(list[i].status = Final /\ row.status = "running")
                 THEN row ELSE list[i]]
    BY <1>2 DEF WithRow
  <2>2. /\ DOMAIN new = DOMAIN list /\ new = [i \in DOMAIN list |-> new[i]]
        /\ \A i \in DOMAIN list :
             new[i] = IF list[i].id = row.id /\ ~(list[i].status = Final /\ row.status = "running")
                      THEN row ELSE list[i]
    BY <2>1
  <2> HIDE DEF new
  <2>3. RowList(new) /\ Len(new) = Len(list)
    BY <1>0, <2>2, ReplacedRows
  <2>4. RowsOf(new) \subseteq RowsOf(list) \cup {row}
    BY <2>2 DEF RowsOf
  <2>5. \A i \in DOMAIN list : new[i] \in RowsOf(new)
    BY <2>2 DEF RowsOf
  <2>6. \A x \in RowsOf(list) :
          x.id # row.id \/ (x.status = Final /\ row.status = "running") => x \in RowsOf(new)
    BY <2>2, <2>5 DEF RowsOf
  <2>7. (\A x \in RowsOf(list) : x.id = row.id /\ x.status = Final => row.status # "running")
          => row \in RowsOf(new)
    BY <1>0, <1>2, <2>2, <2>5 DEF Positions
  <2> QED
    BY <2>3, <2>4, <2>6, <2>7 DEF new
<1> QED
  BY <1>1, <1>2

(* prependLiveRequest: which rows the page has afterwards. *)
LEMMA PrependedFacts ==
  ASSUME NEW rows, RowList(rows), NEW guards, NEW row \in Rows
  PROVE  /\ RowList(Prepended(rows, guards, row))
         /\ RowsOf(Prepended(rows, guards, row)) \subseteq RowsOf(rows) \cup {row}
         /\ \A x \in RowsOf(rows) :
              x.id # row.id /\ (Positions(rows, row.id) # {} \/ Len(rows) < MaxRecent)
                => x \in RowsOf(Prepended(rows, guards, row))
         /\ \A x \in RowsOf(rows) :
              x.id = row.id /\ row.id \in guards /\ row.status = "running"
                => x \in RowsOf(Prepended(rows, guards, row))
         /\ row.id \notin guards \/ row.status # "running"
              => row \in RowsOf(Prepended(rows, guards, row))
<1> DEFINE new == Prepended(rows, guards, row)
<1>0. /\ rows \in Seq(Rows) /\ Len(rows) \in Nat /\ DOMAIN rows = 1..Len(rows)
      /\ \A i \in DOMAIN rows : rows[i] \in Rows /\ rows[i] \in RowsOf(rows)
  BY ListFacts
<1>1. CASE Positions(rows, row.id) = {}
  <2> DEFINE rest == IF Len(rows) >= MaxRecent THEN Front(rows) ELSE rows
  <2>1. RowList(rest) /\ RowsOf(rest) \subseteq RowsOf(rows)
    BY <1>0, ShorterList, HubAssumption
  <2>2. \A x \in RowsOf(rows) : x.id # row.id
    BY <1>1 DEF Positions, RowsOf
  <2>3. Positions(rest, row.id) = {}
    BY <2>1, <2>2 DEF Positions, RowsOf
  <2>4. Len(rows) < MaxRecent => rest = rows
    BY <1>0, HubAssumption
  <2>5. new = <<row>> \o rest
    BY <1>1 DEF Prepended
  <2> HIDE DEF rest
  <2>6. RowList(new) /\ RowsOf(new) = RowsOf(rest) \cup {row}
    BY <2>1, <2>3, <2>5, PrependRow
  <2> HIDE DEF new
  <2>7. \A x \in RowsOf(rows) :
          (Positions(rows, row.id) # {} \/ Len(rows) < MaxRecent) => x \in RowsOf(new)
    BY <1>1, <2>4, <2>6
  <2> QED
    BY <2>1, <2>2, <2>6, <2>7 DEF new
<1>2. CASE Positions(rows, row.id) # {}
  <2>1. new = [i \in DOMAIN rows |->
                 IF rows[i].id = row.id /\ ~(row.id \in guards /\ row.status = "running")
                 THEN row ELSE rows[i]]
    BY <1>2 DEF Prepended
  <2>2. /\ DOMAIN new = DOMAIN rows /\ new = [i \in DOMAIN rows |-> new[i]]
        /\ \A i \in DOMAIN rows :
             new[i] = IF rows[i].id = row.id /\ ~(row.id \in guards /\ row.status = "running")
                      THEN row ELSE rows[i]
    BY <2>1
  <2> HIDE DEF new
  <2>3. RowList(new)
    BY <1>0, <2>2, ReplacedRows
  <2>4. RowsOf(new) \subseteq RowsOf(rows) \cup {row}
    BY <2>2 DEF RowsOf
  <2>5. \A i \in DOMAIN rows : new[i] \in RowsOf(new)
    BY <2>2 DEF RowsOf
  <2>6. \A x \in RowsOf(rows) :
          x.id # row.id \/ (row.id \in guards /\ row.status = "running") => x \in RowsOf(new)
    BY <2>2, <2>5 DEF RowsOf
  <2>7. row.id \notin guards \/ row.status # "running" => row \in RowsOf(new)
    BY <1>0, <1>2, <2>2, <2>5 DEF Positions
  <2> QED
    BY <2>3, <2>4, <2>6, <2>7 DEF new
<1> QED
  BY <1>1, <1>2

LEMMA PutFacts ==
  ASSUME NEW rows, RowList(rows), NEW row \in Rows
  PROVE  RowList(Put(rows, row)) /\ RowsOf(Put(rows, row)) \subseteq RowsOf(rows) \cup {row}
<1> DEFINE new == Put(rows, row)
<1>1. CASE Positions(rows, row.id) = {}
  BY <1>1, AppendRow DEF Put
<1>2. CASE Positions(rows, row.id) # {}
  <2>1. new = [i \in DOMAIN rows |-> IF rows[i].id = row.id THEN row ELSE rows[i]]
    BY <1>2 DEF Put
  <2>2. /\ DOMAIN new = DOMAIN rows /\ new = [i \in DOMAIN rows |-> new[i]]
        /\ \A i \in DOMAIN rows : new[i] = IF rows[i].id = row.id THEN row ELSE rows[i]
    BY <2>1
  <2> HIDE DEF new
  <2>3. RowList(new)
    BY <2>2, ListFacts, ReplacedRows
  <2>4. RowsOf(new) \subseteq RowsOf(rows) \cup {row}
    BY <2>2 DEF RowsOf
  <2> QED
    BY <2>3, <2>4 DEF new
<1> QED
  BY <1>1, <1>2

(* renderRecentRequests, one row of the list after the other. *)
LEMMA RenderedSteps ==
  ASSUME NEW rows \in Seq(Rows), NEW list \in Seq(Rows)
  PROVE  \E f : /\ f[0] = rows
                /\ \A k \in 1..Len(list) : f[k] = Put(f[k - 1], Reverse(list)[k])
                /\ Rendered(rows, list) = f[Len(list)]
<1> DEFINE n == Len(list)
           rev == Reverse(list)
           step == [x \in Seq(Rows) \X (1..n) |-> Put(x[1], rev[x[2]])]
           body(it, s) == IF s = {} THEN rows ELSE Put(it[s \ {Max(s)}], rev[Max(s)])
           w == CHOOSE it : it = [s \in SUBSET (DOMAIN rev) |-> body(it, s)]
<1>1. n \in Nat /\ DOMAIN rev = 1..n /\ \A k \in 1..n : rev[k] \in Rows
  <2>1. rev = [k \in 1..n |-> list[(n - k) + 1]] /\ n \in Nat
    BY DEF Reverse
  <2>2. \A k \in 1..n : (n - k) + 1 \in 1..n
    BY <2>1
  <2> QED
    BY <2>1, <2>2
<1>2. step \in [Seq(Rows) \X (1..n) -> Seq(Rows)]
  <2>1. \A old \in Seq(Rows), row \in Rows : Put(old, row) \in Seq(Rows)
    <3> SUFFICES ASSUME NEW old \in Seq(Rows), NEW row \in Rows PROVE Put(old, row) \in Seq(Rows)
      OBVIOUS
    <3>1. Append(old, row) \in Seq(Rows)
      OBVIOUS
    <3>2. [i \in DOMAIN old |-> IF old[i].id = row.id THEN row ELSE old[i]] \in Seq(Rows)
      OBVIOUS
    <3> QED
      BY <3>1, <3>2 DEF Put
  <2> QED
    BY <1>1, <2>1
<1> HIDE DEF rev
<1>3. PICK it : IsFold(it, Seq(Rows), rows, n, step)
  <2>1. n \in Nat
    BY <1>1
  <2> HIDE DEF step, n
  <2> QED
    BY <2>1, <1>2, FoldExists
<1>4. \A s \in SUBSET (1..n) : it[s] = body(it, s)
  <2> SUFFICES ASSUME NEW s \in SUBSET (1..n), s # {} PROVE it[s] = body(it, s)
    BY <1>3 DEF IsFold
  <2>1. Max(s) \in 1..n /\ it[s \ {Max(s)}] \in Seq(Rows)
    BY <1>3 DEF IsFold
  <2>2. it[s] = step[<<it[s \ {Max(s)}], Max(s)>>]
    BY <1>3 DEF IsFold
  <2> QED
    BY <2>1, <2>2
<1>5. it = [s \in SUBSET (DOMAIN rev) |-> body(it, s)]
  <2> HIDE DEF body, n
  <2> QED
    BY <1>1, <1>3, <1>4 DEF IsFold
<1>6. w = [s \in SUBSET (DOMAIN rev) |-> body(w, s)]
  <2> HIDE DEF body
  <2> QED
    BY <1>5
<1>7. Rendered(rows, list) = w[DOMAIN rev]
  BY DEF Rendered, FoldLeft, MapThenFoldSet, rev
<1> HIDE DEF w
<1> DEFINE f == [k \in 0..n |-> w[1..k]]
<1>8. f[0] = rows
  BY <1>1, <1>6
<1>9. ASSUME NEW k \in 1..n PROVE f[k] = Put(f[k - 1], rev[k])
  <2>0. k \in Nat /\ k > 0
    BY <1>1
  <2>1. Max(1..k) = k /\ (1..k) \ {k} = 1..(k - 1)
    BY <2>0, MaxOfRange
  <2>2. w[1..k] = body(w, 1..k)
    <3>1. 1..k \in SUBSET (DOMAIN rev)
      BY <1>1
    <3> HIDE DEF body
    <3> QED
      BY <3>1, <1>6
  <2>3. f[k] = w[1..k] /\ f[k - 1] = w[1..(k - 1)]
    BY <1>1
  <2>4. 1..k # {}
    <3>1. k \in 1..k
      BY <2>0
    <3> QED
      BY <3>1
  <2> QED
    BY <2>1, <2>2, <2>3, <2>4
<1>10. Rendered(rows, list) = f[n]
  BY <1>1, <1>7
<1> QED
  BY <1>8, <1>9, <1>10 DEF rev

(* The snapshot puts no second row of a request on the page. *)
LEMMA RenderedFacts ==
  ASSUME NEW rows, RowList(rows), NEW list, RowList(list)
  PROVE  /\ RowList(Rendered(rows, list))
         /\ RowsOf(Rendered(rows, list)) \subseteq RowsOf(rows) \cup RowsOf(list)
<1>1. /\ rows \in Seq(Rows) /\ list \in Seq(Rows) /\ Len(list) \in Nat
      /\ DOMAIN list = 1..Len(list)
      /\ \A i \in DOMAIN list : list[i] \in Rows /\ list[i] \in RowsOf(list)
  BY ListFacts
<1> DEFINE n == Len(list)
           rev == Reverse(list)
<1>2. \A k \in 1..n : rev[k] \in Rows /\ rev[k] \in RowsOf(list)
  <2>1. rev = [k \in 1..n |-> list[(n - k) + 1]]
    BY <1>1 DEF Reverse
  <2>2. \A k \in 1..n : (n - k) + 1 \in 1..n
    BY <1>1
  <2> QED
    BY <1>1, <2>1, <2>2
<1>3. PICK f : /\ f[0] = rows
               /\ \A k \in 1..n : f[k] = Put(f[k - 1], rev[k])
               /\ Rendered(rows, list) = f[n]
  BY <1>1, RenderedSteps
<1> HIDE DEF rev
<1> DEFINE Good(k) == /\ RowList(f[k])
                      /\ RowsOf(f[k]) \subseteq RowsOf(rows) \cup RowsOf(list)
           S == {k \in Nat : k <= n => Good(k)}
<1>4. 0 \in S
  BY <1>3
<1>5. ASSUME NEW k \in Nat, k \in S PROVE k + 1 \in S
  <2> SUFFICES ASSUME k + 1 <= n PROVE Good(k + 1)
    OBVIOUS
  <2>1. k <= n /\ k + 1 \in 1..n /\ (k + 1) - 1 = k
    BY <1>1
  <2>2. RowList(f[k]) /\ RowsOf(f[k]) \subseteq RowsOf(rows) \cup RowsOf(list)
    BY <1>5, <2>1
  <2>3. f[k + 1] = Put(f[k], rev[k + 1])
    BY <1>3, <2>1
  <2>4. rev[k + 1] \in Rows /\ rev[k + 1] \in RowsOf(list)
    BY <1>2, <2>1
  <2>5. /\ RowList(Put(f[k], rev[k + 1]))
        /\ RowsOf(Put(f[k], rev[k + 1])) \subseteq RowsOf(f[k]) \cup {rev[k + 1]}
    BY <2>2, <2>4, PutFacts
  <2> QED
    BY <2>2, <2>3, <2>4, <2>5
<1>6. n \in S
  <2> HIDE DEF S
  <2>1. Nat \subseteq S
    BY <1>4, <1>5, InductiveSet
  <2> QED
    BY <1>1, <2>1
<1>7. n <= n
  BY <1>1
<1> QED
  BY <1>3, <1>6, <1>7

(* A list that only has rows of requests that have begun has room for one  *)
(* more, as long as there are few.                                         *)
LEMMA RoomForOneMore ==
  ASSUME IsFiniteSet(Begun), Few, NEW list, RowList(list),
         \A x \in RowsOf(list) : x.id \in Begun,
         NEW r \in Begun, Positions(list, r) = {}
  PROVE  Len(list) < MaxRecent
<1>1. /\ Len(list) \in Nat /\ DOMAIN list = 1..Len(list)
      /\ \A i \in DOMAIN list : list[i] \in RowsOf(list)
  BY ListFacts
<1> DEFINE others == Begun \ {r}
           ids == [i \in 1..Len(list) |-> list[i].id]
<1>2. /\ IsFiniteSet(others) /\ Cardinality(others) = Cardinality(Begun) - 1
      /\ Cardinality(Begun) \in Nat /\ Cardinality(others) \in Nat
  BY FS_RemoveElement, FS_CardinalityType
<1>3. ids \in Injection(1..Len(list), others)
  <2>1. \A i \in 1..Len(list) : list[i].id \in others
    BY <1>1 DEF Positions
  <2>2. \A i, j \in 1..Len(list) : list[i].id = list[j].id => i = j
    BY <1>1 DEF RowList, OneRow
  <2> QED
    BY <2>1, <2>2 DEF Injection, IsInjective
<1>4. Cardinality(1..Len(list)) <= Cardinality(others)
  <2> HIDE DEF ids, others
  <2> QED
    BY <1>2, <1>3, FS_Injection
<1>5. Cardinality(1..Len(list)) = Len(list)
  <2>1. Len(list) \in Nat /\ Len(list) \in Int /\ 1 \in Int
    BY <1>1 DEF RowList
  <2>2. Cardinality(1..Len(list)) = IF 1 > Len(list) THEN 0 ELSE Len(list) - 1 + 1
    BY <2>1, FS_Interval
  <2> QED
    BY <2>1, <2>2
<1> QED
  BY <1>1, <1>2, <1>4, <1>5, HubAssumption DEF Few
-----------------------------------------------------------------------------
LEMMA HubInitInv == HubInit => HubInv
<1> SUFFICES ASSUME HubInit PROVE HubInv
  OBVIOUS
<1>1. RowList(<<>>) /\ RowsOf(<<>>) = {} /\ Len(<<>>) = 0
  BY DEF RowList, OneRow, RowsOf
<1>2. Begun = {}
  BY DEF Begun, HubInit
<1>3. ListsFormed
  BY <1>1, HubAssumption DEF ListsFormed, HubInit
<1>4. HubTypeOK
  BY <1>1, HubAssumption DEF HubTypeOK, HubInit
<1>5. OnlyAnnounced
  BY <1>1, <1>2, FS_EmptySet DEF OnlyAnnounced, HubInit
<1> QED
  BY <1>2, <1>3, <1>4, <1>5 DEF HubInv, ListOwes, PagesOwe, HubInit

(* The lists are lists of rows: what the type invariant says of them. *)
LEMMA RowsTyped ==
  ASSUME ListsFormed
  PROVE  /\ RowsOf(recent) \subseteq Rows /\ Len(recent) <= MaxRecent
         /\ \A p \in Pages : RowsOf(shown[p]) \cup RowsOf(snapshot[p]) \subseteq Rows
BY ListFacts DEF ListsFormed

LEMMA HandlerKept ==
  ASSUME UNCHANGED handler
  PROVE  /\ Begun' = Begun /\ (Few' <=> Few)
         /\ \A r : Latest(r)' = Latest(r)
         /\ \A row : Told(row)' <=> Told(row)
BY DEF Begun, Few, Latest, Told

(* What the announcements say, and when there are few. *)
LEMMA AnnounceStep ==
  ASSUME HubInv, NEW r \in Requests, NEW status \in {"running", Final},
         handler' = [handler EXCEPT ![r] = status],
         sending' = sending \cup {ToAdd(Row(r, status))},
         IF status = "running" THEN handler[r] = "none" ELSE handler[r] = "running"
  PROVE  /\ handler' \in [Requests -> {"none", "running", Final}]
         /\ sending' \subseteq [row : Rows, step : {"add", "cast"}]
         /\ IsFiniteSet(Begun') /\ Begun' = Begun \cup {r} /\ (Few' => Few)
         /\ \A row \in Rows : Told(row) => Told(row)'
         /\ \A g \in sending' : Told(g.row)'
         /\ \A x \in Begun' : x # r => x \in Begun /\ Latest(x)' = Latest(x)
         /\ ToAdd(Latest(r)') \in sending'
<1> USE DEF HubInv, HubTypeOK
<1>1. /\ handler' \in [Requests -> {"none", "running", Final}]
      /\ \A x \in Requests : x # r => handler'[x] = handler[x]
      /\ handler'[r] = status
  OBVIOUS
<1>2. Row(r, status) \in Rows /\ Row(r, status).id = r /\ Row(r, status).status = status
  BY RowFacts
<1>3. "none" # Final /\ "running" # Final
  BY DEF Final
<1>4. Begun' = Begun \cup {r}
  BY <1>1, <1>3 DEF Begun
<1>5. IsFiniteSet(Begun') /\ Cardinality(Begun) \in Nat /\ Cardinality(Begun') \in Nat
      /\ Cardinality(Begun) <= Cardinality(Begun')
  <2>1. IsFiniteSet(Begun)
    BY DEF OnlyAnnounced
  <2>2. IsFiniteSet(Begun \cup {r})
    BY <2>1, FS_AddElement
  <2>3. Cardinality(Begun) <= Cardinality(Begun \cup {r})
    BY <2>2, FS_Subset
  <2> QED
    BY <1>4, <2>1, <2>2, <2>3, FS_CardinalityType
<1>6. Few' => Few
  BY <1>5, HubAssumption DEF Few
<1>7. \A row \in Rows : Told(row) => Told(row)'
  <2> SUFFICES ASSUME NEW row \in Rows, Told(row) PROVE Told(row)'
    OBVIOUS
  <2>1. row.id \in Requests /\ row.status \in {"running", Final}
    BY RowFacts
  <2>2. CASE row.id = r
    BY <1>1, <1>3, <2>1, <2>2 DEF Told
  <2>3. CASE row.id # r
    BY <1>1, <2>1, <2>3 DEF Told
  <2> QED
    BY <2>2, <2>3
<1>8. Told(Row(r, status))'
  BY <1>1, <1>2, <1>3 DEF Told
<1>9. /\ ToAdd(Row(r, status)) \in [row : Rows, step : {"add", "cast"}]
      /\ ToAdd(Row(r, status)).row = Row(r, status)
  BY <1>2 DEF ToAdd
<1>10. \A g \in sending' : Told(g.row)'
  <2> SUFFICES ASSUME NEW g \in sending' PROVE Told(g.row)'
    OBVIOUS
  <2>1. CASE g \in sending
    <3>1. g.row \in Rows /\ Told(g.row)
      BY <2>1 DEF OnlyAnnounced
    <3> QED
      BY <3>1, <1>7
  <2>2. CASE g = ToAdd(Row(r, status))
    BY <1>8, <1>9, <2>2
  <2> QED
    BY <2>1, <2>2
<1>11. \A x \in Begun' : x # r => x \in Begun /\ Latest(x)' = Latest(x)
  BY <1>1, <1>4 DEF Latest, Begun
<1>12. ToAdd(Latest(r)') \in sending'
  BY <1>1 DEF Latest
<1> QED
  BY <1>1, <1>4, <1>5, <1>6, <1>7, <1>9, <1>10, <1>11, <1>12

LEMMA BeginStep == ASSUME HubInv, NEW r \in Requests, Begin(r) PROVE HubInv'
<1>1. /\ handler[r] = "none"
      /\ handler' = [handler EXCEPT ![r] = "running"]
      /\ sending' = sending \cup {ToAdd(Row(r, "running"))}
      /\ followed' = [p \in Pages |-> IF link[p] = "open" THEN followed[p] \cup {r} ELSE followed[p]]
      /\ UNCHANGED <<recent, link, snapshot, shown, guarded>>
  BY DEF Begin, Announce, ToAdd
<1>2. /\ handler' \in [Requests -> {"none", "running", Final}]
      /\ sending' \subseteq [row : Rows, step : {"add", "cast"}]
      /\ IsFiniteSet(Begun') /\ Begun' = Begun \cup {r} /\ (Few' => Few)
      /\ \A row \in Rows : Told(row) => Told(row)'
      /\ \A g \in sending' : Told(g.row)'
      /\ \A x \in Begun' : x # r => x \in Begun /\ Latest(x)' = Latest(x)
      /\ ToAdd(Latest(r)') \in sending'
  BY <1>1, AnnounceStep
<1>3. ListsFormed'
  BY <1>1 DEF HubInv, ListsFormed
<1>4. HubTypeOK'
  <2>1. followed' \in [Pages -> SUBSET Requests]
    BY <1>1 DEF HubInv, HubTypeOK
  <2> QED
    BY <1>1, <1>2, <2>1 DEF HubInv, HubTypeOK
<1>5. OnlyAnnounced'
  <2>1. \A p \in Pages : \A x \in guarded[p] : handler'[x] = Final
    BY <1>1 DEF HubInv, HubTypeOK, OnlyAnnounced, Final
  <2>2. \A row \in RowsOf(recent) : Told(row)'
    BY <1>2, RowsTyped DEF HubInv, OnlyAnnounced
  <2>3. \A p \in Pages : \A row \in RowsOf(shown[p]) \cup RowsOf(snapshot[p]) : Told(row)'
    BY <1>2, RowsTyped DEF HubInv, OnlyAnnounced
  <2> QED
    BY <1>1, <1>2, <2>1, <2>2, <2>3 DEF OnlyAnnounced
<1>6. ListOwes'
  BY <1>1, <1>2 DEF HubInv, ListOwes
<1>7. PagesOwe'
  <2> SUFFICES ASSUME NEW p \in Pages, NEW x \in followed'[p]
               PROVE  /\ link[p] = "open"
                      /\ x \in Begun'
                      /\ Row(x, Final) \in RowsOf(shown[p]) => x \in guarded[p]
                      /\ Few' => \/ {ToAdd(Latest(x)'), ToCast(Latest(x)')} \cap sending' # {}
                                 \/ Latest(x)' \in RowsOf(shown[p])
    BY <1>1 DEF PagesOwe
  <2>1. CASE x = r
    <3>1. Row(x, Final) \notin RowsOf(shown[p])
      <4>1. ~Told(Row(x, Final))
        BY <1>1, <2>1, RowFacts DEF Told
      <4> QED
        BY <4>1 DEF HubInv, OnlyAnnounced
    <3>2. link[p] = "open"
      BY <1>1, <2>1 DEF HubInv, PagesOwe
    <3> QED
      BY <1>2, <2>1, <3>1, <3>2
  <2>2. CASE x # r
    <3>1. x \in followed[p]
      BY <1>1, <2>2 DEF HubInv, HubTypeOK
    <3> QED
      BY <1>1, <1>2, <2>2, <3>1 DEF HubInv, PagesOwe
  <2> QED
    BY <2>1, <2>2
<1> QED
  BY <1>3, <1>4, <1>5, <1>6, <1>7 DEF HubInv

LEMMA EndStep == ASSUME HubInv, NEW r \in Requests, End(r) PROVE HubInv'
<1>1. /\ handler[r] = "running"
      /\ handler' = [handler EXCEPT ![r] = Final]
      /\ sending' = sending \cup {ToAdd(Row(r, Final))}
      /\ UNCHANGED <<recent, link, snapshot, shown, guarded, followed>>
  BY DEF End, Announce, ToAdd, pages
<1>2. /\ handler' \in [Requests -> {"none", "running", Final}]
      /\ sending' \subseteq [row : Rows, step : {"add", "cast"}]
      /\ IsFiniteSet(Begun') /\ Begun' = Begun \cup {r} /\ (Few' => Few)
      /\ \A row \in Rows : Told(row) => Told(row)'
      /\ \A g \in sending' : Told(g.row)'
      /\ \A x \in Begun' : x # r => x \in Begun /\ Latest(x)' = Latest(x)
      /\ ToAdd(Latest(r)') \in sending'
  BY <1>1, AnnounceStep, RowFacts
<1>3. ListsFormed'
  BY <1>1 DEF HubInv, ListsFormed
<1>4. HubTypeOK'
  BY <1>1, <1>2 DEF HubInv, HubTypeOK
<1>5. OnlyAnnounced'
  <2>1. \A p \in Pages : \A x \in guarded[p] : handler'[x] = Final
    BY <1>1 DEF HubInv, HubTypeOK, OnlyAnnounced
  <2>2. \A row \in RowsOf(recent) : Told(row)'
    BY <1>2, RowsTyped DEF HubInv, OnlyAnnounced
  <2>3. \A p \in Pages : \A row \in RowsOf(shown[p]) \cup RowsOf(snapshot[p]) : Told(row)'
    BY <1>2, RowsTyped DEF HubInv, OnlyAnnounced
  <2> QED
    BY <1>1, <1>2, <2>1, <2>2, <2>3 DEF OnlyAnnounced
<1>6. ListOwes'
  BY <1>1, <1>2 DEF HubInv, ListOwes
<1>7. PagesOwe'
  <2> SUFFICES ASSUME NEW p \in Pages, NEW x \in followed[p]
               PROVE  /\ link[p] = "open"
                      /\ x \in Begun'
                      /\ Row(x, Final) \in RowsOf(shown[p]) => x \in guarded[p]
                      /\ Few' => \/ {ToAdd(Latest(x)'), ToCast(Latest(x)')} \cap sending' # {}
                                 \/ Latest(x)' \in RowsOf(shown[p])
    BY <1>1 DEF PagesOwe
  <2>1. CASE x = r
    BY <1>2, <2>1 DEF HubInv, PagesOwe
  <2>2. CASE x # r
    BY <1>1, <1>2, <2>2 DEF HubInv, PagesOwe
  <2> QED
    BY <2>1, <2>2
<1> QED
  BY <1>3, <1>4, <1>5, <1>6, <1>7 DEF HubInv

LEMMA SendingFacts ==
  ASSUME HubInv, NEW g \in sending
  PROVE  /\ g.row \in Rows /\ Told(g.row) /\ g.row.id \in Begun
         /\ g.row = Row(g.row.id, g.row.status)
         /\ g.step = "add" => g = ToAdd(g.row) /\ [g EXCEPT !.step = "cast"] = ToCast(g.row)
         /\ g.step = "cast" => g = ToCast(g.row)
         /\ g.row # Latest(g.row.id) => g.row.status = "running" /\ handler[g.row.id] = Final
<1>1. g \in [row : Rows, step : {"add", "cast"}] /\ Told(g.row)
  BY DEF HubInv, HubTypeOK, OnlyAnnounced
<1>2. /\ g.row \in Rows /\ g.row.id \in Requests /\ g.row.status \in {"running", Final}
      /\ g.row = Row(g.row.id, g.row.status)
  BY <1>1, RowFacts
<1>3. g.step = "add" => g = ToAdd(g.row) /\ [g EXCEPT !.step = "cast"] = ToCast(g.row)
  BY <1>1 DEF ToAdd, ToCast
<1>4. g.step = "cast" => g = ToCast(g.row)
  BY <1>1 DEF ToCast
<1>5. handler[g.row.id] \in {"none", "running", Final}
  BY <1>2 DEF HubInv, HubTypeOK
<1>6. g.row # Latest(g.row.id) => g.row.status = "running" /\ handler[g.row.id] = Final
  <2>1. g.row.status # handler[g.row.id] => g.row.status = "running" /\ handler[g.row.id] = Final
    BY <1>1, <1>2, <1>5, RowFacts DEF Told
  <2> QED
    BY <1>2, <2>1 DEF Latest
<1> QED
  BY <1>1, <1>2, <1>3, <1>4, <1>6 DEF Told, Begun

LEMMA ToAddFacts ==
  /\ \A x, y : ToAdd(x) # ToCast(y)
  /\ \A x, y : ToAdd(x) = ToAdd(y) => x = y
  /\ \A x, y : ToCast(x) = ToCast(y) => x = y
  /\ \A x : ToAdd(x).row = x /\ ToAdd(x).step = "add"
  /\ \A x : ToCast(x).row = x /\ ToCast(x).step = "cast"
<1>1. /\ \A x : ToAdd(x).row = x /\ ToAdd(x).step = "add"
      /\ \A x : ToCast(x).row = x /\ ToCast(x).step = "cast"
  BY DEF ToAdd, ToCast
<1>2. "add" # "cast"
  OBVIOUS
<1> QED
  BY <1>1, <1>2

LEMMA LatestFacts ==
  ASSUME HubInv, NEW r \in Begun
  PROVE  /\ Latest(r) \in Rows /\ Latest(r).id = r /\ Latest(r).status = handler[r]
         /\ r \in Requests
<1>1. r \in Requests /\ handler[r] \in {"running", Final}
  BY DEF Begun, HubInv, HubTypeOK
<1> QED
  BY <1>1, RowFacts DEF Latest

(* AddRecentRequest. *)
LEMMA AddStep == ASSUME HubInv, NEW g \in sending, Add(g) PROVE HubInv'
<1> DEFINE row == g.row
<1>1. /\ g.step = "add" /\ recent' = WithRow(recent, row)
      /\ sending' = (sending \ {ToAdd(row)}) \cup {ToCast(row)}
      /\ ToAdd(row) \in sending
      /\ UNCHANGED <<handler, link, snapshot, shown, guarded, followed>>
  BY SendingFacts DEF Add, pages
<1>2. /\ row \in Rows /\ Told(row) /\ row.id \in Begun
      /\ row # Latest(row.id) => row.status = "running" /\ handler[row.id] = Final
  BY SendingFacts
<1> HIDE DEF row
<1>3. /\ RowList(recent') /\ Len(recent') <= MaxRecent
      /\ RowsOf(recent') \subseteq RowsOf(recent) \cup {row}
      /\ \A x \in RowsOf(recent) :
           x.id # row.id /\ (Positions(recent, row.id) # {} \/ Len(recent) < MaxRecent)
             => x \in RowsOf(recent')
      /\ \A x \in RowsOf(recent) :
           x.id = row.id /\ x.status = Final /\ row.status = "running" => x \in RowsOf(recent')
      /\ (\A x \in RowsOf(recent) : x.id = row.id /\ x.status = Final => row.status # "running")
           => row \in RowsOf(recent')
  BY <1>1, <1>2, WithRowFacts DEF HubInv, ListsFormed
<1>4. ListsFormed'
  BY <1>1, <1>3 DEF HubInv, ListsFormed
<1>5. HubTypeOK'
  <2>1. ToCast(row) \in [row : Rows, step : {"add", "cast"}]
    BY <1>2 DEF ToCast
  <2> QED
    BY <1>1, <1>4, <2>1, RowsTyped DEF HubInv, HubTypeOK, ListsFormed, RowList, RowsOf
<1>6. OnlyAnnounced'
  <2>1. \A h \in sending' : Told(h.row)
    BY <1>1, <1>2, ToAddFacts DEF HubInv, OnlyAnnounced
  <2>2. \A x \in RowsOf(recent') : Told(x)
    BY <1>2, <1>3 DEF HubInv, OnlyAnnounced
  <2> QED
    BY <1>1, <2>1, <2>2, HandlerKept DEF HubInv, OnlyAnnounced
<1>7. ListOwes'
  <2> SUFFICES ASSUME Few, NEW r \in Begun, ToAdd(Latest(r)) \notin sending'
               PROVE  Latest(r) \in RowsOf(recent')
    BY <1>1, HandlerKept DEF ListOwes
  <2>1. Latest(r).id = r /\ Latest(r).status = handler[r] /\ Latest(r) \in Rows
    BY LatestFacts
  <2>2. Positions(recent, row.id) # {} \/ Len(recent) < MaxRecent
    <3>1. \A x \in RowsOf(recent) : x.id \in Begun
      BY RowsTyped, RowFacts DEF HubInv, OnlyAnnounced, Told, Begun
    <3> QED
      BY <1>2, <3>1, RoomForOneMore DEF HubInv, ListsFormed, OnlyAnnounced
  <2>3. CASE ToAdd(Latest(r)) \in sending
    <3>1. Latest(r) = row
      BY <1>1, <2>3, ToAddFacts
    <3>2. \A x \in RowsOf(recent) : x.id = row.id /\ x.status = Final => row.status # "running"
      BY <2>1, <3>1, RowFacts DEF HubInv, OnlyAnnounced, Told
    <3> QED
      BY <1>3, <3>1, <3>2
  <2>4. CASE ToAdd(Latest(r)) \notin sending
    <3>1. Latest(r) \in RowsOf(recent)
      BY <2>4 DEF HubInv, ListOwes
    <3>2. CASE row.id = r
      <4>1. CASE row = Latest(r)
        BY <1>1, <2>4, <4>1
      <4>2. CASE row # Latest(r)
        BY <1>2, <1>3, <2>1, <3>1, <3>2, <4>2
      <4> QED
        BY <4>1, <4>2
    <3>3. CASE row.id # r
      BY <1>3, <2>1, <2>2, <3>1, <3>3
    <3> QED
      BY <3>2, <3>3
  <2> QED
    BY <2>3, <2>4
<1>8. PagesOwe'
  <2> SUFFICES ASSUME NEW p \in Pages, NEW x \in followed[p]
               PROVE  /\ link[p] = "open"
                      /\ x \in Begun
                      /\ Row(x, Final) \in RowsOf(shown[p]) => x \in guarded[p]
                      /\ Few => \/ {ToAdd(Latest(x)), ToCast(Latest(x))} \cap sending' # {}
                                \/ Latest(x) \in RowsOf(shown[p])
    BY <1>1, HandlerKept DEF PagesOwe
  <2>1. {ToAdd(Latest(x)), ToCast(Latest(x))} \cap sending # {}
          => {ToAdd(Latest(x)), ToCast(Latest(x))} \cap sending' # {}
    <3>1. CASE Latest(x) = row
      BY <1>1, <3>1
    <3>2. CASE Latest(x) # row
      BY <1>1, <3>2, ToAddFacts
    <3> QED
      BY <3>1, <3>2
  <2> QED
    BY <2>1 DEF HubInv, PagesOwe
<1> QED
  BY <1>4, <1>5, <1>6, <1>7, <1>8 DEF HubInv

(* Broadcast, and prependLiveRequest on every page that is registered. *)
LEMMA CastStep == ASSUME HubInv, NEW g \in sending, Cast(g) PROVE HubInv'
<1> DEFINE row == g.row
<1>1. /\ g.step = "cast" /\ ToCast(row) \in sending
      /\ sending' = sending \ {ToCast(row)}
      /\ shown' = [p \in Pages |-> IF link[p] = "away" THEN shown[p]
                                   ELSE Prepended(shown[p], guarded[p], row)]
      /\ guarded' = [p \in Pages |-> IF link[p] = "away" \/ row.status # Final THEN guarded[p]
                                     ELSE guarded[p] \cup {row.id}]
      /\ UNCHANGED <<handler, recent, link, snapshot, followed>>
  BY SendingFacts DEF Cast
<1>2. /\ row \in Rows /\ Told(row) /\ row.id \in Begun /\ row.id \in Requests
      /\ row.status \in {"running", Final}
      /\ row # Latest(row.id) => row.status = "running" /\ handler[row.id] = Final
  BY SendingFacts, RowFacts
<1> HIDE DEF row
<1>3. ASSUME NEW p \in Pages
      PROVE  /\ RowList(Prepended(shown[p], guarded[p], row))
             /\ RowsOf(Prepended(shown[p], guarded[p], row)) \subseteq RowsOf(shown[p]) \cup {row}
             /\ \A x \in RowsOf(shown[p]) :
                  x.id # row.id /\ (Positions(shown[p], row.id) # {} \/ Len(shown[p]) < MaxRecent)
                    => x \in RowsOf(Prepended(shown[p], guarded[p], row))
             /\ \A x \in RowsOf(shown[p]) :
                  x.id = row.id /\ row.id \in guarded[p] /\ row.status = "running"
                    => x \in RowsOf(Prepended(shown[p], guarded[p], row))
             /\ row.id \notin guarded[p] \/ row.status # "running"
                  => row \in RowsOf(Prepended(shown[p], guarded[p], row))
  BY <1>2, PrependedFacts DEF HubInv, ListsFormed
<1>4. \A p \in Pages : RowList(shown'[p]) /\ RowsOf(shown'[p]) \subseteq RowsOf(shown[p]) \cup {row}
  BY <1>1, <1>3 DEF HubInv, ListsFormed
<1>5. ListsFormed'
  BY <1>1, <1>4 DEF HubInv, ListsFormed, RowList
<1>6. HubTypeOK'
  <2>1. guarded' \in [Pages -> SUBSET Requests]
    BY <1>1, <1>2 DEF HubInv, HubTypeOK
  <2>2. \A p \in Pages : RowsOf(shown'[p]) \cup RowsOf(snapshot[p]) \subseteq Rows
    BY <1>2, <1>4 DEF HubInv, HubTypeOK
  <2> QED
    BY <1>1, <2>1, <2>2 DEF HubInv, HubTypeOK
<1>7. OnlyAnnounced'
  <2>1. \A p \in Pages : \A r \in guarded'[p] : handler[r] = Final
    BY <1>1, <1>2 DEF HubInv, OnlyAnnounced, Told
  <2>2. \A p \in Pages : \A x \in RowsOf(shown'[p]) \cup RowsOf(snapshot[p]) : Told(x)
    BY <1>2, <1>4 DEF HubInv, OnlyAnnounced
  <2> QED
    BY <1>1, <2>1, <2>2, HandlerKept DEF HubInv, OnlyAnnounced
<1>8. ListOwes'
  BY <1>1, HandlerKept, ToAddFacts DEF HubInv, ListOwes
<1>9. PagesOwe'
  <2> SUFFICES ASSUME NEW p \in Pages, NEW r \in followed[p]
               PROVE  /\ link[p] = "open"
                      /\ r \in Begun
                      /\ Row(r, Final) \in RowsOf(shown'[p]) => r \in guarded'[p]
                      /\ Few => \/ {ToAdd(Latest(r)), ToCast(Latest(r))} \cap sending' # {}
                                \/ Latest(r) \in RowsOf(shown'[p])
    BY <1>1, HandlerKept DEF PagesOwe
  <2>0. /\ link[p] = "open" /\ r \in Begun
        /\ Row(r, Final) \in RowsOf(shown[p]) => r \in guarded[p]
        /\ Few => \/ {ToAdd(Latest(r)), ToCast(Latest(r))} \cap sending # {}
                  \/ Latest(r) \in RowsOf(shown[p])
    BY DEF HubInv, PagesOwe
  <2>1. /\ shown'[p] = Prepended(shown[p], guarded[p], row)
        /\ guarded'[p] = IF row.status # Final THEN guarded[p] ELSE guarded[p] \cup {row.id}
    BY <1>1, <2>0
  <2>2. /\ r \in Requests /\ Latest(r).id = r /\ Latest(r).status = handler[r]
        /\ Row(r, Final).id = r /\ Row(r, Final).status = Final
    BY <2>0, LatestFacts, RowFacts
  <2>3. Row(r, Final) \in RowsOf(shown'[p]) => r \in guarded'[p]
    BY <1>4, <2>0, <2>1, <2>2
  <2>4. ASSUME Few, {ToAdd(Latest(r)), ToCast(Latest(r))} \cap sending' = {}
        PROVE  Latest(r) \in RowsOf(shown'[p])
    <3>1. CASE row = Latest(r)
      <4>1. row.id \notin guarded[p] \/ row.status # "running"
        BY <2>2, <3>1, RowFacts DEF HubInv, OnlyAnnounced
      <4> QED
        BY <1>3, <2>1, <3>1, <4>1
    <3>2. CASE row # Latest(r)
      <4>1. Latest(r) \in RowsOf(shown[p])
        BY <1>1, <2>0, <2>4, <3>2, ToAddFacts
      <4>2. CASE row.id = r
        <5>1. row.status = "running" /\ Latest(r) = Row(r, Final)
          BY <1>2, <3>2, <4>2 DEF Latest
        <5>2. r \in guarded[p]
          BY <2>0, <4>1, <5>1
        <5> QED
          BY <1>3, <2>1, <2>2, <4>1, <4>2, <5>1, <5>2
      <4>3. CASE row.id # r
        <5>1. \A x \in RowsOf(shown[p]) : x.id \in Begun
          BY RowsTyped, RowFacts DEF HubInv, OnlyAnnounced, Told, Begun
        <5>2. Positions(shown[p], row.id) # {} \/ Len(shown[p]) < MaxRecent
          BY <1>2, <2>4, <5>1, RoomForOneMore DEF HubInv, ListsFormed, OnlyAnnounced
        <5> QED
          BY <1>3, <2>1, <2>2, <4>1, <4>3, <5>2
      <4> QED
        BY <4>2, <4>3
    <3> QED
      BY <3>1, <3>2
  <2> QED
    BY <2>0, <2>3, <2>4
<1> QED
  BY <1>5, <1>6, <1>7, <1>8, <1>9 DEF HubInv

(* What a page does but for the casts: it follows nothing until it is open.*)
LEMMA PageStep ==
  ASSUME HubInv, NEW p \in Pages, UNCHANGED <<handler, sending, recent>>,
         NEW state \in {"away", "registered", "snapshot", "open"},
         link' = [link EXCEPT ![p] = state],
         snapshot' \in [Pages -> Seq(Rows)], shown' \in [Pages -> Seq(Rows)],
         \A q \in Pages : snapshot'[q] \in {recent, <<>>, snapshot[q]},
         \A q \in Pages : q # p => shown'[q] = shown[q] /\ guarded'[q] = guarded[q]
                                   /\ followed'[q] = followed[q],
         RowList(shown'[p]), \A x \in RowsOf(shown'[p]) : Told(x),
         guarded' \in [Pages -> SUBSET Requests], guarded'[p] \subseteq guarded[p],
         followed' \in [Pages -> SUBSET Requests], followed'[p] = {}
  PROVE  HubInv'
<1>1. RowList(<<>>) /\ RowsOf(<<>>) = {}
  BY DEF RowList, OneRow, RowsOf
<1>3. \A q \in Pages : RowList(snapshot'[q]) /\ \A x \in RowsOf(snapshot'[q]) : Told(x)
  BY <1>1 DEF HubInv, ListsFormed, OnlyAnnounced
<1>4. \A q \in Pages : RowList(shown'[q]) /\ \A x \in RowsOf(shown'[q]) : Told(x)
  BY DEF HubInv, ListsFormed, OnlyAnnounced
<1>5. ListsFormed'
  BY <1>3, <1>4 DEF HubInv, ListsFormed
<1>6. HubTypeOK'
  <2>1. link' \in [Pages -> {"away", "registered", "snapshot", "open"}]
    BY DEF HubInv, HubTypeOK
  <2>2. \A q \in Pages : RowsOf(shown'[q]) \cup RowsOf(snapshot'[q]) \subseteq Rows
    BY <1>3, <1>4, ListFacts
  <2> QED
    BY <2>1, <2>2 DEF HubInv, HubTypeOK
<1>7. OnlyAnnounced'
  <2>1. \A q \in Pages : \A r \in guarded'[q] : handler[r] = Final
    BY DEF HubInv, OnlyAnnounced
  <2> QED
    BY <1>3, <1>4, <2>1, HandlerKept DEF HubInv, OnlyAnnounced
<1>8. ListOwes'
  BY HandlerKept DEF HubInv, ListOwes
<1>9. PagesOwe'
  <2> SUFFICES ASSUME NEW q \in Pages, NEW r \in followed'[q]
               PROVE  /\ link'[q] = "open"
                      /\ r \in Begun
                      /\ Row(r, Final) \in RowsOf(shown'[q]) => r \in guarded'[q]
                      /\ Few => \/ {ToAdd(Latest(r)), ToCast(Latest(r))} \cap sending # {}
                                \/ Latest(r) \in RowsOf(shown'[q])
    BY HandlerKept DEF PagesOwe
  <2>1. q # p /\ link'[q] = link[q] /\ r \in followed[q]
    BY DEF HubInv, HubTypeOK
  <2> QED
    BY <2>1 DEF HubInv, PagesOwe
<1> QED
  BY <1>5, <1>6, <1>7, <1>8, <1>9 DEF HubInv

LEMMA RegisterStep == ASSUME HubInv, NEW p \in Pages, Register(p) PROVE HubInv'
<1>1. /\ link[p] = "away" /\ link' = [link EXCEPT ![p] = "registered"]
      /\ UNCHANGED <<handler, sending, recent, snapshot, shown, guarded, followed>>
  BY DEF Register
<1>2. /\ snapshot \in [Pages -> Seq(Rows)] /\ shown \in [Pages -> Seq(Rows)]
      /\ RowList(shown[p]) /\ \A x \in RowsOf(shown[p]) : Told(x)
  BY DEF HubInv, HubTypeOK, ListsFormed, OnlyAnnounced
<1>3. followed[p] = {}
  BY <1>1 DEF HubInv, PagesOwe
<1>4. guarded \in [Pages -> SUBSET Requests] /\ followed \in [Pages -> SUBSET Requests]
  BY DEF HubInv, HubTypeOK
<1> QED
  BY <1>1, <1>2, <1>3, <1>4, PageStep

LEMMA TakeSnapshotStep == ASSUME HubInv, NEW p \in Pages, TakeSnapshot(p) PROVE HubInv'
<1>1. /\ link[p] = "registered" /\ link' = [link EXCEPT ![p] = "snapshot"]
      /\ snapshot' = [snapshot EXCEPT ![p] = recent]
      /\ UNCHANGED <<handler, sending, recent, shown, guarded, followed>>
  BY DEF TakeSnapshot
<1>2. /\ snapshot' \in [Pages -> Seq(Rows)] /\ shown \in [Pages -> Seq(Rows)]
      /\ \A q \in Pages : snapshot'[q] \in {recent, <<>>, snapshot[q]}
      /\ RowList(shown[p]) /\ \A x \in RowsOf(shown[p]) : Told(x)
  BY <1>1 DEF HubInv, HubTypeOK, ListsFormed, OnlyAnnounced, RowList
<1>3. followed[p] = {}
  BY <1>1 DEF HubInv, PagesOwe
<1>4. guarded \in [Pages -> SUBSET Requests] /\ followed \in [Pages -> SUBSET Requests]
  BY DEF HubInv, HubTypeOK
<1> QED
  BY <1>1, <1>2, <1>3, <1>4, PageStep

(* handleWebSocket's init_state, and renderRecentRequests on the page. *)
LEMMA SendInitStateStep == ASSUME HubInv, NEW p \in Pages, SendInitState(p) PROVE HubInv'
<1>1. /\ link[p] = "snapshot" /\ link' = [link EXCEPT ![p] = "open"]
      /\ shown' = [shown EXCEPT ![p] = Rendered(shown[p], snapshot[p])]
      /\ snapshot' = [snapshot EXCEPT ![p] = <<>>]
      /\ UNCHANGED <<handler, sending, recent, guarded, followed>>
  BY DEF SendInitState
<1>2. /\ RowList(Rendered(shown[p], snapshot[p]))
      /\ RowsOf(Rendered(shown[p], snapshot[p])) \subseteq RowsOf(shown[p]) \cup RowsOf(snapshot[p])
  BY RenderedFacts DEF HubInv, ListsFormed
<1>3. /\ snapshot' \in [Pages -> Seq(Rows)] /\ shown' \in [Pages -> Seq(Rows)]
      /\ \A q \in Pages : snapshot'[q] \in {recent, <<>>, snapshot[q]}
      /\ \A q \in Pages : q # p => shown'[q] = shown[q]
      /\ shown'[p] = Rendered(shown[p], snapshot[p])
  BY <1>1, <1>2 DEF HubInv, ListsFormed, RowList
<1>4. RowList(shown'[p]) /\ \A x \in RowsOf(shown'[p]) : Told(x)
  BY <1>2, <1>3 DEF HubInv, OnlyAnnounced
<1>5. followed[p] = {}
  BY <1>1 DEF HubInv, PagesOwe
<1>6. guarded \in [Pages -> SUBSET Requests] /\ followed \in [Pages -> SUBSET Requests]
  BY DEF HubInv, HubTypeOK
<1> QED
  BY <1>1, <1>3, <1>4, <1>5, <1>6, PageStep

LEMMA CloseStep == ASSUME HubInv, NEW p \in Pages, Close(p) PROVE HubInv'
<1>1. /\ link' = [link EXCEPT ![p] = "away"]
      /\ snapshot' = [snapshot EXCEPT ![p] = <<>>]
      /\ followed' = [followed EXCEPT ![p] = {}]
      /\ \/ UNCHANGED <<shown, guarded>>
         \/ shown' = [shown EXCEPT ![p] = <<>>] /\ guarded' = [guarded EXCEPT ![p] = {}]
      /\ UNCHANGED <<handler, sending, recent>>
  BY DEF Close
<1>2. RowList(<<>>) /\ RowsOf(<<>>) = {}
  BY DEF RowList, OneRow, RowsOf
<1>3. /\ snapshot' \in [Pages -> Seq(Rows)] /\ shown' \in [Pages -> Seq(Rows)]
      /\ \A q \in Pages : snapshot'[q] \in {recent, <<>>, snapshot[q]}
      /\ \A q \in Pages : q # p => shown'[q] = shown[q] /\ guarded'[q] = guarded[q]
                                /\ followed'[q] = followed[q]
      /\ shown'[p] \in {shown[p], <<>>} /\ guarded'[p] \in {guarded[p], {}} /\ followed'[p] = {}
      /\ guarded' \in [Pages -> SUBSET Requests] /\ followed' \in [Pages -> SUBSET Requests]
  <2>1. shown \in [Pages -> Seq(Rows)] /\ snapshot \in [Pages -> Seq(Rows)] /\ <<>> \in Seq(Rows)
    BY DEF HubInv, ListsFormed
  <2>2. guarded \in [Pages -> SUBSET Requests] /\ followed \in [Pages -> SUBSET Requests]
    BY DEF HubInv, HubTypeOK
  <2>3. /\ shown' \in [Pages -> Seq(Rows)] /\ shown'[p] \in {shown[p], <<>>}
        /\ \A q \in Pages : q # p => shown'[q] = shown[q]
    BY <1>1, <2>1
  <2>4. /\ guarded' \in [Pages -> SUBSET Requests] /\ guarded'[p] \in {guarded[p], {}}
        /\ \A q \in Pages : q # p => guarded'[q] = guarded[q]
    BY <1>1, <2>2
  <2>5. /\ followed' \in [Pages -> SUBSET Requests] /\ followed'[p] = {}
        /\ \A q \in Pages : q # p => followed'[q] = followed[q]
    BY <1>1, <2>2
  <2>6. /\ snapshot' \in [Pages -> Seq(Rows)]
        /\ \A q \in Pages : snapshot'[q] \in {recent, <<>>, snapshot[q]}
    BY <1>1, <2>1
  <2> QED
    BY <2>3, <2>4, <2>5, <2>6
<1>4. RowList(shown'[p]) /\ \A x \in RowsOf(shown'[p]) : Told(x)
  BY <1>2, <1>3 DEF HubInv, ListsFormed, OnlyAnnounced
<1>5. guarded'[p] \subseteq guarded[p]
  BY <1>3
<1> QED
  BY <1>1, <1>3, <1>4, <1>5, PageStep

LEMMA HubStep == ASSUME HubInv, [HubNext]_hubVars PROVE HubInv'
<1>1. CASE UNCHANGED hubVars
  <2>1. HubTypeOK' /\ ListsFormed'
    BY <1>1 DEF hubVars, HubInv, HubTypeOK, ListsFormed
  <2> QED
    BY <1>1, <2>1, HandlerKept DEF hubVars, HubInv, OnlyAnnounced, ListOwes, PagesOwe
<1> QED
  BY <1>1, BeginStep, EndStep, AddStep, CastStep, RegisterStep, TakeSnapshotStep, SendInitStateStep,
     CloseStep DEF HubNext

(* The inductive invariant: a request has one row, rows say what has been  *)
(* announced, and what was said last is shown or on its way.               *)
THEOREM HubInvariance == HubSpec => []HubInv
BY HubInitInv, HubStep, PTL DEF HubSpec

LEMMA OneRowCounts ==
  ASSUME NEW list, RowList(list), NEW r
  PROVE  Cardinality(Positions(list, r)) <= 1
<1>1. CASE Positions(list, r) = {}
  BY <1>1, FS_EmptySet
<1>2. CASE Positions(list, r) # {}
  <2>1. PICK i \in Positions(list, r) : TRUE
    BY <1>2
  <2>2. Positions(list, r) = {i}
    BY <2>1 DEF Positions, RowList, OneRow
  <2>3. Cardinality({i}) = 1
    BY FS_Singleton
  <2> QED
    BY <2>2, <2>3
<1> QED
  BY <1>1, <1>2

(* AddRecentRequest, prependLiveRequest and renderRecentRequests: for any  *)
(* number of requests, pages and rows, no request ever has two rows.       *)
THEOREM NoSecondRow == HubSpec => []WellFormed
<1>1. HubInv => WellFormed
  BY OneRowCounts DEF HubInv, ListsFormed, WellFormed, OneRowEach
<1> QED
  BY <1>1, HubInvariance, PTL

(* Once the goroutines of BroadcastRequestEvent are through, the recent    *)
(* list says of every request what its handler said last.                  *)
THEOREM ListSaysTheLatest == HubSpec => []ListTells
<1>1. ASSUME HubInv PROVE ListTells
  <2> SUFFICES ASSUME sending = {}, Few
               PROVE  RowsOf(recent) = {Latest(r) : r \in Begun}
    BY DEF ListTells, Few, Latest
  <2>1. \A r \in Begun : Latest(r) \in RowsOf(recent)
    BY <1>1 DEF HubInv, ListOwes
  <2>2. ASSUME NEW x \in RowsOf(recent) PROVE x.id \in Begun /\ x = Latest(x.id)
    <3>1. x.id \in Begun
      BY <1>1, RowsTyped, RowFacts DEF HubInv, OnlyAnnounced, Told, Begun
    <3>2. Latest(x.id) \in RowsOf(recent) /\ Latest(x.id).id = x.id
      BY <1>1, <2>1, <3>1, LatestFacts
    <3> QED
      BY <1>1, <3>1, <3>2, ListFacts DEF HubInv, ListsFormed
  <2> QED
    BY <2>1, <2>2
<1> QED
  BY <1>1, HubInvariance, PTL

(* A page that was connected when a request began shows in the end what    *)
(* its handler said last: liveReqTerminal outlasts every order.            *)
THEOREM PagesShowTheLatest == HubSpec => []FollowerSeesEnd
<1>1. HubInv => FollowerSeesEnd
  BY DEF HubInv, PagesOwe, FollowerSeesEnd, Few, Latest
<1> QED
  BY <1>1, HubInvariance, PTL

(* The guard of AddRecentRequest: a final row in the list never goes back. *)
THEOREM NeverBackToRunning == HubSpec => ListNeverGoesBack
<1>1. ASSUME HubInv, [HubNext]_hubVars, NEW r \in Requests, Row(r, Final) \in RowsOf(recent)
      PROVE  Row(r, "running") \notin RowsOf(recent')
  <2>0. /\ Row(r, Final).id = r /\ Row(r, Final).status = Final
        /\ Row(r, "running").id = r /\ Row(r, "running").status = "running" /\ "running" # Final
    BY RowFacts
  <2>1. Row(r, "running") \notin RowsOf(recent)
    BY <1>1, <2>0, ListFacts DEF HubInv, ListsFormed
  <2>2. CASE recent' = recent
    BY <2>1, <2>2
  <2>3. ASSUME NEW g \in sending, Add(g) PROVE Row(r, "running") \notin RowsOf(recent')
    <3>1. /\ g.row \in Rows /\ recent' = WithRow(recent, g.row)
          /\ RowList(recent) /\ Len(recent) <= MaxRecent
      BY <1>1, <2>3, SendingFacts DEF Add, HubInv, ListsFormed
    <3>2. /\ RowList(recent') /\ RowsOf(recent') \subseteq RowsOf(recent) \cup {g.row}
          /\ \A x \in RowsOf(recent) :
               x.id = g.row.id /\ x.status = Final /\ g.row.status = "running"
                 => x \in RowsOf(recent')
      BY <3>1, WithRowFacts
    <3>3. CASE g.row = Row(r, "running")
      <4>1. Row(r, Final) \in RowsOf(recent')
        BY <1>1, <2>0, <3>2, <3>3
      <4> QED
        BY <2>0, <3>2, <4>1, ListFacts
    <3>4. CASE g.row # Row(r, "running")
      BY <2>1, <3>2, <3>4
    <3> QED
      BY <3>3, <3>4
  <2>4. recent' = recent \/ \E g \in sending : Add(g)
    BY <1>1
    DEF HubNext, hubVars, Begin, End, Cast, Register, TakeSnapshot, SendInitState, Close, pages
  <2> QED
    BY <2>2, <2>3, <2>4
<1>2. HubInv /\ [HubNext]_hubVars
        => [\A r \in Requests : Row(r, Final) \in RowsOf(recent)
                                  => Row(r, "running") \notin RowsOf(recent')]_hubVars
  BY <1>1
<1> QED
  BY <1>2, HubInvariance, PTL DEF HubSpec, ListNeverGoesBack
=============================================================================
