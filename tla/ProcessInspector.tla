-------------------------- MODULE ProcessInspector --------------------------
(***************************************************************************)
(* Which program a request comes from (src/process_inspector.go, and the   *)
(* ConnState hook in src/main.go).                                         *)
(*                                                                         *)
(* The inspector keeps a table from the client's port to the pid of its    *)
(* owner.  Windows is asked for the whole table by a background scan, and  *)
(* by whoever misses its own port; every scan runs outside the lock and    *)
(* its result is written later.  The hook runs in the accept loop when a   *)
(* connection is new, and in the connection's own goroutine before each    *)
(* request.  A port is free again as soon as its client closes, while the  *)
(* goroutines of the old connection may still be at work.                  *)
(*                                                                         *)
(* Names of programs and the list of detected programs are left out: they  *)
(* follow from the pid.  Addresses always parse.                           *)
(***************************************************************************)
EXTENDS Naturals, FiniteSets

CONSTANTS
  Conns,       \* connections to the gateway, one after another or at once
  Ports,       \* ports of the clients
  Pids,        \* pids of client programs
  NoConn       \* no connection

ASSUME InspectorAssumption ==
  /\ Pids \subseteq Nat \ {0}
  /\ NoConn \notin Conns
  /\ Ports # {}

None == 0      \* no pid

Tables == [Ports -> Pids \cup {None}]

(* The stations of a connection: not there yet; connected; in the accept   *)
(* loop's hook; waiting for a request; in the hook before the request; in  *)
(* ResolveClientProcess, to look up and to write; the request is resolved. *)
Stations == {"none", "connected", "new", "waiting", "active", "lookup", "found", "resolved"}

VARIABLES
  owner,       \* external: the open connection of each port
  conn,        \* the connections: their goroutine, port, program, and what
               \* the goroutine has read (seen) or resolved (result)
  portToPID,   \* the table
  scanned,     \* what the background scan has read and not yet installed
  used,        \* ghost: the programs that have had each port
  covered,     \* ghost: the connections that were open at that scan
  known        \* ghost: the connections that a scan has registered and no
               \* older goroutine has overwritten

inspectorVars == <<owner, conn, portToPID, scanned, used, covered, known>>

Free == [at |-> "none", port |-> CHOOSE p \in Ports : TRUE, pid |-> None,
         seen |-> None, result |-> None]

NoScan == [busy |-> FALSE, table |-> [p \in Ports |-> None]]

InspectorTypeOK ==
  /\ owner \in [Ports -> Conns \cup {NoConn}]
  /\ conn \in [Conns -> [at : Stations, port : Ports, pid : Pids \cup {None},
                         seen : Pids \cup {None}, result : Pids \cup {None}]]
  /\ portToPID \in Tables
  /\ scanned \in [busy : BOOLEAN, table : Tables]
  /\ used \in [Ports -> SUBSET Pids]
  /\ covered \subseteq Conns
  /\ known \subseteq Conns

IsOpen(c) == owner[conn[c].port] = c

InspectorInit ==
  /\ owner = [p \in Ports |-> NoConn]
  /\ conn = [c \in Conns |-> Free]
  /\ portToPID = [p \in Ports |-> None]
  /\ scanned = NoScan
  /\ used = [p \in Ports |-> {}]
  /\ covered = {}
  /\ known = {}
-----------------------------------------------------------------------------
(* Mutant: rows of other servers are not skipped, and a local port is that *)
(* of any program's connection to anywhere.                                *)
ScanAnyServer(f) == f \in Tables

(* scanTCPTableFast: the owners of the ports now connected to the gateway, *)
(* or nothing, when the table grew between the question for its size and   *)
(* the question for its rows.                                              *)
Scan(f) ==
  \/ f = [p \in Ports |-> IF owner[p] = NoConn THEN None ELSE conn[owner[p]].pid]
  \/ f = [p \in Ports |-> None]

(* A program connects from a port nobody has. *)
Connect(c, p, pid) ==
  /\ conn[c].at = "none"
  /\ owner[p] = NoConn
  /\ owner' = [owner EXCEPT ![p] = c]
  /\ conn' = [conn EXCEPT ![c] = [at |-> "connected", port |-> p, pid |-> pid,
                                 seen |-> None, result |-> None]]
  /\ used' = [used EXCEPT ![p] = @ \cup {pid}]
  /\ UNCHANGED <<portToPID, scanned, covered, known>>

(* The client goes away; what it has sent may still be served. *)
Disconnect(c) ==
  /\ conn[c].at # "none"
  /\ IsOpen(c)
  /\ owner' = [owner EXCEPT ![conn[c].port] = NoConn]
  /\ UNCHANGED <<conn, portToPID, scanned, used, covered, known>>

(* The connection's goroutine has ended, and with it the connection. *)
Forget(c) ==
  /\ conn[c].at \in {"waiting", "resolved"}
  /\ ~IsOpen(c)
  /\ conn' = [conn EXCEPT ![c] = Free]
  /\ covered' = covered \ {c}
  /\ known' = known \ {c}
  /\ UNCHANGED <<owner, portToPID, scanned, used>>
-----------------------------------------------------------------------------
(* The goroutine of c goes on, with what it has seen in a scan and what it *)
(* has resolved the request to.                                            *)
Goes(c, next, seen, result) ==
  conn' = [conn EXCEPT ![c] = [at |-> next, port |-> conn[c].port, pid |-> conn[c].pid,
                               seen |-> seen, result |-> result]]

(* A scan for the port of c: with a pid on to `write', else to `next'. *)
LookFor(c, write, next) ==
  \E f \in Tables :
    /\ Scan(f)
    /\ Goes(c, IF f[conn[c].port] = None THEN next ELSE write, f[conn[c].port], None)

(* RegisterSocket up to its write: a port that is registered is left as it *)
(* is, else it is looked for.                                              *)
Look(c, write, next) ==
  \/ portToPID[conn[c].port] # None /\ Goes(c, next, None, None)
  \/ portToPID[conn[c].port] = None /\ LookFor(c, write, next)

(* A write of what was seen, which may be long ago: whoever has the port   *)
(* now is no longer known if it is another program.                        *)
Write(c, next) ==
  LET p == conn[c].port IN
  /\ portToPID' = [portToPID EXCEPT ![p] = conn[c].seen]
  /\ known' = {d \in known : conn[d].port = p => conn[d].pid = conn[c].seen}
  /\ Goes(c, next, None, IF next = "resolved" THEN conn[c].seen ELSE None)

(* ConnState(StateNew): the accept loop has one connection at a time. *)
RegisterNew(c) ==
  /\ conn[c].at = "connected"
  /\ \A d \in Conns : conn[d].at # "new"
  /\ Look(c, "new", "waiting")
  /\ UNCHANGED <<owner, portToPID, scanned, used, covered, known>>

RegisterNewWrite(c) ==
  /\ conn[c].at = "new"
  /\ Write(c, "waiting")
  /\ UNCHANGED <<owner, scanned, used, covered>>

(* ConnState(StateActive): a request begins. *)
RegisterActive(c) ==
  /\ conn[c].at \in {"waiting", "resolved"}
  /\ Look(c, "active", "lookup")
  /\ UNCHANGED <<owner, portToPID, scanned, used, covered, known>>

RegisterActiveWrite(c) ==
  /\ conn[c].at = "active"
  /\ Write(c, "lookup")
  /\ UNCHANGED <<owner, scanned, used, covered>>

(* ResolveClientProcess: the table first, else a scan whose result is      *)
(* written, else pid 0.                                                    *)
ResolveClientProcess(c) ==
  LET reg == portToPID[conn[c].port] IN
  /\ conn[c].at = "lookup"
  /\ \/ reg # None /\ Goes(c, "resolved", None, reg)
     \/ reg = None /\ LookFor(c, "found", "resolved")
  /\ UNCHANGED <<owner, portToPID, scanned, used, covered, known>>

ResolveWrite(c) ==
  /\ conn[c].at = "found"
  /\ Write(c, "resolved")
  /\ UNCHANGED <<owner, scanned, used, covered>>
-----------------------------------------------------------------------------
(* refreshTables reads, every three seconds, and installs what it read. *)
RefreshScan ==
  /\ ~scanned.busy
  /\ \E f \in Tables :
       /\ Scan(f)
       /\ scanned' = [busy |-> TRUE, table |-> f]
  /\ covered' = {c \in Conns : conn[c].at # "none" /\ IsOpen(c)}
  /\ UNCHANGED <<owner, conn, portToPID, used, known>>

(* Mutant: the scan adds the ports the table does not have. *)
RefreshInstallMissing ==
  /\ scanned.busy
  /\ portToPID' = [p \in Ports |-> IF portToPID[p] # None THEN portToPID[p] ELSE scanned.table[p]]
  /\ scanned' = NoScan
  /\ known' = known \cup covered
  /\ covered' = {}
  /\ UNCHANGED <<owner, conn, used>>

RefreshInstall ==
  /\ scanned.busy
  /\ portToPID' = scanned.table
  /\ scanned' = NoScan
  /\ known' = known \cup covered
  /\ covered' = {}
  /\ UNCHANGED <<owner, conn, used>>

Gateway(c) ==
  \/ RegisterNew(c) \/ RegisterNewWrite(c)
  \/ RegisterActive(c) \/ RegisterActiveWrite(c)
  \/ ResolveClientProcess(c) \/ ResolveWrite(c)

InspectorNext ==
  \/ \E c \in Conns, p \in Ports, pid \in Pids : Connect(c, p, pid)
  \/ \E c \in Conns : Disconnect(c) \/ Forget(c) \/ Gateway(c)
  \/ RefreshScan
  \/ RefreshInstall

InspectorSpec == InspectorInit /\ [][InspectorNext]_inspectorVars
-----------------------------------------------------------------------------
(* A request is attributed to its own program, to one that had the same    *)
(* port before it, or to nobody: however scans, hooks and reused ports are *)
(* interleaved, never to a program that only talks to other servers.       *)
NeverAnotherProgram ==
  \A c \in Conns : conn[c].at = "resolved" => conn[c].result \in used[conn[c].port] \cup {None}

(* Once a scan that began after a connection was made is installed, its    *)
(* requests are attributed to its program or to nobody for as long as it   *)
(* is open: the stale entry of a reused port does not outlive one scan,    *)
(* unless a goroutine of the port's former connection writes late.         *)
KnownIsExact ==
  \A c \in known : IsOpen(c) => portToPID[conn[c].port] \in {conn[c].pid, None}
=============================================================================
