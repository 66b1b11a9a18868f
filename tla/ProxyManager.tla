---------------------------- MODULE ProxyManager ----------------------------
(***************************************************************************)
(* The proxies that accounts may be reached through (src/proxy_manager.go).*)
(*                                                                         *)
(* A proxy is known by an id made from the clock in milliseconds, never    *)
(* used twice.  The map is written to proxies.json in place: a write that  *)
(* fails or is cut short leaves the old file, or one that loads nothing.   *)
(* The manager is made last in main(), after the account store has started *)
(* goroutines that ask it for clients; until then requests go out directly.*)
(*                                                                         *)
(* What a test finds out (status, latency, country) is left out, and so is *)
(* the pool of transports: both are looked up by id, and the URL of an id  *)
(* never changes.  DeleteProxy begins in AccountStore, whose list it edits.*)
(***************************************************************************)
EXTENDS Naturals, FiniteSets

CONSTANTS
  Proxies,     \* ids of proxies
  NoProxy,     \* the empty id: a direct connection
  MaxFaults    \* bound of the writes that fail or are cut short

ASSUME ProxyAssumption == NoProxy \notin Proxies /\ MaxFaults \in Nat

VARIABLES
  proxies,     \* m.proxies: the ids in it
  proxyFile,   \* proxies.json: the ids a start would load from it
  ready,       \* GlobalProxyManager is set and the server listens
  deleting,    \* the proxy that DeleteProxy, holding m.mu, is about to save
  born,        \* ids given out so far
  excused,     \* ghost: ids whose record was lost, or that were assigned
               \* to an account, or loaded with one after a failed save of
               \* the accounts, when they had no record
  faults       \* writes of either file that failed so far

proxyVars == <<proxies, proxyFile, ready, deleting, born, excused>>

ProxyTypeOK ==
  /\ proxies \subseteq Proxies
  /\ proxyFile \subseteq Proxies
  /\ ready \in BOOLEAN
  /\ deleting \in Proxies \cup {NoProxy}
  /\ born \subseteq Proxies
  /\ excused \subseteq Proxies
  /\ faults \in 0..MaxFaults

ProxyInit ==
  /\ proxies = {}
  /\ proxyFile = {}
  /\ ready = FALSE
  /\ deleting = NoProxy
  /\ born = {}
  /\ excused = {}
  /\ faults = 0

Fault == faults < MaxFaults /\ faults' = faults + 1

(* saveLocked: it works, or it fails and leaves the old file or a torn one.*)
(* Whom the file lacks after a failure is excused.                         *)
SaveProxies(ids) ==
  \/ proxyFile' = ids /\ UNCHANGED <<excused, faults>>
  \/ /\ Fault
     /\ proxyFile' \in {proxyFile, {}}
     /\ excused' = excused \cup ((ids \cup proxyFile) \ proxyFile')

(* InitProxyManager: a missing or undecodable file gives no proxies. *)
InitProxyManager ==
  /\ ~ready
  /\ ready' = TRUE
  /\ proxies' = proxyFile
  /\ UNCHANGED <<proxyFile, deleting, born, excused, faults>>

(* AddProxy of a URL that is not in the list yet. *)
AddProxy(p) ==
  /\ ready /\ deleting = NoProxy
  /\ p \notin born
  /\ born' = born \cup {p}
  /\ proxies' = proxies \cup {p}
  /\ SaveProxies(proxies')
  /\ UNCHANGED <<ready, deleting>>

(* TestProxy, TestAll and AddProxy of a known URL: the tests run without   *)
(* the lock; their results are saved with whatever the map holds by then.  *)
TestsDone ==
  /\ ready /\ deleting = NoProxy
  /\ SaveProxies(proxies)
  /\ UNCHANGED <<proxies, ready, deleting, born>>

(* The end of DeleteProxy. *)
DeleteProxySaved ==
  /\ deleting # NoProxy
  /\ SaveProxies(proxies)
  /\ deleting' = NoProxy
  /\ UNCHANGED <<proxies, ready, born>>

(* The process dies, perhaps in the middle of a save that leaves the file  *)
(* torn, and starts again: there is no manager yet.  Accounts that it loads*)
(* may name stale proxies.                                                 *)
ProxiesDown(torn, stale) ==
  /\ proxies' = {}
  /\ ready' = FALSE
  /\ deleting' = NoProxy
  /\ \/ UNCHANGED proxyFile /\ excused' = excused \cup stale
     \/ /\ torn
        /\ proxyFile' = {}
        /\ excused' = excused \cup stale \cup proxyFile
  /\ UNCHANGED born

(* GetHttpClientForProxy: the read lock is taken only for a proxy; what is *)
(* not in the map any more is a direct connection.                         *)
CanReach(p) == p = NoProxy \/ deleting = NoProxy

Client(p) == IF p \in proxies THEN p ELSE NoProxy
=============================================================================
