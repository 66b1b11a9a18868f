--------------------------- MODULE IdentityProofs ---------------------------
(***************************************************************************)
(* Under which identities the gateway speaks to Google: what AuthManager   *)
(* promises of the token, and SessionIds of the session ids, for any       *)
(* number of callers and clients, any tokens and any clock.                *)
(***************************************************************************)
EXTENDS AuthManager, SessionIds, TLAPS

-----------------------------------------------------------------------------
(* AuthManager *)

(* A caller whose refresh succeeded waits for the lock it holds itself:    *)
(* it neither returns nor gives the lock back, ever (refreshOAuthToken     *)
(* called by GetValidToken in auth.go).                                    *)
RefreshNeverReturns ==
  [][\A c \in Callers : pc[c] = "relock" => pc'[c] = "relock" /\ holder' = c]_vars

LEMMA InitIInv == Init => IInv
BY AuthAssumption DEF Init, IInv, TypeOK, OneWriter, DateBelongsToToken, Dated, Credentials, NoCredential

LEMMA TypeOKStep == TypeOK /\ [Next]_vars => TypeOK'
<1> SUFFICES ASSUME TypeOK, [Next]_vars PROVE TypeOK'
  OBVIOUS
<1> USE AuthAssumption DEF TypeOK, Credentials, NoCredential
<1>1. ASSUME NEW c \in Callers, Call(c) PROVE TypeOK'
  BY <1>1 DEF Call
<1>2. ASSUME NEW c \in Callers, FastPath(c) PROVE TypeOK'
  BY <1>2 DEF FastPath
<1>3. ASSUME NEW c \in Callers, Lock(c) PROVE TypeOK'
  BY <1>3 DEF Lock
<1>4. ASSUME NEW c \in Callers, ReadCredential(c) PROVE TypeOK'
  <2>1. credential.token \in Tokens
    BY <1>4 DEF ReadCredential
  <2>2. DateOf(credential.token) \in Int
    BY <2>1 DEF DateOf
  <2> QED
    BY <1>4, <2>1, <2>2 DEF ReadCredential, Return
<1>5. ASSUME NEW c \in Callers, ReadFiles(c) PROVE TypeOK'
  BY <1>5 DEF ReadFiles, Return
<1>6. ASSUME NEW c \in Callers, RefreshFails(c) PROVE TypeOK'
  BY <1>6 DEF RefreshFails, Return
<1>7. ASSUME NEW c \in Callers, RefreshSucceeds(c) PROVE TypeOK'
  BY <1>7 DEF RefreshSucceeds
<1>8. CASE CredentialChanges
  BY <1>8 DEF CredentialChanges
<1>9. CASE Tick
  BY <1>9 DEF Tick
<1>10. CASE UNCHANGED vars
  BY <1>10 DEF vars
<1> QED
  BY <1>1, <1>2, <1>3, <1>4, <1>5, <1>6, <1>7, <1>8, <1>9, <1>10 DEF Next, Step

LEMMA OneWriterStep == TypeOK /\ OneWriter /\ [Next]_vars => OneWriter'
<1> SUFFICES ASSUME TypeOK, OneWriter, [Next]_vars PROVE OneWriter'
  OBVIOUS
<1> USE AuthAssumption DEF TypeOK, OneWriter
<1>1. ASSUME NEW c \in Callers, Call(c) PROVE OneWriter'
  BY <1>1 DEF Call
<1>2. ASSUME NEW c \in Callers, Step(c) PROVE OneWriter'
  BY <1>2 DEF Step, FastPath, Lock, ReadCredential, ReadFiles, RefreshFails, RefreshSucceeds, Return
<1>3. CASE CredentialChanges \/ Tick \/ UNCHANGED vars
  BY <1>3 DEF CredentialChanges, Tick, vars
<1> QED
  BY <1>1, <1>2, <1>3 DEF Next

(* Only the slow path touches the token and the date, and it takes the     *)
(* date first; nobody else is in it meanwhile.                             *)
LEMMA DateStep == IInv /\ [Next]_vars => DateBelongsToToken'
<1> SUFFICES ASSUME IInv, [Next]_vars PROVE DateBelongsToToken'
  OBVIOUS
<1> USE AuthAssumption DEF IInv, TypeOK, DateBelongsToToken, Dated
<1>1. ASSUME NEW c \in Callers, Call(c) PROVE DateBelongsToToken'
  BY <1>1 DEF Call
<1>2. ASSUME NEW c \in Callers, FastPath(c) PROVE DateBelongsToToken'
  BY <1>2 DEF FastPath
<1>3. ASSUME NEW c \in Callers, Lock(c) PROVE DateBelongsToToken'
  <2>1. \A d \in Callers : pc[d] \notin {"refresh", "relock"}
    BY <1>3 DEF Lock, OneWriter
  <2> QED
    BY <1>3, <2>1 DEF Lock
<1>4. ASSUME NEW c \in Callers, ReadCredential(c) PROVE DateBelongsToToken'
  <2>1. credential \in Credentials /\ credential.token \in Tokens
    BY <1>4 DEF ReadCredential, Credentials
  <2>2. expiryDate' = DateOf(credential.token) /\ tok' = [tok EXCEPT ![c] = credential]
    BY <1>4 DEF ReadCredential
  <2>3. \A d \in Callers \ {c} : pc'[d] = pc[d] /\ pc[d] \notin {"refresh", "relock"}
    BY <1>4 DEF ReadCredential, Return, OneWriter
  <2>4. pc'[c] \notin {"refresh", "relock"} => cachedToken' = credential.token
    BY <1>4 DEF ReadCredential, Return
  <2>5. tok'[c] = credential
    BY <2>2
  <2>6. Dated(credential.token) => expiryDate' = ExpiresAt[credential.token]
    BY <2>2 DEF DateOf
  <2> QED
    BY <2>1, <2>3, <2>4, <2>5, <2>6
<1>5. ASSUME NEW c \in Callers, ReadFiles(c) PROVE DateBelongsToToken'
  BY <1>5 DEF ReadFiles, Return, OneWriter
<1>6. ASSUME NEW c \in Callers, RefreshFails(c) PROVE DateBelongsToToken'
  BY <1>6 DEF RefreshFails, Return, OneWriter
<1>7. ASSUME NEW c \in Callers, RefreshSucceeds(c) PROVE DateBelongsToToken'
  BY <1>7 DEF RefreshSucceeds
<1>8. CASE CredentialChanges \/ Tick \/ UNCHANGED vars
  BY <1>8 DEF CredentialChanges, Tick, vars
<1> QED
  BY <1>1, <1>2, <1>3, <1>4, <1>5, <1>6, <1>7, <1>8 DEF Next, Step

(* IInv holds throughout: the date next to a cached token of the           *)
(* credential is the one Google gave that token (GetValidToken).           *)
THEOREM Invariance == Spec => []IInv
<1>1. Init => IInv
  BY InitIInv
<1>2. IInv /\ [Next]_vars => IInv'
  BY TypeOKStep, OneWriterStep, DateStep DEF IInv
<1> QED
  BY <1>1, <1>2, PTL DEF Spec

(* The variables keep their types. *)
THEOREM TypeCorrect == Spec => []TypeOK
<1>1. IInv => TypeOK
  BY DEF IInv
<1> QED
  BY <1>1, Invariance, PTL

(* The fast path of GetValidToken never answers with an expired token of   *)
(* the credential: nobody refreshes while it reads, so the date it looks   *)
(* at is that of the token it returns.                                     *)
THEOREM NoExpiredAnswer == Spec => CacheAnswersFresh
<1> DEFINE Fresh ==
      \A c \in Callers :
        pc[c] = "rlock" /\ pc'[c] = "idle" /\ Dated(result'[c])
          => now < ExpiresAt[result'[c]] - 2
<1>1. IInv /\ [Next]_vars => [Fresh]_vars
  <2> SUFFICES ASSUME IInv, Next,
                      NEW c \in Callers,
                      pc[c] = "rlock", pc'[c] = "idle", Dated(result'[c])
               PROVE  now < ExpiresAt[result'[c]] - 2
    OBVIOUS
  <2> USE AuthAssumption DEF IInv, TypeOK
  <2>1. FastPath(c)
    BY DEF Next, Step, Call, FastPath, Lock, ReadCredential, ReadFiles, RefreshFails,
           RefreshSucceeds, Return, CredentialChanges, Tick
  <2>2. holder = None /\ now < expiryDate - 2 /\ result'[c] = cachedToken
    BY <2>1 DEF FastPath
  <2>3. \A d \in Callers : pc[d] \notin {"refresh", "relock"}
    BY <2>2 DEF OneWriter
  <2> QED
    BY <2>2, <2>3 DEF DateBelongsToToken
<1> QED
  BY <1>1, Invariance, PTL DEF Spec, CacheAnswersFresh

(* A refresh that succeeds blocks its caller, and with it everybody who    *)
(* needs the lock, for good: the run AuthManagerRefresh, for all values of *)
(* the constants.                                                          *)
THEOREM RefreshBlocksForever == Spec => RefreshNeverReturns
<1> DEFINE Stays == \A c \in Callers : pc[c] = "relock" => pc'[c] = "relock" /\ holder' = c
<1>1. IInv /\ [Next]_vars => [Stays]_vars
  <2> SUFFICES ASSUME IInv, Next, NEW c \in Callers, pc[c] = "relock"
               PROVE  pc'[c] = "relock" /\ holder' = c
    OBVIOUS
  <2> USE AuthAssumption DEF IInv, TypeOK, OneWriter
  <2>1. holder = c /\ c # None
    OBVIOUS
  <2>2. ASSUME NEW d \in Callers, Call(d) \/ Step(d) PROVE pc'[c] = "relock" /\ holder' = c
    BY <2>1, <2>2 DEF Step, Call, FastPath, Lock, ReadCredential, ReadFiles, RefreshFails,
                      RefreshSucceeds, Return
  <2>3. CASE CredentialChanges \/ Tick
    BY <2>1, <2>3 DEF CredentialChanges, Tick
  <2> QED
    BY <2>2, <2>3 DEF Next
<1> QED
  BY <1>1, Invariance, PTL DEF Spec, RefreshNeverReturns
-----------------------------------------------------------------------------
(* SessionIds *)

LEMMA SessionInitInv == SessionInit => SessionInv
BY SessionAssumption DEF SessionInit, SessionInv, SessionTypeOK, NoLostWakeup, Pending, Within, Loaded, Files,
                         Maps, Empty

LEMMA SessionTypeStep == SessionTypeOK /\ [SessionNext]_sessionVars => SessionTypeOK'
<1> SUFFICES ASSUME SessionTypeOK, [SessionNext]_sessionVars PROVE SessionTypeOK'
  OBVIOUS
<1>e. Empty \in Maps
  BY DEF Empty, Maps
<1> USE <1>e DEF SessionTypeOK
<1>1. ASSUME NEW k \in Keys, NEW sid \in Sids, GetStealthSessionID(k, sid) PROVE SessionTypeOK'
  BY <1>1 DEF GetStealthSessionID, Maps
<1>2. CASE Receive \/ Drain \/ Copy
  BY <1>2 DEF Receive, Drain, Copy
<1>3. ASSUME GiveUp PROVE SessionTypeOK'
  BY <1>3 DEF GiveUp
<1>4. CASE WriteTmp
  BY <1>3, <1>4 DEF WriteTmp
<1>5. CASE Rename
  <2>1. [status |-> "ok", ids |-> snap] \in Files
    BY DEF Files
  <2> QED
    BY <1>3, <1>5, <2>1 DEF Rename
<1>6. CASE Restart
  BY <1>6 DEF Restart, Loaded, Files
<1>7. CASE UNCHANGED sessionVars
  BY <1>7 DEF sessionVars
<1> QED
  BY <1>1, <1>2, <1>4, <1>5, <1>6, <1>7 DEF SessionNext, Persister

LEMMA NoLostWakeupStep == SessionInv /\ [SessionNext]_sessionVars => NoLostWakeup'
<1> SUFFICES ASSUME SessionInv, [SessionNext]_sessionVars PROVE NoLostWakeup'
  OBVIOUS
<1> USE DEF SessionInv, NoLostWakeup, Pending, Within
<1>1. ASSUME NEW k \in Keys, NEW sid \in Sids, GetStealthSessionID(k, sid) PROVE NoLostWakeup'
  <2>1. Within(sessions, sessions')
    BY <1>1 DEF GetStealthSessionID, SessionTypeOK, Maps
  <2> QED
    BY <1>1, <2>1 DEF GetStealthSessionID
<1>2. CASE Receive \/ Drain \/ Copy
  BY <1>2 DEF Receive, Drain, Copy
<1>3. ASSUME GiveUp PROVE NoLostWakeup'
  BY <1>3 DEF GiveUp
<1>4. CASE WriteTmp
  BY <1>3, <1>4 DEF WriteTmp
<1>5. CASE Rename
  BY <1>3, <1>5 DEF Rename
<1>6. CASE Restart \/ UNCHANGED sessionVars
  BY <1>6 DEF Restart, Loaded, sessionVars
<1> QED
  BY <1>1, <1>2, <1>4, <1>5, <1>6 DEF SessionNext, Persister

(* Marking the channel under the lock, the drain and the copy lose no id,  *)
(* and the file never has one the table does not (session_persist.go).     *)
THEOREM SessionInvariance == SessionSpec => []SessionInv
<1>1. SessionInit => SessionInv
  BY SessionInitInv
<1>2. SessionInv /\ [SessionNext]_sessionVars => SessionInv'
  BY SessionTypeStep, NoLostWakeupStep DEF SessionInv
<1> QED
  BY <1>1, <1>2, PTL DEF SessionSpec
-----------------------------------------------------------------------------
(* Every step of the table is a step of the write-once map, or none. *)
LEMMA SessionSimulation == SessionInv /\ SessionInv' /\ [SessionNext]_sessionVars => [WriteOnce!Next]_(WriteOnce!vars)
<1> SUFFICES ASSUME SessionInv, SessionInv', [SessionNext]_sessionVars
             PROVE  [WriteOnce!Next]_(WriteOnce!vars)
  OBVIOUS
<1>t. /\ Maps = WriteOnce!Maps
      /\ sessions' \in Maps /\ file.ids \in Maps /\ file'.ids \in Maps
  BY DEF SessionInv, SessionTypeOK, Maps, WriteOnce!Maps, Files
<1> USE <1>t DEF Loaded
<1>1. ASSUME NEW k \in Keys, NEW sid \in Sids, GetStealthSessionID(k, sid)
      PROVE  WriteOnce!Learn
  <2>1. WriteOnce!Within(sessions, sessions')
    BY <1>1 DEF GetStealthSessionID, SessionInv, SessionTypeOK, Maps, WriteOnce!Within
  <2> QED
    BY <1>1, <2>1 DEF GetStealthSessionID, WriteOnce!Learn
<1>2. ASSUME UNCHANGED <<sessions, file>> PROVE UNCHANGED WriteOnce!vars
  BY <1>2 DEF WriteOnce!vars
<1>3. CASE Rename
  <2>1. CASE persister = "rename" /\ file' = [status |-> "ok", ids |-> snap] /\ UNCHANGED sessions
    BY <2>1 DEF SessionInv, NoLostWakeup, Within, WriteOnce!Within, WriteOnce!Checkpoint, WriteOnce!Next
  <2> QED
    BY <1>2, <1>3, <2>1 DEF Rename, GiveUp
<1>4. CASE Restart
  BY <1>4 DEF Restart, WriteOnce!Restart, WriteOnce!Next
<1>5. CASE Receive \/ Drain \/ Copy \/ WriteTmp \/ UNCHANGED sessionVars
  BY <1>2, <1>5 DEF Receive, Drain, Copy, WriteTmp, GiveUp, sessionVars
<1> QED
  BY <1>1, <1>3, <1>4, <1>5 DEF SessionNext, Persister, WriteOnce!Next

(* A client keeps its session id for as long as the gateway runs, and      *)
(* across restarts once the id is in the file.                             *)
THEOREM SessionIdsRefine == SessionSpec => ImplementsWriteOnceMap
<1>1. SessionInit => WriteOnce!Init
  BY SessionInitInv DEF SessionInit, SessionInv, SessionTypeOK, Files, Loaded, Maps, WriteOnce!Init, WriteOnce!Maps
<1>2. SessionInv /\ SessionInv' /\ [SessionNext]_sessionVars => [WriteOnce!Next]_(WriteOnce!vars)
  BY SessionSimulation
<1> QED
  BY <1>1, <1>2, SessionInvariance, PTL DEF SessionSpec, ImplementsWriteOnceMap, WriteOnce!Spec
=============================================================================
