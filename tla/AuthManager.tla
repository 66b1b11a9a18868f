---------------------------- MODULE AuthManager ----------------------------
(***************************************************************************)
(* The token manager for the Windows credential (src/auth.go).             *)
(*                                                                         *)
(* Requests without an account of their own ask GetValidToken for a token: *)
(* a fast path answers from the cache under the read lock; the slow path   *)
(* takes the write lock of the same mutex and keeps it while it reads the  *)
(* Windows credential, asks Google for a new token if that one has         *)
(* expired, or falls back to two files.  refreshOAuthToken, called with    *)
(* the lock held, locks the mutex again to put the new token away: Go's    *)
(* mutexes are not reentrant, so that is where the goroutine stays.        *)
(***************************************************************************)
EXTENDS Integers

CONSTANTS
  Callers,     \* goroutines that call GetValidToken
  Tokens,      \* access tokens the credential may hold
  FileToken,   \* the token in last_captured_headers.json or oauth_creds.json
  None,        \* no token
  ExpiresAt,   \* when each of these tokens expires, in minutes
  Unreadable,  \* a date that cannot be parsed
  FileLife,    \* how long a file's token is taken for good: 30 minutes
  DatelessLife,\* and a token without a readable date: 45 minutes
  MaxTime      \* bound of the clock

ASSUME AuthAssumption ==
  /\ None \notin Tokens \cup {FileToken} \cup Callers
  /\ FileToken \notin Tokens
  /\ Unreadable \notin Int
  /\ ExpiresAt \in [Tokens -> Int \cup {Unreadable}]
  /\ FileLife \in Nat
  /\ DatelessLife \in Nat
  /\ MaxTime \in Nat

Credentials == [token : Tokens, refresh : BOOLEAN]

VARIABLES
  cachedToken,   \* a.cachedToken
  expiryDate,    \* a.expiryDate
  holder,        \* the goroutine that holds a.mu for writing
  pc,            \* where each caller is
  tok,           \* the credential each caller has read
  result,        \* what each caller's last call returned
  credential,    \* the Windows credential, kept by another program
  hasFile,       \* one of the two token files can be read
  now            \* time.Now()

vars == <<cachedToken, expiryDate, holder, pc, tok, result, credential, hasFile, now>>

NoCredential == [token |-> None, refresh |-> FALSE]

TypeOK ==
  /\ cachedToken \in Tokens \cup {FileToken, None}
  /\ expiryDate \in Int
  /\ holder \in Callers \cup {None}
  /\ pc \in [Callers -> {"idle", "rlock", "lock", "read", "refresh", "relock"}]
  /\ tok \in [Callers -> Credentials \cup {NoCredential}]
  /\ result \in [Callers -> Tokens \cup {FileToken, None}]
  /\ credential \in Credentials \cup {NoCredential}
  /\ hasFile \in BOOLEAN
  /\ now \in 0..MaxTime

Init ==
  /\ cachedToken = None
  /\ expiryDate = 0
  /\ holder = None
  /\ pc = [c \in Callers |-> "idle"]
  /\ tok = [c \in Callers |-> NoCredential]
  /\ result = [c \in Callers |-> None]
  /\ credential \in Credentials \cup {NoCredential}
  /\ hasFile \in BOOLEAN
  /\ now = 0
-----------------------------------------------------------------------------
Call(c) ==
  /\ pc[c] = "idle"
  /\ pc' = [pc EXCEPT ![c] = "rlock"]
  /\ UNCHANGED <<cachedToken, expiryDate, holder, tok, result, credential, hasFile, now>>

(* The fast path, under the read lock: a cached token with more than two   *)
(* minutes left is the answer.                                             *)
FastPath(c) ==
  /\ pc[c] = "rlock"
  /\ holder = None
  /\ \/ /\ cachedToken # None /\ now < expiryDate - 2
        /\ result' = [result EXCEPT ![c] = cachedToken]
        /\ pc' = [pc EXCEPT ![c] = "idle"]
     \/ /\ ~(cachedToken # None /\ now < expiryDate - 2)
        /\ pc' = [pc EXCEPT ![c] = "lock"]
        /\ UNCHANGED result
  /\ UNCHANGED <<cachedToken, expiryDate, holder, tok, credential, hasFile, now>>

(* a.mu.Lock(), in GetValidToken and again in refreshOAuthToken; what the  *)
(* latter would do with the lock is never reached and not modelled.        *)
Lock(c) ==
  /\ pc[c] \in {"lock", "relock"}
  /\ holder = None
  /\ holder' = c
  /\ pc' = [pc EXCEPT ![c] = "read"]
  /\ UNCHANGED <<cachedToken, expiryDate, tok, result, credential, hasFile, now>>

(* GetValidToken returns t, and the deferred Unlock runs. *)
Return(c, t) ==
  /\ result' = [result EXCEPT ![c] = t]
  /\ pc' = [pc EXCEPT ![c] = "idle"]
  /\ holder' = None

DateOf(t) == IF ExpiresAt[t] = Unreadable THEN now + DatelessLife ELSE ExpiresAt[t]

(* Step 1: the Windows credential, if there is one.  Its date is taken     *)
(* over; with more than a minute left its token is the answer; without a   *)
(* refresh token it is the answer, too.                                    *)
ReadCredential(c) ==
  /\ pc[c] = "read"
  /\ credential # NoCredential
  /\ tok' = [tok EXCEPT ![c] = credential]
  /\ expiryDate' = DateOf(credential.token)
  /\ \/ /\ now < DateOf(credential.token) - 1 \/ ~credential.refresh
        /\ cachedToken' = credential.token
        /\ Return(c, credential.token)
     \/ /\ now >= DateOf(credential.token) - 1 /\ credential.refresh
        /\ pc' = [pc EXCEPT ![c] = "refresh"]
        /\ UNCHANGED <<cachedToken, holder, result>>
  /\ UNCHANGED <<credential, hasFile, now>>

(* Mutant: the error is returned without the unlock. *)
ReadFilesKeepingLock(c) ==
  /\ pc[c] = "read"
  /\ credential = NoCredential
  /\ pc' = [pc EXCEPT ![c] = "idle"]
  /\ UNCHANGED <<cachedToken, expiryDate, holder, tok, result, credential, hasFile, now>>

(* Steps 2 and 3: the two files, good for half an hour; else an error. *)
ReadFiles(c) ==
  /\ pc[c] = "read"
  /\ credential = NoCredential
  /\ \/ /\ hasFile
        /\ cachedToken' = FileToken
        /\ expiryDate' = now + FileLife
        /\ Return(c, FileToken)
     \/ /\ ~hasFile
        /\ Return(c, None)
        /\ UNCHANGED <<cachedToken, expiryDate>>
  /\ UNCHANGED <<tok, credential, hasFile, now>>

(* Mutant: after a failed refresh the old token is taken for good.         *)
RefreshFailsProlonging(c) ==
  /\ pc[c] = "refresh"
  /\ cachedToken' = tok[c].token
  /\ expiryDate' = now + DatelessLife
  /\ Return(c, tok[c].token)
  /\ UNCHANGED <<tok, credential, hasFile, now>>

(* Google refuses, or cannot be reached: the expired token is the answer.  *)
RefreshFails(c) ==
  /\ pc[c] = "refresh"
  /\ cachedToken' = tok[c].token
  /\ Return(c, tok[c].token)
  /\ UNCHANGED <<expiryDate, tok, credential, hasFile, now>>

(* Google answers with a new token, to be put away under the lock. *)
RefreshSucceeds(c) ==
  /\ pc[c] = "refresh"
  /\ pc' = [pc EXCEPT ![c] = "relock"]
  /\ UNCHANGED <<cachedToken, expiryDate, holder, tok, result, credential, hasFile, now>>
-----------------------------------------------------------------------------
(* The program that owns the credential replaces it. *)
CredentialChanges ==
  /\ credential' \in Credentials \cup {NoCredential}
  /\ UNCHANGED <<cachedToken, expiryDate, holder, pc, tok, result, hasFile, now>>

Tick ==
  /\ now < MaxTime
  /\ now' = now + 1
  /\ UNCHANGED <<cachedToken, expiryDate, holder, pc, tok, result, credential, hasFile>>

Step(c) ==
  \/ FastPath(c)
  \/ Lock(c)
  \/ ReadCredential(c)
  \/ ReadFiles(c)
  \/ RefreshFails(c)
  \/ RefreshSucceeds(c)

Next ==
  \/ \E c \in Callers : Call(c) \/ Step(c)
  \/ CredentialChanges
  \/ Tick

Spec == Init /\ [][Next]_vars

(* A goroutine that can run does, and one that waits for the mutex gets it *)
(* when it is free often enough; Google answers each request in time (the  *)
(* client's timeout sees to it).                                           *)
FairSpec == Spec /\ \A c \in Callers : SF_vars(Step(c))
-----------------------------------------------------------------------------
(* The slow path runs in one goroutine at a time. *)
OneWriter == \A c \in Callers : pc[c] \in {"read", "refresh", "relock"} => holder = c

Dated(t) == t \in Tokens /\ ExpiresAt[t] # Unreadable

(* The date belongs to the cached token, except while somebody asks Google *)
(* for a new one; then it belongs to the credential that was read.         *)
DateBelongsToToken ==
  /\ (\A c \in Callers : pc[c] \notin {"refresh", "relock"})
       => (Dated(cachedToken) => expiryDate = ExpiresAt[cachedToken])
  /\ \A c \in Callers : pc[c] \in {"refresh", "relock"} =>
       /\ tok[c] \in Credentials
       /\ Dated(tok[c].token) => expiryDate = ExpiresAt[tok[c].token]

(* The inductive invariant: what the slow path leaves behind belongs       *)
(* together, whatever credential came and went meanwhile, whoever else was *)
(* on the way and however a refresh failed.                                *)
IInv == TypeOK /\ OneWriter /\ DateBelongsToToken

(* The cache never answers with a token that Google no longer takes: the   *)
(* fast path returns a token of the credential only while it has more than *)
(* two minutes left.                                                       *)
CacheAnswersFresh ==
  [][\A c \in Callers :
       pc[c] = "rlock" /\ pc'[c] = "idle" /\ Dated(result'[c])
       => now < ExpiresAt[result'[c]] - 2]_vars

Blocked == \E c \in Callers : pc[c] = "relock"

(* Every call returns, unless some goroutine got a new token from Google:  *)
(* that is the only way the lock is lost.                                  *)
CallsReturn == \A c \in Callers : pc[c] = "rlock" ~> pc[c] = "idle" \/ Blocked

(* README.md, section 3: when the token has expired, a new one is fetched  *)
(* in the background.  So a call that got one returns.                     *)
RefreshReturns == \A c \in Callers : pc[c] = "relock" ~> pc[c] = "idle"
=============================================================================
