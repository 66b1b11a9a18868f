---------------------------- MODULE AccountStore ----------------------------
(***************************************************************************)
(* The accounts (src/accounts.go) and, with ProxyManager, the proxies they *)
(* are reached through.                                                    *)
(*                                                                         *)
(* Accounts are Go pointers in a list.  A goroutine that refreshes a token *)
(* or a quota, or asks for a generation, finds its account under the lock, *)
(* talks to Google without it, and writes what it got through the pointer  *)
(* it kept, whatever became of the list.  It reads the account's proxy id  *)
(* without a lock and looks it up later, under the manager's.  Every change*)
(* is followed by a save of the whole list, in place, under the same lock, *)
(* whose failure nobody hears of.                                          *)
(*                                                                         *)
(* A pointer is a number; accounts are only ever appended and removed, so  *)
(* the list is the set of its pointers in the order of their numbers.      *)
(* A token is abstracted to the user it belongs to, an email likewise.     *)
(* Quotas, token counts, names and dates are left out; their operations    *)
(* are here for their saves.  Logins are here from the moment Google has   *)
(* answered: nothing that was read of the list before is used after it.    *)
(* A generation that found no account to serve it is left out.             *)
(* An import reads the Windows credential twice; it is taken not to change *)
(* in between.  The clock gives accounts their ids and does nothing else   *)
(* here: an account is made in any second, that of another one or not.     *)
(***************************************************************************)
EXTENDS ProxyManager

CONSTANTS
  Pointers,    \* pointers to accounts
  Users,       \* Google users
  Unknown,     \* the placeholder email of an import without id_token
  NoToken,     \* the empty token
  Workers,     \* goroutines that refresh quotas or serve generations
  Seconds      \* the seconds in which accounts are made

(* An id is "acc-" and the second it was made in; 0 stands for "acc-1".    *)
Ids == Seconds \cup {0}

Account == [id : Ids, email : Users \cup {Unknown},
            refresh : Users \cup {NoToken}, access : Users \cup {NoToken},
            active : BOOLEAN, proxy : Proxies \cup {NoProxy}]

Nobody == [id |-> 0, email |-> Unknown, refresh |-> NoToken, access |-> NoToken,
           active |-> FALSE, proxy |-> NoProxy]

ASSUME AccountAssumption ==
  /\ Pointers \subseteq Nat \ {0} /\ Pointers # {}
  /\ Unknown \notin Users
  /\ NoToken \notin Users
  /\ Seconds \subseteq Nat \ {0}

(* What a start would load; a file that is missing, torn or an empty list  *)
(* loads nothing.                                                          *)
Files == [list : SUBSET Pointers, acc : [Pointers -> Account]]
Nothing == [list |-> {}, acc |-> [r \in Pointers |-> Nobody]]

(* What a goroutine is doing: nothing; it has found its account; it has    *)
(* read which proxy to refresh the token through; it waits for the token   *)
(* endpoint; it has its token; it has read which proxy to ask for the quota*)
(* or the generation through; it waits for that.  Which of the two it is   *)
(* for is not remembered: the model also lets a quota go unasked where a   *)
(* generation may fail, and the end of a generation be a save of the list, *)
(* as the RecordTokenUsage after it is.  A ghost remembers that the proxy  *)
(* was deleted after it was read.                                          *)
Jobs == [op : {"idle", "found", "refreshVia", "refresh", "refreshed", "requestVia", "request"},
         ref : Pointers \cup {0}, sent : Users \cup {NoToken},
         via : Proxies \cup {NoProxy}, overtaken : BOOLEAN]
Naming(j) == j.op \in {"refreshVia", "requestVia"}
Idle == [op |-> "idle", ref |-> 0, sent |-> NoToken, via |-> NoProxy, overtaken |-> FALSE]

VARIABLES
  acc,         \* the accounts behind the pointers
  list,        \* s.Accounts
  file,        \* accounts.json
  job,         \* what each worker is doing
  unsaved,     \* ghost: the last save failed
  cleared      \* ghost: a failed SetActiveAccount cleared the marks since

accountVars == <<acc, list, file, job, unsaved, cleared>>
vars == <<accountVars, proxyVars, faults>>

TypeOK ==
  /\ acc \in [Pointers -> Account]
  /\ list \subseteq Pointers
  /\ file \in Files
  /\ job \in [Workers -> Jobs]
  /\ unsaved \in BOOLEAN /\ cleared \in BOOLEAN
  /\ ProxyTypeOK

First(S) == CHOOSE r \in S : \A s \in S : r <= s

ById(i)    == {r \in list : acc[r].id = i}
ByEmail(e) == {r \in list : e # Unknown /\ acc[r].email = e}
Marked(a, l) == {r \in l : a[r].active}

(* GetActiveAccount: the one that is marked, else the first. *)
ActiveAccount(a, l) == First(IF Marked(a, l) # {} THEN Marked(a, l) ELSE l)

(* Pointers for a new account at the end of the list: the lowest one that  *)
(* is above the list and that no worker holds.                             *)
Above == {r \in Pointers : /\ \A s \in list : r > s
                           /\ \A w \in Workers : job[w].ref # r}
Fresh == {r \in Above : \A s \in Above : r <= s}
-----------------------------------------------------------------------------
(* saveLocked; its error is ignored by every caller but one. *)
Save(a, l) ==
  \/ /\ file' = [list |-> l, acc |-> [r \in Pointers |-> IF r \in l THEN a[r] ELSE Nobody]]
     /\ unsaved' = FALSE
     /\ cleared' = FALSE
     /\ UNCHANGED faults
  \/ /\ Fault
     /\ file' \in {file, Nothing}
     /\ unsaved' = TRUE
     /\ UNCHANGED cleared

NewAccount(i, e, rt, t, isActive) ==
  [id |-> i, email |-> e, refresh |-> rt, access |-> t, active |-> isActive, proxy |-> NoProxy]

AddAccount(a) ==
  \E r \in Fresh : acc' = [acc EXCEPT ![r] = a] /\ list' = list \cup {r}

NewTokens(e, rt, t) ==
  /\ acc' = [acc EXCEPT ![First(ByEmail(e))].refresh = IF rt = NoToken THEN @ ELSE rt,
                        ![First(ByEmail(e))].access = t]
  /\ UNCHANGED list

Serving == ready

(* ImportCurrentWindowsAccount, while the credential is that of user t,    *)
(* with an id_token or without: new tokens for a known email, else a new   *)
(* account; placeholders are never taken for the same.                     *)
ImportCurrentWindowsAccount(t, e) ==
  /\ Serving
  /\ e \in {t, Unknown}
  /\ \/ ByEmail(e) # {} /\ NewTokens(e, t, t)
     \/ ByEmail(e) = {} /\ \E i \in Seconds : AddAccount(NewAccount(i, e, t, t, FALSE))
  /\ Save(acc', list')
  /\ UNCHANGED <<job, proxyVars>>

(* Mutant: whether the email is known was looked up before Google was asked*)
(* for the tokens, and is out of date.                                     *)
ExchangeOAuthCodeStale(u, rt) ==
  /\ Serving
  /\ rt \in {u, NoToken}
  /\ \E i \in Seconds : AddAccount(NewAccount(i, u, rt, u, list = {}))
  /\ Save(acc', list')
  /\ UNCHANGED <<job, proxyVars>>

(* ExchangeOAuthCode, from userInfo on: user u has logged in. *)
ExchangeOAuthCode(u, rt) ==
  /\ Serving
  /\ rt \in {u, NoToken}
  /\ \/ /\ ByEmail(u) # {}
        /\ acc' = [acc EXCEPT ![First(ByEmail(u))].refresh = IF rt = NoToken THEN @ ELSE rt,
                              ![First(ByEmail(u))].access = u]
        /\ UNCHANGED list
     \/ /\ ByEmail(u) = {}
        /\ \E i \in Seconds : AddAccount(NewAccount(i, u, rt, u, list = {}))
  /\ Save(acc', list')
  /\ UNCHANGED <<job, proxyVars>>

(* AddRefreshToken has its token accepted: RefreshAccountToken writes into  *)
(* a record that is not in the list yet, and saves the list as it is.      *)
TokenAccepted ==
  /\ Serving
  /\ Save(acc, list)
  /\ UNCHANGED <<acc, list, job, proxyVars>>

(* AddRefreshToken, from userInfo on; the id is of the second in which the *)
(* token was handed in.                                                    *)
AddRefreshToken(u) ==
  /\ Serving
  /\ \/ ByEmail(u) # {} /\ NewTokens(u, u, u)
     \/ ByEmail(u) = {} /\ \E i \in Seconds : AddAccount(NewAccount(i, u, u, u, list = {}))
  /\ Save(acc', list')
  /\ UNCHANGED <<job, proxyVars>>

(* Mutant: the loop ends at the account it has found, and the accounts     *)
(* after it keep their marks.                                              *)
SetActiveAccountBreaks(i) ==
  /\ Serving
  /\ acc' = [r \in Pointers |->
               IF r \in list /\ (ById(i) = {} \/ r <= First(ById(i)))
               THEN [acc[r] EXCEPT !.active = (acc[r].id = i)] ELSE acc[r]]
  /\ \/ ById(i) # {} /\ Save(acc', list)
     \/ /\ ById(i) = {}
        /\ cleared' = TRUE
        /\ UNCHANGED <<file, unsaved, faults>>
  /\ UNCHANGED <<list, job, proxyVars>>

(* SetActiveAccount: the marks are set on the way through the list; an id  *)
(* that is not there has cleared them all, and nothing is saved.           *)
SetActiveAccount(i) ==
  /\ Serving
  /\ acc' = [r \in Pointers |-> IF r \in list THEN [acc[r] EXCEPT !.active = (acc[r].id = i)]
                                ELSE acc[r]]
  /\ \/ ById(i) # {} /\ Save(acc', list)
     \/ /\ ById(i) = {}
        /\ cleared' = TRUE
        /\ UNCHANGED <<file, unsaved, faults>>
  /\ UNCHANGED <<list, job, proxyVars>>

(* Mutant: the proxy is set without a save. *)
SetAccountProxyUnsaved(i, p) ==
  /\ Serving
  /\ ById(i) # {}
  /\ acc' = [acc EXCEPT ![First(ById(i))].proxy = p]
  /\ excused' = excused \cup ({p} \ (proxies \cup {NoProxy}))
  /\ UNCHANGED <<list, file, unsaved, cleared, faults, job, proxies, proxyFile, ready, deleting, born>>

(* SetAccountProxy takes any id: a page may still show a proxy that is     *)
(* gone.                                                                   *)
SetAccountProxy(i, p) ==
  /\ Serving
  /\ ById(i) # {}
  /\ p \in born \cup {NoProxy}
  /\ acc' = [acc EXCEPT ![First(ById(i))].proxy = p]
  /\ Save(acc', list)
  /\ excused' = excused \cup ({p} \ (proxies \cup {NoProxy}))
  /\ UNCHANGED <<list, job, proxies, proxyFile, ready, deleting, born>>

(* DeleteAccount: every account with the id goes; if one was active, the   *)
(* first of the rest becomes so.                                           *)
DeleteAccount(i) ==
  /\ Serving
  /\ ById(i) # {}
  /\ list' = list \ ById(i)
  /\ acc' = [r \in Pointers |->
               IF /\ \E d \in ById(i) : acc[d].active
                  /\ list' # {} /\ r = First(list')
               THEN [acc[r] EXCEPT !.active = TRUE] ELSE acc[r]]
  /\ Save(acc', list')
  /\ UNCHANGED <<job, proxyVars>>

(* RecordTokenUsage, if there is an account to charge. *)
RecordTokenUsage ==
  /\ Serving
  /\ list # {}
  /\ Save(acc, list)
  /\ UNCHANGED <<acc, list, job, proxyVars>>
-----------------------------------------------------------------------------
(* The jobs that have read this proxy and not looked it up yet.            *)
Overtaken(p) ==
  [w \in Workers |-> [job[w] EXCEPT !.overtaken = @ \/ (Naming(job[w]) /\ job[w].via = p)]]

(* Mutant: the accounts are saved after the proxies, so a crash in between *)
(* leaves accounts that name a proxy nobody knows.                         *)
DeleteProxyAccountsLast(p) ==
  /\ ready /\ deleting = NoProxy
  /\ p \in proxies
  /\ proxies' = proxies \ {p}
  /\ deleting' = p
  /\ acc' = [r \in Pointers |-> IF r \in list /\ acc[r].proxy = p
                                THEN [acc[r] EXCEPT !.proxy = NoProxy] ELSE acc[r]]
  /\ job' = Overtaken(p)
  /\ SaveProxies(proxies')
  /\ UNCHANGED <<list, file, unsaved, cleared, ready, born>>

(* Mutant: the accounts keep the id of the proxy. *)
DeleteProxyOnly(p) ==
  /\ ready /\ deleting = NoProxy
  /\ p \in proxies
  /\ proxies' = proxies \ {p}
  /\ deleting' = p
  /\ job' = Overtaken(p)
  /\ Save(acc, list)
  /\ UNCHANGED <<acc, list, proxyFile, ready, born, excused>>

(* DeleteProxy, up to the save of the accounts: m.mu is kept, s.mu is not. *)
DeleteProxy(p) ==
  /\ ready /\ deleting = NoProxy
  /\ p \in proxies
  /\ proxies' = proxies \ {p}
  /\ deleting' = p
  /\ acc' = [r \in Pointers |-> IF r \in list /\ acc[r].proxy = p
                                THEN [acc[r] EXCEPT !.proxy = NoProxy] ELSE acc[r]]
  /\ job' = Overtaken(p)
  /\ Save(acc', list)
  /\ UNCHANGED <<list, proxyFile, ready, born, excused>>
-----------------------------------------------------------------------------
(* The steps of a worker touch nothing but its job, unless said otherwise. *)
JobStep(w, j) ==
  /\ job' = [job EXCEPT ![w] = j]
  /\ UNCHANGED <<list, proxyVars>>

Found(r, op) == [Idle EXCEPT !.op = op, !.ref = r]

(* RefreshAccountQuota(i) finds its account under the read lock. *)
RefreshAccountQuota(w, i) ==
  /\ job[w].op = "idle"
  /\ ById(i) # {}
  /\ JobStep(w, Found(First(ById(i)), "found"))
  /\ UNCHANGED <<acc, file, unsaved, cleared, faults>>

(* A generation is to be served by account r; GetTokenForAccount finds the *)
(* token expired, or missing.                                              *)
TokenExpired(w, r) ==
  /\ Serving
  /\ job[w].op = "idle"
  /\ r \in list
  /\ JobStep(w, Found(r, "found"))
  /\ UNCHANGED <<acc, file, unsaved, cleared, faults>>

(* Or it takes the token that is there. *)
TokenValid(w, r) ==
  /\ Serving
  /\ job[w].op = "idle"
  /\ r \in list /\ acc[r].access # NoToken
  /\ JobStep(w, Found(r, "refreshed"))
  /\ UNCHANGED <<acc, file, unsaved, cleared, faults>>

(* The request is made and the account's proxy id is read, by no lock, and *)
(* no further if there is no manager yet.                                  *)
Named(w, op) == [job[w] EXCEPT !.op = op, !.via = IF ready THEN acc[job[w].ref].proxy ELSE NoProxy]

(* GetHttpClientForProxy looks it up, and the request goes out.            *)
Sent(w, op) == [job[w] EXCEPT !.op = op, !.via = Client(@), !.overtaken = FALSE]

(* RefreshAccountToken up to the choice of a client; the request carries   *)
(* the refresh token.                                                      *)
RefreshAccountToken(w) ==
  LET a == acc[job[w].ref] IN
  /\ job[w].op = "found"
  /\ a.refresh # NoToken
  /\ JobStep(w, [Named(w, "refreshVia") EXCEPT !.sent = a.refresh])
  /\ UNCHANGED <<acc, file, unsaved, cleared, faults>>

SendRefresh(w) ==
  /\ job[w].op = "refreshVia"
  /\ CanReach(job[w].via)
  /\ JobStep(w, Sent(w, "refresh"))
  /\ UNCHANGED <<acc, file, unsaved, cleared, faults>>

(* The quota, or the generation, is asked for with the token that is there.*)
GoesOn(w) == [job[w] EXCEPT !.op = "refreshed", !.sent = NoToken, !.via = NoProxy]

(* Without a refresh token there is nothing to do.  A generation that has  *)
(* no token at all then needs that of the Windows credential, and fails if *)
(* there is none.                                                          *)
NoRefreshToken(w) ==
  /\ job[w].op = "found"
  /\ acc[job[w].ref].refresh = NoToken
  /\ \/ JobStep(w, GoesOn(w))
     \/ acc[job[w].ref].access = NoToken /\ JobStep(w, Idle)
  /\ UNCHANGED <<acc, file, unsaved, cleared, faults>>

(* Mutant: the account is looked up again by its id, which another account *)
(* of the same second may have.                                            *)
RefreshedById(w) ==
  /\ job[w].op = "refresh"
  /\ JobStep(w, GoesOn(w))
  /\ acc' = [acc EXCEPT ![First(ById(acc[job[w].ref].id) \cup {job[w].ref})].access = job[w].sent]
  /\ Save(acc', list')

(* Google has answered: the access token goes through the pointer, into    *)
(* the list or not, and the list is saved; or it has refused.              *)
Refreshed(w) ==
  /\ job[w].op = "refresh"
  /\ JobStep(w, GoesOn(w))
  /\ acc' = [acc EXCEPT ![job[w].ref].access = job[w].sent]
  /\ Save(acc', list')

RefreshFailed(w) ==
  /\ job[w].op = "refresh"
  /\ \/ JobStep(w, GoesOn(w))
     \/ JobStep(w, Idle)
  /\ UNCHANGED <<acc, file, unsaved, cleared, faults>>

(* RefreshAccountQuota and StreamGenerateContentWithAccount, up to the     *)
(* choice of a client.                                                     *)
MakeRequest(w) ==
  /\ job[w].op = "refreshed"
  /\ JobStep(w, Named(w, "requestVia"))
  /\ UNCHANGED <<acc, file, unsaved, cleared, faults>>

SendRequest(w) ==
  /\ job[w].op = "requestVia"
  /\ CanReach(job[w].via)
  /\ JobStep(w, Sent(w, "request"))
  /\ UNCHANGED <<acc, file, unsaved, cleared, faults>>

QuotaDone(w) ==
  /\ job[w].op = "request"
  /\ JobStep(w, Idle)
  /\ Save(acc, list)
  /\ UNCHANGED acc

(* The quota was refused, or the generation has ended: nothing is written. *)
RequestOver(w) ==
  /\ job[w].op = "request"
  /\ JobStep(w, Idle)
  /\ UNCHANGED <<acc, file, unsaved, cleared, faults>>
-----------------------------------------------------------------------------
(* InitAccountStore on a file with accounts: without a mark the first gets *)
(* it.                                                                     *)
Loaded(f) ==
  [r \in Pointers |-> IF f.list # {} /\ r = ActiveAccount(f.acc, f.list)
                      THEN [f.acc[r] EXCEPT !.active = TRUE] ELSE f.acc[r]]

LoadFile(f) ==
  /\ f.list # {}
  /\ acc' = Loaded(f)
  /\ list' = f.list
  /\ file' = f
  /\ unsaved' = FALSE
  /\ cleared' = FALSE

(* On any other file, without a credential: no accounts. *)
LoadNothing(f) ==
  /\ f.list = {}
  /\ acc' = Nothing.acc
  /\ list' = {}
  /\ file' = f
  /\ unsaved' = FALSE
  /\ cleared' = FALSE

(* With one: it becomes "acc-1", is marked, and is written over whatever   *)
(* the file was, unless the write fails.                                   *)
LoadCredential(f, t, e) ==
  /\ f.list = {}
  /\ e \in {t, Unknown}
  /\ list' = {First(Pointers)}
  /\ acc' = [Nothing.acc EXCEPT ![First(Pointers)] = NewAccount(0, e, t, t, TRUE)]
  /\ unsaved' \in BOOLEAN
  /\ file' = IF unsaved' THEN f ELSE [list |-> list', acc |-> acc']
  /\ cleared' = FALSE

Load(f) ==
  \/ LoadFile(f)
  \/ LoadNothing(f)
  \/ \E t \in Users, e \in Users \cup {Unknown} : LoadCredential(f, t, e)

References(a, l) == {a[r].proxy : r \in l} \ {NoProxy}

(* The process dies, perhaps in the middle of a save that leaves one of    *)
(* the files torn, and starts again; a write that fails at the start counts*)
(* with the torn file.  What a failed save has left on disk about proxies  *)
(* that are gone is in memory then, and excused from now on.               *)
Restart ==
  LET stale == IF unsaved THEN References(file.acc, file.list) \ proxyFile ELSE {} IN
  /\ \/ Load(file) /\ ~unsaved' /\ ProxiesDown(FALSE, stale) /\ UNCHANGED faults
     \/ Load(Nothing) /\ ProxiesDown(FALSE, stale) /\ Fault
     \/ Load(file) /\ ProxiesDown(TRUE, stale) /\ Fault
  /\ job' = [w \in Workers |-> Idle]

Init ==
  /\ acc = Nothing.acc
  /\ list = {}
  /\ file = Nothing
  /\ job = [w \in Workers |-> Idle]
  /\ unsaved = FALSE /\ cleared = FALSE
  /\ ProxyInit

User ==
  \/ \E t \in Users, e \in Users \cup {Unknown} : ImportCurrentWindowsAccount(t, e)
  \/ \E u \in Users, rt \in Users \cup {NoToken} : ExchangeOAuthCode(u, rt)
  \/ TokenAccepted
  \/ \E u \in Users : AddRefreshToken(u)
  \/ \E i \in Ids : SetActiveAccount(i) \/ DeleteAccount(i)
  \/ \E i \in Ids, p \in Proxies \cup {NoProxy} : SetAccountProxy(i, p)
  \/ \E p \in Proxies : DeleteProxy(p)

Worker(w) ==
  \/ \E i \in Ids : RefreshAccountQuota(w, i)
  \/ \E r \in Pointers : TokenExpired(w, r) \/ TokenValid(w, r)
  \/ RefreshAccountToken(w) \/ NoRefreshToken(w) \/ SendRefresh(w)
  \/ Refreshed(w) \/ RefreshFailed(w)
  \/ MakeRequest(w) \/ SendRequest(w) \/ QuotaDone(w) \/ RequestOver(w)

ProxyStep ==
  /\ InitProxyManager \/ TestsDone \/ DeleteProxySaved \/ \E p \in Proxies : AddProxy(p)
  /\ UNCHANGED accountVars

Next ==
  \/ User
  \/ RecordTokenUsage
  \/ \E w \in Workers : Worker(w)
  \/ ProxyStep
  \/ Restart

Spec == Init /\ [][Next]_vars
-----------------------------------------------------------------------------
(* At most one account is active, or several that share an id because they *)
(* were made in the same second: neither a failed activation, nor a delete *)
(* that passes the mark on, nor what a start reads gives it to two.        *)
OneActive == \A r, s \in Marked(acc, list) : acc[r].id = acc[s].id

(* One user has one account, whichever of import, login and token brought  *)
(* it; only accounts with the placeholder email may be of one user.        *)
OneAccountPerEmail ==
  \A r, s \in list : acc[r].email = acc[s].email /\ acc[r].email # Unknown => r = s

(* The type invariant and what the list must be like. *)
ListInv == TypeOK /\ OneActive /\ OneAccountPerEmail

OwnTokens(e, a) == {a.refresh, a.access} \subseteq (IF e = Unknown THEN {a.refresh} ELSE {e, NoToken})

(* The tokens of an account are those of its user, however long a refresh  *)
(* was under way and whatever happened to the account meanwhile.           *)
TokensMatch == \A r \in list : OwnTokens(acc[r].email, acc[r])

(* A restart loads what the gateway works with now: the same accounts with *)
(* the same tokens and proxies, the same active one.  Every change is in   *)
(* the file when its lock is released, unless the save failed; only the    *)
(* marks that a failed activation cleared are not.                         *)
SameTo(a, b) == [a EXCEPT !.active = FALSE] = [b EXCEPT !.active = FALSE]

RestartAgrees ==
  ~unsaved =>
    /\ file.list = list
    /\ \A r \in list : SameTo(file.acc[r], acc[r])
    /\ ~cleared /\ list # {} => ActiveAccount(file.acc, list) = ActiveAccount(acc, list)

(* No crash leaves accounts on disk that name a proxy which the disk does  *)
(* not know: DeleteProxy saves the accounts before the proxies.  Not so    *)
(* while the last save of the accounts has failed, as that of DeleteProxy  *)
(* may, whose error it drops; a proxy that a restart then finds named, one *)
(* whose record was lost, or that was assigned without one, is excused.    *)
DiskConsistent ==
  unsaved \/ References(file.acc, file.list) \subseteq proxyFile \cup excused

(* What is sent for an account in the list, a refresh, a quota request or  *)
(* a generation, goes through the proxy that the account named when its    *)
(* client was chosen, unless that proxy is excused, or was deleted after   *)
(* its id was read and before it was looked up: then it goes out directly, *)
(* even if the account has been given another proxy by then.  (It also     *)
(* does before there is a manager, at a start, when no proxy is read.)     *)
SentThroughProxy ==
  [][\A w \in Workers :
       /\ job'[w] # job[w] /\ job'[w].op \in {"refresh", "request"}
       /\ job[w].ref \in list
       => \/ job'[w].via = job[w].via
          \/ job[w].via \in excused
          \/ job[w].overtaken]_vars
=============================================================================
