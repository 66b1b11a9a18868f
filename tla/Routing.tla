------------------------------- MODULE Routing ------------------------------
(***************************************************************************)
(* From a request to the account that pays for it: the rules, the accounts,*)
(* the token (src/gemini_client.go, src/accounts.go), and the account that *)
(* is charged in the end (src/main.go).                                    *)
(*                                                                         *)
(* Of an account only its id and email matter here; AccountStore has the   *)
(* rest.  A request keeps a pointer to its account, so an account that is  *)
(* deleted meanwhile still lends its token.  The pid is what the inspector *)
(* has found.                                                              *)
(***************************************************************************)
EXTENDS ProgramRouter

CONSTANTS
  EmailOf,     \* the email of each account
  Unknown,     \* the placeholder email
  Requests     \* requests under way at once

ASSUME RoutingAssumption ==
  /\ AccountIds \subseteq Nat \ {0}
  /\ DOMAIN EmailOf = AccountIds

NoAccount == 0
Credential == 0      \* whose token it is: the global credential's

Stations == {"idle", "copied", "routed", "sent"}

Idle == [at |-> "idle", pid |-> 0, asks |-> <<>>, steady |-> NoAccount, account |-> NoAccount,
         payer |-> NoAccount, tokenless |-> FALSE, charged |-> NoAccount]

VARIABLES
  accounts,    \* the ids in s.Accounts
  active,      \* the id of the marked account, or 0
  request      \* the requests: where they are, what they have found out,
               \* and two ghosts: steady, the account that the rules have
               \* assigned to the pid from the copy to the end of the lookups,
               \* if there is one; tokenless, that its token was not to be had

vars == <<routerVars, accounts, active, request>>

TypeOK ==
  /\ RouterTypeOK
  /\ accounts \subseteq AccountIds
  /\ active \in AccountIds \cup {NoAccount}
  /\ request \in [Requests ->
       [at : Stations, pid : Pids \cup {0}, asks : Seq(AccountIds),
        steady : AccountIds \cup {NoAccount}, account : AccountIds \cup {NoAccount},
        payer : AccountIds \cup {NoAccount}, tokenless : BOOLEAN,
        charged : AccountIds \cup {NoAccount}]]

Init ==
  /\ RouterInit
  /\ accounts = {}
  /\ active = NoAccount
  /\ request = [q \in Requests |-> Idle]

First(S) == IF S = {} THEN NoAccount ELSE Least(S)

ByEmail(e) == {a \in accounts : EmailOf[a] = e}

(* RouteAccount's two lookups, by the id and by the email of the rule. *)
Lookup(a) == IF a \in accounts THEN a ELSE First(ByEmail(EmailOf[a]))

(* The first of the accounts asked for that is found. *)
Existing(list) == SelectSeq(list, LAMBDA a : a # NoAccount)

Found(asks) ==
  LET found == Existing([i \in DOMAIN asks |-> Lookup(asks[i])])
  IN  IF found = <<>> THEN NoAccount ELSE Head(found)

(* GetActiveAccount: the marked one, else the first. *)
ActiveAccount == IF active \in accounts THEN active ELSE First(accounts)

(* The accounts the rules ask for, and what they get, without the active.  *)
Asked == [p \in Pids \cup {0} |-> Candidates(rules, p)]

Assigned == [p \in Pids \cup {0} |-> Found(Candidates(rules, p))]

(* A change of rules or accounts ends the steadiness of a request that it  *)
(* concerns, while that looks for its account.                             *)
KeepSteady ==
  request' = [q \in Requests |->
    IF \/ request[q].at # "copied"
       \/ /\ Asked'[request[q].pid] = Asked[request[q].pid]
          /\ Assigned'[request[q].pid] = request[q].steady
    THEN request[q]
    ELSE [request[q] EXCEPT !.steady = NoAccount]]
-----------------------------------------------------------------------------
Edit ==
  /\ \/ \E p \in Pids \cup {0}, pat \in Patterns \cup {{}}, a \in AccountIds : NewRule(p, pat, a)
     \/ \E i \in RuleIds, pat \in Patterns \cup {{}}, a \in AccountIds, on \in BOOLEAN :
          ToggleProgramRule(i, pat, a, on)
     \/ \E i \in RuleIds : DeleteRule(i)
  /\ UNCHANGED <<accounts, active>>
  /\ KeepSteady

(* A user logs in; one that is there gets no second account. *)
AddAccount(a) ==
  /\ \A b \in accounts : b < a
  /\ EmailOf[a] = Unknown \/ ByEmail(EmailOf[a]) = {}
  /\ accounts' = accounts \cup {a}
  /\ UNCHANGED <<routerVars, active>>
  /\ KeepSteady

(* DeleteAccount: the first of the rest is marked in place of a marked one.*)
DeleteAccount(a) ==
  /\ a \in accounts
  /\ accounts' = accounts \ {a}
  /\ active' = IF active = a THEN First(accounts') ELSE active
  /\ UNCHANGED routerVars
  /\ KeepSteady

SetActiveAccount(a) ==
  /\ a \in accounts
  /\ active' = a
  /\ UNCHANGED <<routerVars, accounts, request>>

(* The requests under way are lost; the accounts come back. *)
Restart ==
  /\ RouterRestart
  /\ request' = [q \in Requests |-> Idle]
  /\ UNCHANGED <<accounts, active>>
-----------------------------------------------------------------------------
RequestStep(q, x) ==
  /\ request' = [request EXCEPT ![q] = x]
  /\ UNCHANGED <<routerVars, accounts, active>>

(* RouteAccount copies the rules for a client with pid p. *)
CopyRules(q, p) ==
  /\ request[q].at = "idle"
  /\ RequestStep(q, [Idle EXCEPT !.at = "copied", !.pid = p, !.asks = Candidates(rules, p),
                                 !.steady = Assigned[p]])

(* Mutant: the active account comes before the patterns' accounts. *)
RouteAccountActiveFirst(q) ==
  LET found == Found(request[q].asks) IN
  /\ request[q].at = "copied"
  /\ RequestStep(q, [request[q] EXCEPT !.at = "routed", !.asks = <<>>,
       !.account = IF found = NoAccount \/ active \in accounts THEN ActiveAccount ELSE found])

(* The rest of it, with the rules it has copied and the accounts of now. *)
RouteAccount(q) ==
  LET found == Found(request[q].asks) IN
  /\ request[q].at = "copied"
  /\ RequestStep(q, [request[q] EXCEPT !.at = "routed", !.asks = <<>>,
       !.account = IF found = NoAccount THEN ActiveAccount ELSE found])

(* StreamGenerateContentWithAccount: the token of the account, or without  *)
(* an account the active one's at this moment; if that cannot be had, the  *)
(* global credential's, and nobody hears of it.                            *)
SendWithToken(q) ==
  LET a == IF request[q].account # NoAccount THEN request[q].account ELSE ActiveAccount IN
  /\ request[q].at = "routed"
  /\ \E had \in BOOLEAN :
       RequestStep(q, [request[q] EXCEPT !.at = "sent", !.tokenless = ~had,
                                         !.payer = IF had THEN a ELSE Credential])

(* Not even that can be had, or the upstream fails: nothing is charged. *)
RequestFails(q) ==
  /\ request[q].at \in {"routed", "sent"}
  /\ RequestStep(q, Idle)

(* Mutant: the usage is recorded for the active account. *)
RecordTokenUsageActive(q) ==
  /\ request[q].at = "sent"
  /\ RequestStep(q, [Idle EXCEPT
       !.charged = IF request[q].account = NoAccount THEN NoAccount ELSE ActiveAccount])

(* The answer is complete: RecordTokenUsage charges the first account with *)
(* the email that the request was routed to, else the active or the first; *)
(* without an email nobody.                                                *)
RecordTokenUsage(q) ==
  LET a    == request[q].account
      mine == ByEmail(EmailOf[a])
  IN
  /\ request[q].at = "sent"
  /\ RequestStep(q, [Idle EXCEPT
       !.charged = IF a = NoAccount THEN NoAccount
                   ELSE IF mine # {} THEN First(mine) ELSE ActiveAccount])

Serve(q) ==
  \/ \E p \in Pids \cup {0} : CopyRules(q, p)
  \/ RouteAccount(q) \/ SendWithToken(q) \/ RequestFails(q) \/ RecordTokenUsage(q)

Next ==
  \/ Edit
  \/ \E a \in AccountIds : AddAccount(a) \/ DeleteAccount(a) \/ SetActiveAccount(a)
  \/ \E q \in Requests : Serve(q)
  \/ Restart

Spec == Init /\ [][Next]_vars
-----------------------------------------------------------------------------
(* A program whose rules and account stay the same while RouteAccount works*)
(* is served with this account: rules for others and the active mark make  *)
(* no difference, and nothing does once it is routed, not even that the    *)
(* account is deleted.  What pays is this account, or the global credential*)
(* if the account's own token was not to be had, which the code takes in   *)
(* silence (gemini_client.go:128); never another account.                  *)
AssignmentHolds ==
  \A q \in Requests :
    request[q].steady # NoAccount /\ request[q].at \in {"routed", "sent"}
    => /\ request[q].account = request[q].steady
       /\ request[q].at = "sent" =>
            request[q].payer = IF request[q].tokenless THEN Credential ELSE request[q].steady

(* Who is charged for an answer is who paid for it: an account of the same *)
(* email.  The exceptions are the code's: the global credential paid, the  *)
(* payer was deleted before the end, or it has no email but the            *)
(* placeholder.                                                            *)
ChargedIsPayer ==
  [][\A q \in Requests :
       /\ request'[q].charged # request[q].charged
       /\ request'[q].charged # NoAccount
       /\ request[q].payer # Credential
       /\ request[q].payer \in accounts
       /\ EmailOf[request[q].payer] # Unknown
       => request'[q].charged = request[q].payer]_vars

(* The invariant both rest on: a request that was copied under steady      *)
(* rules asks for what the rules still say, the account of a request is    *)
(* the steady one and lends its token, and no two accounts share an email. *)
RequestKnows(x) ==
  /\ DOMAIN x = DOMAIN Idle
  /\ x.at \in Stations /\ x.pid \in Pids \cup {0}
  /\ x.at = "sent" /\ x.account # NoAccount =>
       x.payer = IF x.tokenless THEN Credential ELSE x.account
  /\ x.steady # NoAccount =>
       /\ x.at = "copied" => x.asks = Asked[x.pid] /\ x.steady = Assigned[x.pid]
       /\ x.at \in {"routed", "sent"} => x.account = x.steady

OneAccountPerEmail ==
  \A a, b \in accounts : EmailOf[a] = EmailOf[b] /\ EmailOf[a] # Unknown => a = b

IInv ==
  /\ RouterTypeOK /\ IdsKeepTheirPid /\ OneRulePerPid
  /\ accounts \subseteq AccountIds /\ OneAccountPerEmail
  /\ DOMAIN request = Requests
  /\ \A q \in Requests : RequestKnows(request[q])
=============================================================================
