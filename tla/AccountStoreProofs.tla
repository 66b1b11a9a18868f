------------------------- MODULE AccountStoreProofs -------------------------
(***************************************************************************)
(* What the accounts and proxies promise for any number of users, accounts,*)
(* proxies and workers, any seconds, and any number of failing writes.     *)
(***************************************************************************)
EXTENDS AccountStore, WellFoundedInduction, TLAPS

(* What holds for the list in memory and for the list on disk. *)
GoodList(a, l) ==
  /\ a \in [Pointers -> Account]
  /\ l \subseteq Pointers
  /\ \A r, s \in Marked(a, l) : a[r].id = a[s].id
  /\ \A r, s \in l : a[r].email = a[s].email /\ a[r].email # Unknown => r = s
  /\ \A r \in Pointers : OwnTokens(a[r].email, a[r])

(* A refresh under way carries a token of its account's user. *)
Own(a, token) ==
  IF a.email = Unknown THEN token = a.refresh ELSE token \in {a.email, NoToken}

Refreshing(j) == j.op \in {"refreshVia", "refresh"}

JobsOwn ==
  \A w \in Workers :
    /\ job[w].op # "idle" => job[w].ref \in Pointers
    /\ Refreshing(job[w]) => Own(acc[job[w].ref], job[w].sent)

(* The proxies that accounts may name: those the manager has, or, while    *)
(* there is no manager, those it is going to load.                         *)
Known == (IF ready THEN proxies ELSE proxyFile) \cup excused

ProxiesKnown ==
  /\ deleting # NoProxy => ready
  /\ ready => proxies \subseteq proxyFile \cup excused
  /\ References(acc, list) \subseteq Known
  /\ unsaved \/ References(file.acc, file.list) \subseteq Known

(* A proxy that was read for an account of the list is still there when it *)
(* is looked up, if it has not been deleted in between.                    *)
Reachable(j) ==
  Naming(j) /\ j.ref \in list /\ j.via # NoProxy /\ ~j.overtaken
    => ready /\ j.via \in proxies \cup excused

ReadKnown == \A w \in Workers : Reachable(job[w])

IInv ==
  /\ TypeOK
  /\ GoodList(acc, list)
  /\ GoodList(file.acc, file.list)
  /\ JobsOwn
  /\ ProxiesKnown
  /\ ReadKnown
  /\ RestartAgrees

(* What a step leaves of an account that a worker holds. *)
Steady(r) ==
  /\ acc'[r].email = acc[r].email
  /\ acc[r].email = Unknown => acc'[r].refresh = acc[r].refresh
  /\ r \in list' => r \in list
-----------------------------------------------------------------------------
(* The lowest pointer of a set is in the set. *)
LEMMA FirstIn ==
  ASSUME NEW S \in SUBSET Pointers, S # {}
  PROVE  First(S) \in S
<1>1. S \subseteq Nat
  BY AccountAssumption
<1>2. IsWellFoundedOn(OpToRel(<, Nat), Nat)
  BY NatLessThanWellFounded
<1>3. PICK r \in S : \A s \in S : ~(<<s, r>> \in OpToRel(<, Nat))
  BY <1>1, <1>2, WFMin
<1>4. ASSUME NEW s \in S, s < r PROVE FALSE
  <2>1. <<s, r>> \in Nat \X Nat /\ <<s, r>>[1] < <<s, r>>[2]
    BY <1>1, <1>4
  <2>2. <<s, r>> \in OpToRel(<, Nat)
    BY <2>1, Zenon DEF OpToRel
  <2> QED
    BY <1>3, <2>2
<1>5. \A s \in S : r <= s
  BY <1>1, <1>4
<1> QED
  BY <1>5 DEF First

LEMMA NobodyGood ==
  /\ Nobody \in Account
  /\ OwnTokens(Nobody.email, Nobody)
  /\ Nobody.proxy = NoProxy /\ Nobody.active = FALSE
BY AccountAssumption DEF Nobody, Account, Ids, OwnTokens

LEMMA NothingGood ==
  /\ Nothing \in Files /\ Nothing.list = {}
  /\ Nothing.acc = [r \in Pointers |-> Nobody]
  /\ GoodList(Nothing.acc, Nothing.list)
  /\ References(Nothing.acc, Nothing.list) = {}
BY NobodyGood DEF Nothing, Files, GoodList, Marked, References

(* A save leaves the list on disk as good as that in memory, and a restart *)
(* would load what was saved.                                              *)
LEMMA SaveKeeps ==
  ASSUME IInv, GoodList(acc', list'), Save(acc', list')
  PROVE  /\ file' \in Files
         /\ GoodList(file.acc, file.list)'
         /\ unsaved' \in BOOLEAN /\ cleared' \in BOOLEAN /\ faults' \in 0..MaxFaults
         /\ References(file.acc, file.list)' \subseteq References(acc, list)' \cup References(file.acc, file.list)
         /\ ~unsaved' => References(file.acc, file.list)' = References(acc, list)'
         /\ RestartAgrees'
<1> DEFINE saved == [list |-> list', acc |-> [r \in Pointers |-> IF r \in list' THEN acc'[r] ELSE Nobody]]
<1>1. CASE file' = saved /\ unsaved' = FALSE /\ cleared' = FALSE /\ UNCHANGED faults
  <2>1. file' \in Files /\ file'.list = list'
        /\ \A r \in Pointers : file'.acc[r] = IF r \in list' THEN acc'[r] ELSE Nobody
    BY <1>1, NobodyGood DEF Files, GoodList
  <2>2. Marked(file'.acc, list') = Marked(acc', list')
    BY <2>1 DEF Marked, GoodList
  <2>3. GoodList(file.acc, file.list)'
    BY <2>1, <2>2, NobodyGood DEF GoodList, Marked, Files
  <2>4. References(file.acc, file.list)' = References(acc, list)'
    BY <2>1 DEF References, GoodList
  <2>5. RestartAgrees'
    BY <2>1, <2>2 DEF RestartAgrees, SameTo, ActiveAccount, GoodList
  <2> QED
    BY <1>1, <2>1, <2>3, <2>4, <2>5 DEF IInv, TypeOK, ProxyTypeOK
<1>2. CASE Fault /\ file' \in {file, Nothing} /\ unsaved' = TRUE /\ UNCHANGED cleared
  <2>1. file' \in Files /\ GoodList(file.acc, file.list)'
        /\ References(file.acc, file.list)' \subseteq References(file.acc, file.list)
    BY <1>2, NothingGood DEF IInv, TypeOK
  <2>2. faults' \in 0..MaxFaults
    BY <1>2, ProxyAssumption DEF Fault, IInv, TypeOK, ProxyTypeOK
  <2> QED
    BY <1>2, <2>1, <2>2 DEF RestartAgrees, IInv, TypeOK
<1> QED
  BY <1>1, <1>2 DEF Save

LEMMA JobsKept ==
  ASSUME IInv, UNCHANGED job, \A w \in Workers : job[w].ref \in Pointers => Steady(job[w].ref)
  PROVE  JobsOwn'
BY DEF IInv, JobsOwn, Own, Refreshing, Steady, TypeOK, Jobs

(* The proxies that were read stay known as long as there are no fewer.    *)
LEMMA ReadKept ==
  ASSUME IInv, NEW w \in Workers, NEW j \in Jobs, job'[w] = j, Reachable(j),
         j.op # "idle" => j.ref \in Pointers /\ (j.ref \in list' => j.ref \in list),
         ready => ready' /\ proxies \cup excused \subseteq proxies' \cup excused'
  PROVE  Reachable(job[w])'
BY DEF Reachable, Naming

LEMMA AllReadKept ==
  ASSUME IInv, UNCHANGED job, \A w \in Workers : job[w].ref \in Pointers => Steady(job[w].ref),
         ready => ready' /\ proxies \cup excused \subseteq proxies' \cup excused'
  PROVE  ReadKnown'
<1> SUFFICES ASSUME NEW w \in Workers PROVE Reachable(job[w])'
  BY DEF ReadKnown
<1>1. job[w] \in Jobs /\ Reachable(job[w]) /\ (job[w].op # "idle" => job[w].ref \in Pointers)
  BY DEF IInv, TypeOK, ReadKnown, JobsOwn
<1> QED
  BY <1>1, ReadKept DEF Steady

(* Whatever a user does to the list and is saved keeps the invariant, if   *)
(* it leaves the list good, names no new proxy, and leaves the accounts    *)
(* that workers hold to their users.                                       *)
LEMMA EditKeeps ==
  ASSUME IInv, GoodList(acc', list'), Save(acc', list'),
         UNCHANGED <<job, proxyVars>>,
         \A w \in Workers : job[w].ref \in Pointers => Steady(job[w].ref),
         References(acc', list') \subseteq References(acc, list)
  PROVE  IInv'
<1>1. JobsOwn'
  BY JobsKept
<1>2. TypeOK'
  BY SaveKeeps DEF IInv, TypeOK, ProxyTypeOK, proxyVars, GoodList
<1>3. ProxiesKnown'
  BY SaveKeeps DEF IInv, ProxiesKnown, Known, proxyVars
<1>4. ReadKnown'
  BY AllReadKept DEF proxyVars
<1> QED
  BY <1>1, <1>2, <1>3, <1>4, SaveKeeps DEF IInv
-----------------------------------------------------------------------------
LEMMA AddAccountKeeps ==
  ASSUME IInv, NEW a \in Account, AddAccount(a), OwnTokens(a.email, a),
         a.active => list = {}, a.proxy = NoProxy, a.email = Unknown \/ ByEmail(a.email) = {}
  PROVE  /\ GoodList(acc', list')
         /\ \A w \in Workers : job[w].ref \in Pointers => Steady(job[w].ref)
         /\ References(acc', list') \subseteq References(acc, list)
<1>1. PICK r \in Fresh : acc' = [acc EXCEPT ![r] = a] /\ list' = list \cup {r}
  BY DEF AddAccount
<1>2. /\ r \in Pointers /\ r \notin list
      /\ \A w \in Workers : job[w].ref # r
  <2>1. r \in Above
    BY DEF Fresh
  <2>2. r \in Pointers /\ (\A s \in list : r > s) /\ \A w \in Workers : job[w].ref # r
    BY <2>1 DEF Above
  <2>3. r \in Nat
    BY <2>2, AccountAssumption
  <2>4. ~(r > r)
    BY <2>3
  <2> QED
    BY <2>2, <2>4
<1>3. /\ acc' \in [Pointers -> Account] /\ acc'[r] = a
      /\ \A s \in Pointers : s # r => acc'[s] = acc[s]
      /\ list \subseteq Pointers
  BY <1>1, <1>2 DEF IInv, GoodList
<1>4. \A s \in list : acc'[s] = acc[s]
  BY <1>2, <1>3
<1>5. \A s \in list : acc[s].email = a.email => a.email = Unknown
  BY DEF ByEmail
<1>6. GoodList(acc', list')
  <2>1. \A s, t \in Marked(acc', list') : acc'[s].id = acc'[t].id
    <3>1. CASE a.active
      BY <1>1, <1>3, <3>1 DEF Marked
    <3>2. CASE ~a.active
      <4>1. Marked(acc', list') = Marked(acc, list)
        BY <1>1, <1>2, <1>3, <1>4, <3>2 DEF Marked
      <4> QED
        BY <4>1, <1>4 DEF Marked, IInv, GoodList
    <3> QED
      BY <3>1, <3>2
  <2>2. \A s, t \in list' : acc'[s].email = acc'[t].email /\ acc'[s].email # Unknown => s = t
    BY <1>1, <1>3, <1>4, <1>5 DEF IInv, GoodList
  <2>3. \A s \in Pointers : OwnTokens(acc'[s].email, acc'[s])
    BY <1>3 DEF IInv, GoodList
  <2> QED
    BY <1>1, <1>2, <1>3, <2>1, <2>2, <2>3 DEF GoodList
<1>7. \A w \in Workers : job[w].ref \in Pointers => Steady(job[w].ref)
  BY <1>1, <1>2, <1>3 DEF Steady
<1>8. References(acc', list') \subseteq References(acc, list)
  BY <1>1, <1>3, <1>4 DEF References
<1> QED
  BY <1>6, <1>7, <1>8

LEMMA NewTokensKeep ==
  ASSUME IInv, NEW e \in Users, NEW rt \in {e, NoToken}, ByEmail(e) # {}, NewTokens(e, rt, e)
  PROVE  /\ GoodList(acc', list')
         /\ \A w \in Workers : job[w].ref \in Pointers => Steady(job[w].ref)
         /\ References(acc', list') \subseteq References(acc, list)
<1> DEFINE x == First(ByEmail(e))
<1>1. x \in list /\ x \in Pointers /\ acc[x].email = e /\ e # Unknown
  <2>1. ByEmail(e) \in SUBSET Pointers
    BY DEF ByEmail, IInv, GoodList
  <2>2. x \in ByEmail(e)
    BY <2>1, FirstIn
  <2> QED
    BY <2>1, <2>2, AccountAssumption DEF ByEmail
<1> HIDE DEF x
<1>2. PICK t \in {e, NoToken} \cup {acc[x].refresh} :
        acc' = [acc EXCEPT ![x].refresh = t, ![x].access = e] /\ list' = list
  BY DEF NewTokens, x
<1>3. acc[x].refresh \in {e, NoToken}
  BY <1>1 DEF IInv, GoodList, OwnTokens
<1>t. t \in {e, NoToken} /\ {t, e} \subseteq Users \cup {NoToken}
  BY <1>3
<1>4. /\ acc' \in [Pointers -> Account]
      /\ \A s \in Pointers : /\ acc'[s].email = acc[s].email /\ acc'[s].id = acc[s].id
                             /\ acc'[s].active = acc[s].active /\ acc'[s].proxy = acc[s].proxy
                             /\ s # x => acc'[s] = acc[s]
      /\ acc'[x].refresh = t /\ acc'[x].access = e
  <2>1. acc \in [Pointers -> Account] /\ x \in Pointers
    BY <1>1 DEF IInv, GoodList
  <2> DEFINE new == [acc[x] EXCEPT !.refresh = t, !.access = e]
  <2>2. acc' = [acc EXCEPT ![x] = new]
    BY <1>2, <2>1
  <2>3. /\ new \in Account
        /\ new.email = acc[x].email /\ new.id = acc[x].id
        /\ new.active = acc[x].active /\ new.proxy = acc[x].proxy
        /\ new.refresh = t /\ new.access = e
    <3>1. acc[x] \in Account
      BY <2>1
    <3> QED
      BY <3>1, <1>t DEF Account
  <2> HIDE DEF new
  <2> QED
    BY <2>1, <2>2, <2>3
<1>5. \A s \in Pointers : OwnTokens(acc'[s].email, acc'[s])
  <2>1. OwnTokens(acc'[x].email, acc'[x])
    BY <1>1, <1>t, <1>4 DEF OwnTokens
  <2> QED
    BY <2>1, <1>4 DEF IInv, GoodList
<1>6. Marked(acc', list') = Marked(acc, list)
  BY <1>2, <1>4 DEF Marked, IInv, GoodList
<1>7. GoodList(acc', list')
  BY <1>2, <1>4, <1>5, <1>6 DEF IInv, GoodList, Marked
<1>8. \A w \in Workers : job[w].ref \in Pointers => Steady(job[w].ref)
  BY <1>1, <1>2, <1>4 DEF Steady
<1>9. References(acc', list') \subseteq References(acc, list)
  BY <1>2, <1>4 DEF References, IInv, GoodList
<1> QED
  BY <1>7, <1>8, <1>9

LEMMA NewAccountType ==
  ASSUME NEW i \in Ids, NEW e \in Users \cup {Unknown}, NEW u \in Users, NEW rt \in {u, NoToken},
         NEW b \in BOOLEAN, e = u \/ (e = Unknown /\ rt = u)
  PROVE  /\ NewAccount(i, e, rt, u, b) \in Account
         /\ OwnTokens(NewAccount(i, e, rt, u, b).email, NewAccount(i, e, rt, u, b))
         /\ NewAccount(i, e, rt, u, b).active = b /\ NewAccount(i, e, rt, u, b).email = e
         /\ NewAccount(i, e, rt, u, b).proxy = NoProxy
BY AccountAssumption DEF NewAccount, Account, OwnTokens

LEMMA ImportStep ==
  ASSUME IInv, NEW t \in Users, NEW e \in Users \cup {Unknown}, ImportCurrentWindowsAccount(t, e)
  PROVE  IInv'
<1>1. e \in {t, Unknown} /\ Save(acc', list') /\ UNCHANGED <<job, proxyVars>>
  BY DEF ImportCurrentWindowsAccount
<1>2. CASE ByEmail(e) # {} /\ NewTokens(e, t, t)
  <2>1. e = t
    BY <1>1, <1>2 DEF ByEmail
  <2> QED
    BY <1>1, <1>2, <2>1, NewTokensKeep, EditKeeps
<1>3. ASSUME NEW i \in Seconds, ByEmail(e) = {}, AddAccount(NewAccount(i, e, t, t, FALSE)) PROVE IInv'
  <2>0. PICK b \in BOOLEAN : b = FALSE
    OBVIOUS
  <2> DEFINE a == NewAccount(i, e, t, t, b)
  <2>1. i \in Ids
    BY DEF Ids
  <2>2. /\ a \in Account /\ OwnTokens(a.email, a)
        /\ a.active = FALSE /\ a.email = e /\ a.proxy = NoProxy
    <3>1. /\ e \in Users \cup {Unknown} /\ t \in {t, NoToken}
          /\ e = t \/ (e = Unknown /\ t = t)
      BY <1>1
    <3> QED
      BY <2>0, <2>1, <3>1, NewAccountType
  <2> HIDE DEF a
  <2>3. AddAccount(a)
    BY <1>3, <2>0 DEF a
  <2> QED
    BY <1>1, <1>3, <2>0, <2>2, <2>3, AddAccountKeeps, EditKeeps
<1> QED
  BY <1>2, <1>3 DEF ImportCurrentWindowsAccount

(* A login or a token of user u. *)
LEMMA LoginStep ==
  ASSUME IInv, NEW u \in Users, NEW rt \in {u, NoToken},
         \/ ByEmail(u) # {} /\ NewTokens(u, rt, u)
         \/ ByEmail(u) = {} /\ \E i \in Seconds : AddAccount(NewAccount(i, u, rt, u, list = {})),
         Save(acc', list'), UNCHANGED <<job, proxyVars>>
  PROVE  IInv'
<1>1. CASE ByEmail(u) # {} /\ NewTokens(u, rt, u)
  BY <1>1, NewTokensKeep, EditKeeps
<1>2. ASSUME NEW i \in Seconds, ByEmail(u) = {}, AddAccount(NewAccount(i, u, rt, u, list = {})) PROVE IInv'
  <2>1. PICK b \in BOOLEAN : b = (list = {})
    OBVIOUS
  <2> DEFINE a == NewAccount(i, u, rt, u, b)
  <2>2. /\ a \in Account /\ OwnTokens(a.email, a)
        /\ a.active = b /\ a.email = u /\ a.proxy = NoProxy
    <3>1. i \in Ids
      BY DEF Ids
    <3> QED
      BY <3>1, NewAccountType
  <2> HIDE DEF a
  <2>3. AddAccount(a)
    BY <1>2, <2>1 DEF a
  <2> QED
    BY <1>2, <2>1, <2>2, <2>3, AddAccountKeeps, EditKeeps
<1> QED
  BY <1>1, <1>2

(* A step that only moves the active mark, and does so rightly. *)
LEMMA MarksKeep ==
  ASSUME IInv, acc' \in [Pointers -> Account], list' \subseteq list,
         \A r \in Pointers : SameTo(acc[r], acc'[r]),
         \A r, s \in Marked(acc', list') : acc'[r].id = acc'[s].id
  PROVE  /\ GoodList(acc', list')
         /\ \A w \in Workers : job[w].ref \in Pointers => Steady(job[w].ref)
         /\ References(acc', list') \subseteq References(acc, list)
<1>1. ASSUME NEW r \in Pointers
      PROVE  /\ acc'[r].email = acc[r].email /\ acc'[r].refresh = acc[r].refresh
             /\ acc'[r].access = acc[r].access /\ acc'[r].proxy = acc[r].proxy
  <2>1. acc[r] \in Account /\ acc'[r] \in Account
    BY DEF IInv, GoodList
  <2>2. [acc[r] EXCEPT !.active = FALSE] = [acc'[r] EXCEPT !.active = FALSE]
    BY DEF SameTo
  <2> QED
    BY <2>1, <2>2 DEF Account
<1>2. GoodList(acc', list')
  <2>1. list' \subseteq Pointers
    BY DEF IInv, GoodList
  <2>2. \A r, s \in list' : acc'[r].email = acc'[s].email /\ acc'[r].email # Unknown => r = s
    BY <1>1, <2>1 DEF IInv, GoodList
  <2>3. ASSUME NEW r \in Pointers PROVE OwnTokens(acc'[r].email, acc'[r])
    <3>1. OwnTokens(acc[r].email, acc[r])
      BY DEF IInv, GoodList
    <3> QED
      BY <1>1, <3>1 DEF OwnTokens
  <2> QED
    BY <2>1, <2>2, <2>3 DEF GoodList
<1>3. References(acc', list') \subseteq References(acc, list)
  BY <1>1 DEF References, IInv, GoodList
<1> QED
  BY <1>1, <1>2, <1>3 DEF Steady

LEMMA ActivateType ==
  ASSUME NEW a \in Account, NEW b \in BOOLEAN
  PROVE  /\ [a EXCEPT !.active = b] \in Account
         /\ SameTo(a, [a EXCEPT !.active = b])
         /\ [a EXCEPT !.active = b].id = a.id
         /\ [a EXCEPT !.active = b].active = b
BY DEF Account, SameTo

LEMMA SetActiveStep == ASSUME IInv, NEW i \in Ids, SetActiveAccount(i) PROVE IInv'
<1>1. /\ acc' = [r \in Pointers |-> IF r \in list THEN [acc[r] EXCEPT !.active = (acc[r].id = i)]
                                   ELSE acc[r]]
      /\ UNCHANGED <<list, job, proxyVars>>
  BY DEF SetActiveAccount
<1>2. \A r \in Pointers : acc[r] \in Account /\ (acc[r].id = i) \in BOOLEAN
  BY DEF IInv, GoodList
<1>3. /\ acc' \in [Pointers -> Account]
      /\ \A r \in Pointers : SameTo(acc[r], acc'[r])
      /\ \A r \in list : acc'[r].active => acc'[r].id = i
  <2>1. \A r \in Pointers : acc'[r] = IF r \in list THEN [acc[r] EXCEPT !.active = (acc[r].id = i)] ELSE acc[r]
    BY <1>1
  <2>2. \A r \in Pointers : acc'[r] \in Account /\ SameTo(acc[r], acc'[r])
    <3> TAKE r \in Pointers
    <3>1. CASE r \in list
      <4> DEFINE b == (acc[r].id = i)
      <4>1. acc[r] \in Account /\ b \in BOOLEAN /\ acc'[r] = [acc[r] EXCEPT !.active = b]
        BY <1>2, <2>1, <3>1
      <4> HIDE DEF b
      <4> QED
        BY <4>1, ActivateType
    <3>2. CASE r \notin list
      BY <1>2, <2>1, <3>2 DEF SameTo
    <3> QED
      BY <3>1, <3>2
  <2>3. ASSUME NEW r \in list, acc'[r].active PROVE acc'[r].id = i
    <3>1. r \in Pointers
      BY DEF IInv, GoodList
    <3>2. PICK b \in BOOLEAN : b = (acc[r].id = i)
      OBVIOUS
    <3>3. acc'[r] = [acc[r] EXCEPT !.active = b] /\ acc[r] \in Account
      BY <1>2, <2>1, <3>1, <3>2
    <3> QED
      BY <2>3, <3>2, <3>3, ActivateType
  <2> QED
    BY <1>1, <2>2, <2>3
<1>4. \A r, s \in Marked(acc', list') : acc'[r].id = acc'[s].id
  BY <1>1, <1>3 DEF Marked
<1>5. /\ GoodList(acc', list')
      /\ \A w \in Workers : job[w].ref \in Pointers => Steady(job[w].ref)
      /\ References(acc', list') \subseteq References(acc, list)
  BY <1>1, <1>3, <1>4, MarksKeep
<1>6. CASE ById(i) # {} /\ Save(acc', list)
  BY <1>1, <1>5, <1>6, EditKeeps
<1>7. CASE ById(i) = {} /\ cleared' = TRUE /\ UNCHANGED <<file, unsaved, faults>>
  <2>1. JobsOwn'
    BY <1>1, <1>5, JobsKept
  <2>2. TypeOK'
    BY <1>1, <1>3, <1>7 DEF IInv, TypeOK, ProxyTypeOK, proxyVars
  <2>3. ProxiesKnown'
    BY <1>1, <1>5, <1>7 DEF IInv, ProxiesKnown, Known, proxyVars
  <2>4. RestartAgrees'
    BY <1>1, <1>3, <1>7 DEF IInv, RestartAgrees, SameTo, GoodList
  <2>5. ReadKnown'
    BY <1>1, <1>5, AllReadKept DEF proxyVars
  <2> QED
    BY <1>5, <1>7, <2>1, <2>2, <2>3, <2>4, <2>5 DEF IInv
<1> QED
  BY <1>6, <1>7 DEF SetActiveAccount

LEMMA DeleteAccountStep == ASSUME IInv, NEW i \in Ids, DeleteAccount(i) PROVE IInv'
<1> DEFINE marks(r) == /\ \E d \in ById(i) : acc[d].active
                       /\ list' # {} /\ r = First(list')
<1>1. /\ list' = list \ ById(i)
      /\ acc' = [r \in Pointers |-> IF marks(r) THEN [acc[r] EXCEPT !.active = TRUE] ELSE acc[r]]
      /\ Save(acc', list')
      /\ UNCHANGED <<job, proxyVars>>
  BY DEF DeleteAccount
<1>2. \A r \in Pointers : acc'[r] = IF marks(r) THEN [acc[r] EXCEPT !.active = TRUE] ELSE acc[r]
  BY <1>1
<1>3. \A r \in Pointers : acc[r] \in Account
  BY DEF IInv, GoodList
<1>4. \A r \in Pointers : acc'[r] \in Account /\ SameTo(acc[r], acc'[r]) /\ acc'[r].id = acc[r].id
  <2> TAKE r \in Pointers
  <2>1. CASE marks(r)
    BY <1>2, <1>3, <2>1, ActivateType
  <2>2. CASE ~marks(r)
    BY <1>2, <1>3, <2>2 DEF SameTo
  <2> QED
    BY <2>1, <2>2
<1>5. \A r, s \in Marked(acc', list') : acc'[r].id = acc'[s].id
  <2>1. CASE \E d \in ById(i) : acc[d].active
    <3>1. ASSUME NEW r \in list', acc[r].active PROVE FALSE
      <4>1. PICK d \in ById(i) : acc[d].active
        BY <2>1
      <4>2. d \in Marked(acc, list) /\ r \in Marked(acc, list) /\ acc[d].id = i
        BY <1>1, <3>1, <4>1 DEF ById, Marked
      <4>3. acc[r].id = i
        BY <4>2 DEF IInv, GoodList
      <4> QED
        BY <1>1, <4>3 DEF ById
    <3>2. \A r \in Pointers : ~marks(r) => acc'[r] = acc[r]
      BY <1>2
    <3>3. \A r \in Marked(acc', list') : marks(r)
      <4> TAKE r \in Marked(acc', list')
      <4>1. r \in list' /\ r \in Pointers /\ acc'[r].active
        BY <1>1 DEF Marked, IInv, GoodList
      <4> QED
        BY <3>1, <3>2, <4>1
    <3> QED
      BY <3>3
  <2>2. CASE ~\E d \in ById(i) : acc[d].active
    <3>1. \A r \in Pointers : acc'[r] = acc[r]
      BY <1>2, <2>2
    <3>2. Marked(acc', list') \subseteq Marked(acc, list)
      BY <1>1, <3>1 DEF Marked, IInv, GoodList
    <3>3. \A r \in Marked(acc', list') : acc'[r] = acc[r]
      BY <1>1, <3>1 DEF Marked, IInv, GoodList
    <3> QED
      BY <3>2, <3>3 DEF IInv, GoodList
  <2> QED
    BY <2>1, <2>2
<1>6. acc' \in [Pointers -> Account]
  BY <1>1, <1>4
<1> QED
  BY <1>1, <1>4, <1>5, <1>6, MarksKeep, EditKeeps

LEMMA SaveAsItIs ==
  ASSUME IInv, Save(acc, list), UNCHANGED <<acc, list, job, proxyVars>>
  PROVE  IInv'
<1>1. GoodList(acc', list') /\ Save(acc', list') /\ References(acc', list') \subseteq References(acc, list)
  BY DEF IInv, References
<1>2. \A w \in Workers : job[w].ref \in Pointers => Steady(job[w].ref)
  BY DEF Steady
<1> QED
  BY <1>1, <1>2, EditKeeps
-----------------------------------------------------------------------------
LEMMA SetAccountProxyStep ==
  ASSUME IInv, NEW i \in Ids, NEW p \in Proxies \cup {NoProxy}, SetAccountProxy(i, p)
  PROVE  IInv'
<1> DEFINE x == First(ById(i))
<1>1. /\ ready /\ acc' = [acc EXCEPT ![x].proxy = p] /\ Save(acc', list')
      /\ excused' = excused \cup ({p} \ (proxies \cup {NoProxy}))
      /\ UNCHANGED <<list, job, proxies, proxyFile, ready, deleting, born>>
  BY DEF SetAccountProxy, Serving
<1>2. x \in list /\ x \in Pointers
  <2>1. ById(i) \in SUBSET Pointers /\ ById(i) # {} /\ ById(i) \subseteq list
    BY DEF ById, IInv, GoodList, SetAccountProxy
  <2> QED
    BY <2>1, FirstIn
<1> HIDE DEF x
<1>3. /\ acc' \in [Pointers -> Account]
      /\ \A r \in Pointers : /\ acc'[r].email = acc[r].email /\ acc'[r].id = acc[r].id
                             /\ acc'[r].active = acc[r].active /\ acc'[r].refresh = acc[r].refresh
                             /\ acc'[r].access = acc[r].access
                             /\ acc'[r].proxy \in {acc[r].proxy, p}
  <2> acc \in [Pointers -> Account]
    BY DEF IInv, GoodList
  <2> QED
    BY <1>1, <1>2 DEF Account
<1>4. GoodList(acc', list')
  <2>1. ASSUME NEW r \in Pointers PROVE OwnTokens(acc'[r].email, acc'[r])
    <3>1. OwnTokens(acc[r].email, acc[r])
      BY DEF IInv, GoodList
    <3> QED
      BY <1>3, <3>1 DEF OwnTokens
  <2>2. Marked(acc', list') = Marked(acc, list)
    BY <1>1, <1>3 DEF Marked, IInv, GoodList
  <2> QED
    BY <1>1, <1>3, <2>1, <2>2 DEF IInv, GoodList, Marked
<1>5. JobsOwn' /\ ReadKnown'
  <2>1. \A r \in Pointers : Steady(r)
    BY <1>1, <1>3 DEF Steady
  <2> QED
    BY <1>1, <2>1, JobsKept, AllReadKept
<1>6. TypeOK'
  BY <1>1, <1>3, <1>4, SaveKeeps DEF IInv, TypeOK, ProxyTypeOK
<1>7. References(acc, list)' \subseteq References(acc, list) \cup ({p} \ {NoProxy})
  BY <1>1, <1>3 DEF References, IInv, GoodList
<1>8. ProxiesKnown'
  BY <1>1, <1>4, <1>7, SaveKeeps DEF IInv, ProxiesKnown, Known
<1> QED
  BY <1>1, <1>4, <1>5, <1>6, <1>8, SaveKeeps DEF IInv

LEMMA DeleteProxyStep == ASSUME IInv, NEW p \in Proxies, DeleteProxy(p) PROVE IInv'
<1>1. /\ ready /\ proxies' = proxies \ {p} /\ deleting' = p /\ Save(acc', list')
      /\ acc' = [r \in Pointers |-> IF r \in list /\ acc[r].proxy = p
                                    THEN [acc[r] EXCEPT !.proxy = NoProxy] ELSE acc[r]]
      /\ job' = Overtaken(p)
      /\ UNCHANGED <<list, proxyFile, ready, born, excused>>
  BY DEF DeleteProxy
<1>2. \A r \in Pointers : acc'[r] = IF r \in list /\ acc[r].proxy = p
                                     THEN [acc[r] EXCEPT !.proxy = NoProxy] ELSE acc[r]
  BY <1>1
<1>3. /\ acc' \in [Pointers -> Account]
      /\ \A r \in Pointers : /\ acc'[r].email = acc[r].email /\ acc'[r].id = acc[r].id
                             /\ acc'[r].active = acc[r].active /\ acc'[r].refresh = acc[r].refresh
                             /\ acc'[r].access = acc[r].access
                             /\ r \in list => acc'[r].proxy \in {acc[r].proxy, NoProxy} \ {p}
  <2>1. ASSUME NEW r \in Pointers
        PROVE  /\ acc'[r] \in Account
               /\ acc'[r].email = acc[r].email /\ acc'[r].id = acc[r].id
               /\ acc'[r].active = acc[r].active /\ acc'[r].refresh = acc[r].refresh
               /\ acc'[r].access = acc[r].access
               /\ r \in list => acc'[r].proxy \in {acc[r].proxy, NoProxy} \ {p}
    <3>1. acc[r] \in Account
      BY DEF IInv, GoodList
    <3> QED
      BY <1>2, <3>1, ProxyAssumption DEF Account
  <2> QED
    BY <1>1, <2>1
<1>4. GoodList(acc', list')
  <2>1. ASSUME NEW r \in Pointers PROVE OwnTokens(acc'[r].email, acc'[r])
    <3>1. OwnTokens(acc[r].email, acc[r])
      BY DEF IInv, GoodList
    <3> QED
      BY <1>3, <3>1 DEF OwnTokens
  <2>2. Marked(acc', list') = Marked(acc, list)
    BY <1>1, <1>3 DEF Marked, IInv, GoodList
  <2> QED
    BY <1>1, <1>3, <2>1, <2>2 DEF IInv, GoodList, Marked
<1>j. ASSUME NEW w \in Workers
      PROVE  /\ job'[w] \in Jobs
             /\ job'[w].op = job[w].op /\ job'[w].ref = job[w].ref
             /\ job'[w].sent = job[w].sent /\ job'[w].via = job[w].via
             /\ ~job'[w].overtaken => ~job[w].overtaken /\ ~(Naming(job[w]) /\ job[w].via = p)
  <2>1. job[w] \in Jobs
    BY DEF IInv, TypeOK
  <2> DEFINE b == job[w].overtaken \/ (Naming(job[w]) /\ job[w].via = p)
  <2>2. job'[w] = [job[w] EXCEPT !.overtaken = b]
    BY <1>1 DEF Overtaken
  <2>3. b \in BOOLEAN
    BY <2>1 DEF Jobs, Naming
  <2>4. ~b => ~job[w].overtaken /\ ~(Naming(job[w]) /\ job[w].via = p)
    OBVIOUS
  <2> HIDE DEF b
  <2> QED
    BY <2>1, <2>2, <2>3, <2>4 DEF Jobs
<1>5. JobsOwn'
  <2>1. \A r \in Pointers : Steady(r)
    BY <1>1, <1>3 DEF Steady
  <2> QED
    BY <1>j, <2>1 DEF IInv, JobsOwn, Own, Refreshing, Steady
<1>r. ReadKnown'
  <2> SUFFICES ASSUME NEW w \in Workers PROVE Reachable(job[w])'
    BY DEF ReadKnown
  <2>1. Reachable(job[w])
    BY DEF IInv, ReadKnown
  <2> QED
    BY <1>1, <1>j, <2>1 DEF Reachable, Naming
<1>6. TypeOK'
  <2>1. job' \in [Workers -> Jobs]
    BY <1>1, <1>j DEF Overtaken
  <2> QED
    BY <1>1, <1>3, <1>4, <2>1, SaveKeeps DEF IInv, TypeOK, ProxyTypeOK
<1>7. References(acc, list)' \subseteq References(acc, list) \ {p}
  BY <1>1, <1>3 DEF References, IInv, GoodList
<1>8. ProxiesKnown'
  BY <1>1, <1>4, <1>7, SaveKeeps DEF IInv, ProxiesKnown, Known
<1> QED
  BY <1>1, <1>4, <1>5, <1>6, <1>8, <1>r, SaveKeeps DEF IInv
-----------------------------------------------------------------------------
(* A worker that only goes on with its job. *)
LEMMA JobStepKeeps ==
  ASSUME IInv, NEW w \in Workers, NEW j \in Jobs, JobStep(w, j),
         UNCHANGED <<acc, file, unsaved, cleared, faults>>,
         j.op # "idle" => j.ref \in Pointers,
         Refreshing(j) => Own(acc[j.ref], j.sent),
         Reachable(j)
  PROVE  IInv'
<1>1. job' = [job EXCEPT ![w] = j] /\ UNCHANGED <<list, proxyVars>>
  BY DEF JobStep
<1>2. /\ job' \in [Workers -> Jobs]
      /\ \A v \in Workers : job'[v] = IF v = w THEN j ELSE job[v]
  BY <1>1 DEF IInv, TypeOK
<1>3. JobsOwn'
  BY <1>2 DEF IInv, JobsOwn, Own
<1>4. ReadKnown'
  BY <1>1, <1>2 DEF IInv, ReadKnown, Reachable, proxyVars
<1> QED
  BY <1>1, <1>2, <1>3, <1>4
  DEF IInv, TypeOK, ProxyTypeOK, proxyVars, GoodList, Marked, ProxiesKnown, Known, References, RestartAgrees

(* A worker that saves the list when it has its answer. *)
LEMMA WorkerSaves ==
  ASSUME IInv, NEW w \in Workers, NEW j \in Jobs, JobStep(w, j),
         GoodList(acc', list'), Save(acc', list'),
         \A v \in Workers : job[v].ref \in Pointers => Steady(job[v].ref),
         References(acc', list') \subseteq References(acc, list),
         j.op # "idle" => j.ref \in Pointers,
         ~Refreshing(j), ~Naming(j)
  PROVE  IInv'
<1>1. job' = [job EXCEPT ![w] = j] /\ UNCHANGED <<list, proxyVars>>
  BY DEF JobStep
<1>2. /\ job' \in [Workers -> Jobs]
      /\ \A v \in Workers : job'[v] = IF v = w THEN j ELSE job[v]
  BY <1>1 DEF IInv, TypeOK
<1>3. JobsOwn'
  BY <1>2 DEF IInv, JobsOwn, Own, Refreshing, Steady
<1>4. TypeOK'
  BY <1>1, <1>2, SaveKeeps DEF IInv, TypeOK, ProxyTypeOK, proxyVars, GoodList
<1>5. ProxiesKnown'
  BY <1>1, SaveKeeps DEF IInv, ProxiesKnown, Known, proxyVars
<1>6. ReadKnown'
  BY <1>1, <1>2 DEF IInv, ReadKnown, Reachable, proxyVars
<1> QED
  BY <1>3, <1>4, <1>5, <1>6, SaveKeeps DEF IInv

LEMMA IdleIsJob == Idle \in Jobs /\ Idle.op = "idle" /\ ~Refreshing(Idle) /\ ~Naming(Idle)
BY ProxyAssumption DEF Idle, Jobs, Refreshing, Naming

LEMMA FoundIsJob ==
  ASSUME NEW r \in Pointers, NEW op \in {"found", "refreshed"}
  PROVE  /\ Found(r, op) \in Jobs /\ Found(r, op).op = op /\ Found(r, op).ref = r
         /\ ~Refreshing(Found(r, op)) /\ ~Naming(Found(r, op))
BY ProxyAssumption DEF Found, Idle, Jobs, Refreshing, Naming

LEMMA GoesOnIsJob ==
  ASSUME IInv, NEW w \in Workers, job[w].op # "idle"
  PROVE  /\ GoesOn(w) \in Jobs /\ GoesOn(w).op = "refreshed" /\ GoesOn(w).ref \in Pointers
         /\ ~Refreshing(GoesOn(w)) /\ ~Naming(GoesOn(w))
<1>1. job[w] \in Jobs /\ job[w].ref \in Pointers
  BY DEF IInv, TypeOK, JobsOwn
<1> QED
  BY <1>1, ProxyAssumption DEF GoesOn, Jobs, Refreshing, Naming

(* A worker that has read the proxy of its account. *)
LEMMA NamedIsJob ==
  ASSUME IInv, NEW w \in Workers, job[w].op # "idle", NEW op \in {"refreshVia", "requestVia"}
  PROVE  /\ Named(w, op) \in Jobs /\ Named(w, op).op = op /\ Named(w, op).ref = job[w].ref
         /\ Named(w, op).ref \in Pointers /\ Reachable(Named(w, op))
<1> DEFINE a == acc[job[w].ref]
           p == IF ready THEN a.proxy ELSE NoProxy
           j == [job[w] EXCEPT !.op = op, !.via = p]
<1>1. job[w] \in Jobs /\ job[w].ref \in Pointers
  BY DEF IInv, TypeOK, JobsOwn
<1>2. a \in Account
  BY <1>1 DEF IInv, GoodList
<1>3. p \in Proxies \cup {NoProxy} /\ (p # NoProxy => ready /\ p = a.proxy)
  BY <1>2 DEF Account
<1>4. job[w].ref \in list /\ p # NoProxy => p \in proxies \cup excused
  BY <1>3 DEF IInv, ProxiesKnown, Known, References
<1> HIDE DEF p
<1>5. j \in Jobs /\ j.op = op /\ j.ref = job[w].ref /\ j.via = p
  BY <1>1, <1>3 DEF Jobs
<1>6. Named(w, op) = j
  BY DEF Named, p
<1> HIDE DEF j
<1> QED
  BY <1>1, <1>3, <1>4, <1>5, <1>6 DEF Reachable

LEMMA SentIsJob ==
  ASSUME IInv, NEW w \in Workers, job[w].op # "idle", NEW op \in {"refresh", "request"}
  PROVE  /\ Sent(w, op) \in Jobs /\ Sent(w, op).op = op /\ Sent(w, op).ref = job[w].ref
         /\ Sent(w, op).sent = job[w].sent /\ Sent(w, op).via = Client(job[w].via)
         /\ Sent(w, op).ref \in Pointers /\ ~Naming(Sent(w, op))
<1>1. job[w] \in Jobs /\ job[w].ref \in Pointers
  BY DEF IInv, TypeOK, JobsOwn
<1>2. Client(job[w].via) \in Proxies \cup {NoProxy}
  BY <1>1 DEF Client, Jobs
<1> QED
  BY <1>1, <1>2 DEF Sent, Jobs, Naming

LEMMA RefreshedStep == ASSUME IInv, NEW w \in Workers, Refreshed(w) PROVE IInv'
<1> DEFINE x == job[w].ref
<1>1. /\ job[w].op = "refresh" /\ JobStep(w, GoesOn(w))
      /\ acc' = [acc EXCEPT ![x].access = job[w].sent] /\ Save(acc', list')
      /\ list' = list
  BY DEF Refreshed, JobStep
<1>2. /\ x \in Pointers /\ job[w].sent \in Users \cup {NoToken}
      /\ IF acc[x].email = Unknown THEN job[w].sent = acc[x].refresh
         ELSE job[w].sent \in {acc[x].email, NoToken}
  BY <1>1 DEF IInv, JobsOwn, Own, Refreshing, TypeOK, Jobs
<1> HIDE DEF x
<1>3. /\ acc' \in [Pointers -> Account]
      /\ \A r \in Pointers : /\ acc'[r].email = acc[r].email /\ acc'[r].id = acc[r].id
                             /\ acc'[r].active = acc[r].active /\ acc'[r].refresh = acc[r].refresh
                             /\ acc'[r].proxy = acc[r].proxy
                             /\ acc'[r].access = IF r = x THEN job[w].sent ELSE acc[r].access
  <2> acc \in [Pointers -> Account]
    BY DEF IInv, GoodList
  <2> QED
    BY <1>1, <1>2 DEF Account
<1>4. GoodList(acc', list')
  <2>1. ASSUME NEW r \in Pointers PROVE OwnTokens(acc'[r].email, acc'[r])
    <3>1. OwnTokens(acc[r].email, acc[r])
      BY DEF IInv, GoodList
    <3> QED
      BY <1>2, <1>3, <3>1 DEF OwnTokens
  <2>2. Marked(acc', list') = Marked(acc, list)
    BY <1>1, <1>3 DEF Marked, IInv, GoodList
  <2> QED
    BY <1>1, <1>3, <2>1, <2>2 DEF IInv, GoodList, Marked
<1>5. \A v \in Workers : job[v].ref \in Pointers => Steady(job[v].ref)
  BY <1>1, <1>3 DEF Steady
<1>6. References(acc', list') \subseteq References(acc, list)
  BY <1>1, <1>3 DEF References, IInv, GoodList
<1> QED
  BY <1>1, <1>4, <1>5, <1>6, GoesOnIsJob, WorkerSaves

LEMMA QuotaDoneStep == ASSUME IInv, NEW w \in Workers, QuotaDone(w) PROVE IInv'
<1>1. JobStep(w, Idle) /\ Save(acc', list') /\ UNCHANGED <<acc, list>>
  BY DEF QuotaDone, JobStep
<1>2. GoodList(acc', list') /\ References(acc', list') \subseteq References(acc, list)
  BY <1>1 DEF IInv
<1>3. \A v \in Workers : job[v].ref \in Pointers => Steady(job[v].ref)
  BY <1>1 DEF Steady
<1> QED
  BY <1>1, <1>2, <1>3, IdleIsJob, WorkerSaves

LEMMA WorkerStep == ASSUME IInv, NEW w \in Workers, Worker(w) PROVE IInv'
<1>0. job[w] \in Jobs /\ (job[w].op # "idle" => job[w].ref \in Pointers) /\ Reachable(job[w])
  BY DEF IInv, TypeOK, JobsOwn, ReadKnown
<1>1. ASSUME NEW j \in Jobs, JobStep(w, j), UNCHANGED <<acc, file, unsaved, cleared, faults>>,
             j.op # "idle" => j.ref \in Pointers, ~Refreshing(j), ~Naming(j)
      PROVE  IInv'
  BY <1>1, JobStepKeeps DEF Reachable
<1>2. ASSUME NEW i \in Ids, RefreshAccountQuota(w, i) PROVE IInv'
  <2>1. ById(i) \in SUBSET Pointers /\ ById(i) # {}
    BY <1>2 DEF ById, IInv, GoodList, RefreshAccountQuota
  <2>2. First(ById(i)) \in Pointers
    BY <2>1, FirstIn
  <2> QED
    BY <1>1, <1>2, <2>2, FoundIsJob DEF RefreshAccountQuota
<1>3. ASSUME NEW r \in Pointers, TokenExpired(w, r) \/ TokenValid(w, r) PROVE IInv'
  BY <1>1, <1>3, FoundIsJob DEF TokenExpired, TokenValid
<1>4. CASE RefreshAccountToken(w)
  <2> DEFINE a == acc[job[w].ref]
             n == Named(w, "refreshVia")
             j == [n EXCEPT !.sent = a.refresh]
  <2>1. job[w].op = "found" /\ JobStep(w, j) /\ UNCHANGED <<acc, file, unsaved, cleared, faults>>
    BY <1>4 DEF RefreshAccountToken
  <2>2. /\ n \in Jobs /\ n.op = "refreshVia" /\ n.ref = job[w].ref
        /\ n.ref \in Pointers /\ Reachable(n)
    BY <2>1, NamedIsJob
  <2>3. a \in Account /\ OwnTokens(a.email, a)
    BY <2>2 DEF IInv, GoodList
  <2>4. a.refresh \in Users \cup {NoToken} /\ Own(a, a.refresh)
    BY <2>3 DEF Account, OwnTokens, Own
  <2> HIDE DEF n
  <2>5. /\ j \in Jobs /\ j.op = "refreshVia" /\ j.ref = job[w].ref /\ j.sent = a.refresh
        /\ j.via = n.via /\ j.overtaken = n.overtaken
    BY <2>2, <2>4 DEF Jobs
  <2> HIDE DEF j
  <2>6. Reachable(j)
    BY <2>2, <2>5 DEF Reachable, Naming
  <2> QED
    BY <2>1, <2>2, <2>4, <2>5, <2>6, JobStepKeeps
<1>5. CASE NoRefreshToken(w) \/ RefreshFailed(w)
  <2>1. job[w].op # "idle" /\ (JobStep(w, GoesOn(w)) \/ JobStep(w, Idle))
        /\ UNCHANGED <<acc, file, unsaved, cleared, faults>>
    BY <1>5 DEF NoRefreshToken, RefreshFailed
  <2> QED
    BY <1>1, <2>1, GoesOnIsJob, IdleIsJob
<1>6. CASE SendRefresh(w)
  <2>1. job[w].op = "refreshVia" /\ JobStep(w, Sent(w, "refresh"))
        /\ UNCHANGED <<acc, file, unsaved, cleared, faults>>
    BY <1>6 DEF SendRefresh
  <2>2. Own(acc[job[w].ref], job[w].sent)
    BY <2>1 DEF IInv, JobsOwn, Refreshing
  <2> QED
    BY <2>1, <2>2, SentIsJob, JobStepKeeps DEF Reachable
<1>7. CASE Refreshed(w)
  BY <1>7, RefreshedStep
<1>8. CASE MakeRequest(w)
  <2>1. job[w].op = "refreshed" /\ JobStep(w, Named(w, "requestVia"))
        /\ UNCHANGED <<acc, file, unsaved, cleared, faults>>
    BY <1>8 DEF MakeRequest
  <2> QED
    BY <2>1, NamedIsJob, JobStepKeeps DEF Refreshing
<1>9. CASE SendRequest(w)
  <2>1. job[w].op = "requestVia" /\ JobStep(w, Sent(w, "request"))
        /\ UNCHANGED <<acc, file, unsaved, cleared, faults>>
    BY <1>9 DEF SendRequest
  <2> QED
    BY <1>1, <2>1, SentIsJob DEF Refreshing
<1>10. CASE QuotaDone(w)
  BY <1>10, QuotaDoneStep
<1>11. CASE RequestOver(w)
  BY <1>1, <1>11, IdleIsJob DEF RequestOver
<1> QED
  BY <1>2, <1>3, <1>4, <1>5, <1>6, <1>7, <1>8, <1>9, <1>10, <1>11 DEF Worker
-----------------------------------------------------------------------------
LEMMA SaveProxiesKeeps ==
  ASSUME IInv, NEW ids \in SUBSET Proxies, SaveProxies(ids)
  PROVE  /\ proxyFile' \subseteq Proxies /\ excused' \subseteq Proxies /\ faults' \in 0..MaxFaults
         /\ excused \subseteq excused'
         /\ ids \subseteq proxyFile' \cup excused'
<1>1. proxyFile \subseteq Proxies /\ excused \subseteq Proxies /\ faults \in 0..MaxFaults
  BY DEF IInv, TypeOK, ProxyTypeOK
<1> QED
  BY <1>1, ProxyAssumption DEF SaveProxies, Fault

(* A step of the manager leaves the accounts and the jobs alone; it takes  *)
(* a proxy from nobody.                                                    *)
LEMMA ProxyStepKeeps ==
  ASSUME IInv, UNCHANGED accountVars, ProxyTypeOK', ready',
         proxies' \subseteq proxyFile' \cup excused',
         Known \subseteq proxies' \cup excused'
  PROVE  IInv'
<1>1. ReadKnown'
  BY DEF IInv, ReadKnown, Reachable, Known, accountVars
<1> QED
  BY <1>1 DEF IInv, TypeOK, accountVars, GoodList, Marked, JobsOwn, ProxiesKnown, Known, References, RestartAgrees

LEMMA ProxyStepStep == ASSUME IInv, ProxyStep PROVE IInv'
<1>0. UNCHANGED accountVars
  BY DEF ProxyStep
<1>1. CASE InitProxyManager
  BY <1>0, <1>1, ProxyStepKeeps DEF InitProxyManager, IInv, TypeOK, ProxyTypeOK, ProxiesKnown, Known
<1>2. ASSUME NEW p \in Proxies, AddProxy(p) PROVE IInv'
  <2>1. /\ ready /\ ready' = ready /\ deleting' = deleting /\ born' = born \cup {p}
        /\ proxies' = proxies \cup {p} /\ SaveProxies(proxies')
    BY <1>2 DEF AddProxy
  <2>2. ProxyTypeOK' /\ excused \subseteq excused' /\ proxies' \subseteq proxyFile' \cup excused'
    <3>1. proxies' \in SUBSET Proxies
      BY <2>1 DEF IInv, TypeOK, ProxyTypeOK
    <3> QED
      BY <2>1, <3>1, SaveProxiesKeeps DEF IInv, TypeOK, ProxyTypeOK
  <2> QED
    BY <1>0, <2>1, <2>2, ProxyStepKeeps DEF Known
<1>3. CASE TestsDone
  <2>1. /\ ready /\ ready' = ready /\ deleting' = deleting /\ born' = born
        /\ proxies' = proxies /\ SaveProxies(proxies)
    BY <1>3 DEF TestsDone
  <2>2. ProxyTypeOK' /\ excused \subseteq excused' /\ proxies' \subseteq proxyFile' \cup excused'
    BY <2>1, SaveProxiesKeeps DEF IInv, TypeOK, ProxyTypeOK
  <2> QED
    BY <1>0, <2>1, <2>2, ProxyStepKeeps DEF Known
<1>4. CASE DeleteProxySaved
  <2>1. /\ ready /\ ready' = ready /\ deleting' = NoProxy /\ born' = born
        /\ proxies' = proxies /\ SaveProxies(proxies)
    BY <1>4 DEF DeleteProxySaved, IInv, ProxiesKnown
  <2>2. ProxyTypeOK' /\ excused \subseteq excused' /\ proxies' \subseteq proxyFile' \cup excused'
    BY <2>1, SaveProxiesKeeps DEF IInv, TypeOK, ProxyTypeOK
  <2> QED
    BY <1>0, <2>1, <2>2, ProxyStepKeeps DEF Known
<1> QED
  BY <1>1, <1>2, <1>3, <1>4 DEF ProxyStep
-----------------------------------------------------------------------------
(* What a start makes of a file. *)
LEMMA LoadKeeps ==
  ASSUME NEW f \in Files, GoodList(f.acc, f.list), Load(f)
  PROVE  /\ GoodList(acc', list') /\ file' \in Files /\ GoodList(file'.acc, file'.list)
         /\ unsaved' \in BOOLEAN /\ cleared' = FALSE
         /\ References(acc', list') \subseteq References(f.acc, f.list)
         /\ References(file'.acc, file'.list) \subseteq References(f.acc, f.list)
         /\ RestartAgrees'
<1>1. CASE LoadFile(f)
  <2> DEFINE M == Marked(f.acc, f.list)
             x == ActiveAccount(f.acc, f.list)
  <2>1. /\ f.list # {} /\ acc' = Loaded(f) /\ list' = f.list /\ file' = f
        /\ unsaved' = FALSE /\ cleared' = FALSE
    BY <1>1 DEF LoadFile
  <2>2. f.list \in SUBSET Pointers /\ M \in SUBSET Pointers /\ M \subseteq f.list
    BY DEF Files, Marked
  <2>3. x \in f.list /\ (M # {} => x \in M)
    BY <2>1, <2>2, FirstIn DEF ActiveAccount
  <2>4. \A r \in Pointers : acc'[r] = IF r = x THEN [f.acc[r] EXCEPT !.active = TRUE] ELSE f.acc[r]
    BY <2>1 DEF Loaded
  <2>5. Marked(acc', list') = M \cup {x} /\ acc' = [r \in Pointers |-> acc'[r]]
    <3>1. \A r \in Pointers : f.acc[r] \in Account
      BY DEF Files
    <3>2. acc'[x].active = TRUE
      BY <2>2, <2>3, <2>4, <3>1, ActivateType
    <3> HIDE DEF x
    <3>3. Marked(acc', list') = M \cup {x}
      BY <2>1, <2>2, <2>3, <2>4, <3>2 DEF Marked
    <3> QED
      BY <2>1, <3>3 DEF Loaded
  <2> HIDE DEF x
  <2>6. \A r \in Pointers : acc'[r] \in Account /\ SameTo(f.acc[r], acc'[r]) /\ acc'[r].id = f.acc[r].id
    <3> TAKE r \in Pointers
    <3>1. f.acc[r] \in Account
      BY DEF Files
    <3> QED
      <4>1. CASE r = x
        BY <2>4, <3>1, <4>1, ActivateType
      <4>2. CASE r # x
        BY <2>4, <3>1, <4>2 DEF SameTo
      <4> QED
        BY <4>1, <4>2
  <2>7. \A r \in Pointers : /\ acc'[r].email = f.acc[r].email /\ acc'[r].refresh = f.acc[r].refresh
                            /\ acc'[r].access = f.acc[r].access /\ acc'[r].proxy = f.acc[r].proxy
    <3> TAKE r \in Pointers
    <3>1. f.acc[r] \in Account
      BY DEF Files
    <3> QED
      BY <2>4, <3>1 DEF Account
  <2>8. GoodList(acc', list')
    <3>1. \A r, s \in Marked(acc', list') : acc'[r].id = acc'[s].id
      <4>1. \A r, s \in M \cup {x} : f.acc[r].id = f.acc[s].id
        BY <2>3 DEF GoodList
      <4> HIDE DEF M
      <4> QED
        BY <2>2, <2>3, <2>5, <2>6, <4>1
    <3>2. \A r \in Pointers : OwnTokens(acc'[r].email, acc'[r])
      <4> TAKE r \in Pointers
      <4>1. OwnTokens(f.acc[r].email, f.acc[r])
        BY DEF GoodList
      <4> QED
        BY <2>7, <4>1 DEF OwnTokens
    <3>3. \A r, s \in list' : acc'[r].email = acc'[s].email /\ acc'[r].email # Unknown => r = s
      BY <2>1, <2>2, <2>7 DEF GoodList
    <3>4. acc' \in [Pointers -> Account]
      BY <2>5, <2>6
    <3> QED
      BY <2>1, <2>2, <3>1, <3>2, <3>3, <3>4 DEF GoodList
  <2>9. References(acc', list') = References(f.acc, f.list)
    BY <2>1, <2>2, <2>7 DEF References
  <2>10. ActiveAccount(acc', f.list) = x
    <3>1. CASE M # {}
      <4>1. Marked(acc', f.list) = M
        BY <2>1, <2>3, <2>5, <3>1
      <4> QED
        BY <3>1, <4>1 DEF ActiveAccount, x
    <3>2. CASE M = {}
      <4>1. Marked(acc', f.list) = {x} /\ {x} \in SUBSET Pointers
        BY <2>1, <2>2, <2>3, <2>5, <3>2
      <4>2. First({x}) \in {x}
        BY <4>1, FirstIn
      <4> QED
        BY <4>1, <4>2 DEF ActiveAccount
    <3> QED
      BY <3>1, <3>2
  <2>11. RestartAgrees'
    BY <2>1, <2>2, <2>6, <2>10 DEF RestartAgrees, x
  <2> QED
    BY <2>1, <2>8, <2>9, <2>11
<1>2. CASE LoadNothing(f)
  <2>1. /\ f.list = {} /\ acc' = Nothing.acc /\ list' = {} /\ file' = f
        /\ unsaved' = FALSE /\ cleared' = FALSE
    BY <1>2 DEF LoadNothing
  <2> QED
    BY <2>1, NothingGood DEF References, RestartAgrees
<1>3. ASSUME NEW t \in Users, NEW e \in Users \cup {Unknown}, LoadCredential(f, t, e)
      PROVE  /\ GoodList(acc', list') /\ file' \in Files /\ GoodList(file'.acc, file'.list)
             /\ unsaved' \in BOOLEAN /\ cleared' = FALSE
             /\ References(acc', list') = {} /\ References(file'.acc, file'.list) = {}
             /\ RestartAgrees'
  <2> DEFINE q == First(Pointers)
             a == NewAccount(0, e, t, t, TRUE)
  <2>1. /\ e \in {t, Unknown} /\ list' = {q} /\ acc' = [Nothing.acc EXCEPT ![q] = a]
        /\ f.list = {} /\ unsaved' \in BOOLEAN /\ cleared' = FALSE
        /\ file' = IF unsaved' THEN f ELSE [list |-> list', acc |-> acc']
    BY <1>3 DEF LoadCredential
  <2>2. q \in Pointers
    BY AccountAssumption, FirstIn
  <2>3. a \in Account /\ OwnTokens(a.email, a) /\ a.proxy = NoProxy
    <3>1. 0 \in Ids
      BY AccountAssumption DEF Ids
    <3>2. /\ e \in Users \cup {Unknown} /\ t \in {t, NoToken} /\ TRUE \in BOOLEAN
          /\ e = t \/ (e = Unknown /\ t = t)
      BY <2>1
    <3> QED
      BY <3>1, <3>2, NewAccountType, Zenon
  <2> HIDE DEF q, a
  <2>4. /\ acc' \in [Pointers -> Account] /\ acc'[q] = a
        /\ \A r \in Pointers : OwnTokens(acc'[r].email, acc'[r])
    <3>1. /\ Nothing.acc \in [Pointers -> Account]
          /\ \A r \in Pointers : OwnTokens(Nothing.acc[r].email, Nothing.acc[r])
      BY NothingGood DEF GoodList
    <3> QED
      BY <2>1, <2>2, <2>3, <3>1
  <2>5. GoodList(acc', list')
    BY <2>1, <2>2, <2>4 DEF GoodList, Marked
  <2>6. References(acc', list') = {}
    BY <2>1, <2>3, <2>4 DEF References
  <2>7. CASE unsaved'
    BY <2>1, <2>5, <2>6, <2>7 DEF References, RestartAgrees
  <2>8. CASE ~unsaved'
    <3>1. file' \in Files /\ file'.list = list' /\ file'.acc = acc'
      BY <2>1, <2>2, <2>4, <2>8 DEF Files
    <3> QED
      BY <2>1, <2>5, <2>6, <3>1 DEF RestartAgrees, SameTo
  <2> QED
    BY <2>7, <2>8
<1> QED
  BY <1>1, <1>2, <1>3 DEF Load

LEMMA RestartStep == ASSUME IInv, Restart PROVE IInv'
<1> DEFINE stale == IF unsaved THEN References(file.acc, file.list) \ proxyFile ELSE {}
<1>1. PICK f \in {file, Nothing}, torn \in BOOLEAN : Load(f) /\ ProxiesDown(torn, stale)
  BY DEF Restart
<1>2. /\ job' = [w \in Workers |-> Idle] /\ (UNCHANGED faults \/ Fault)
  BY DEF Restart
<1>3. f \in Files /\ GoodList(f.acc, f.list) /\ References(f.acc, f.list) \subseteq References(file.acc, file.list)
  BY NothingGood DEF IInv, TypeOK
<1>4. /\ GoodList(acc', list') /\ file' \in Files /\ GoodList(file'.acc, file'.list)
      /\ unsaved' \in BOOLEAN /\ cleared' = FALSE
      /\ References(acc', list') \subseteq References(file.acc, file.list)
      /\ References(file'.acc, file'.list) \subseteq References(file.acc, file.list)
      /\ RestartAgrees'
  BY <1>1, <1>3, LoadKeeps
<1>s. stale \subseteq Proxies /\ References(file.acc, file.list) \subseteq proxyFile \cup excused \cup stale
  <2>1. \A r \in file.list : file.acc[r].proxy \in Proxies \cup {NoProxy}
    BY DEF IInv, GoodList, Account
  <2>2. References(file.acc, file.list) \subseteq Proxies
    BY <2>1 DEF References
  <2> QED
    BY <2>2 DEF IInv, ProxiesKnown, Known
<1> HIDE DEF stale
<1>5. /\ ready' = FALSE /\ deleting' = NoProxy
      /\ References(file.acc, file.list) \subseteq proxyFile' \cup excused'
  BY <1>1, <1>s DEF ProxiesDown
<1>6. TypeOK'
  <2>1. faults' \in 0..MaxFaults
    BY <1>2, ProxyAssumption DEF Fault, IInv, TypeOK, ProxyTypeOK
  <2>2. ProxyTypeOK'
    BY <1>1, <1>s, <2>1, ProxyAssumption DEF ProxiesDown, IInv, TypeOK, ProxyTypeOK
  <2> QED
    BY <1>2, <1>4, <2>2, IdleIsJob DEF IInv, TypeOK, GoodList
<1>7. JobsOwn' /\ ReadKnown'
  BY <1>2, IdleIsJob DEF JobsOwn, ReadKnown, Reachable
<1>8. ProxiesKnown'
  BY <1>4, <1>5 DEF IInv, ProxiesKnown, Known
<1> QED
  BY <1>4, <1>6, <1>7, <1>8 DEF IInv
-----------------------------------------------------------------------------
LEMMA InitKeeps == Init => IInv
<1> SUFFICES ASSUME Init PROVE IInv
  OBVIOUS
<1>1. /\ acc = Nothing.acc /\ list = {} /\ file = Nothing /\ job = [w \in Workers |-> Idle]
      /\ unsaved = FALSE /\ cleared = FALSE /\ ProxyInit
  BY DEF Init
<1>2. TypeOK
  <2>1. ProxyTypeOK
    <3>1. faults = 0 /\ 0 \in 0..MaxFaults
      BY <1>1, ProxyAssumption DEF ProxyInit
    <3>2. ready = FALSE
      BY <1>1 DEF ProxyInit
    <3> QED
      BY <1>1, <3>1, <3>2 DEF ProxyInit, ProxyTypeOK
  <2>2. job \in [Workers -> Jobs]
    BY <1>1, IdleIsJob
  <2>4. acc \in [Pointers -> Account] /\ file \in Files
    BY <1>1, NothingGood DEF GoodList
  <2> QED
    BY <1>1, <2>1, <2>2, <2>4 DEF TypeOK
<1>3. GoodList(acc, list) /\ GoodList(file.acc, file.list)
  BY <1>1, NothingGood
<1>4. JobsOwn /\ ReadKnown
  BY <1>1, IdleIsJob DEF JobsOwn, ReadKnown, Reachable
<1>5. ProxiesKnown
  BY <1>1, NothingGood DEF ProxyInit, ProxiesKnown, References
<1>6. RestartAgrees
  BY <1>1, NothingGood DEF RestartAgrees
<1> QED
  BY <1>2, <1>3, <1>4, <1>5, <1>6 DEF IInv

LEMMA UserStep == ASSUME IInv, User PROVE IInv'
<1>1. ASSUME NEW t \in Users, NEW e \in Users \cup {Unknown}, ImportCurrentWindowsAccount(t, e)
      PROVE  IInv'
  BY <1>1, ImportStep
<1>2. ASSUME NEW u \in Users, NEW rt \in Users \cup {NoToken}, ExchangeOAuthCode(u, rt) PROVE IInv'
  <2>1. /\ rt \in {u, NoToken} /\ Save(acc', list') /\ UNCHANGED <<job, proxyVars>>
        /\ \/ ByEmail(u) # {} /\ NewTokens(u, rt, u)
           \/ ByEmail(u) = {} /\ \E i \in Seconds : AddAccount(NewAccount(i, u, rt, u, list = {}))
    BY <1>2 DEF ExchangeOAuthCode, NewTokens
  <2> QED
    BY <2>1, LoginStep
<1>3. CASE TokenAccepted
  BY <1>3, SaveAsItIs DEF TokenAccepted
<1>4. ASSUME NEW u \in Users, AddRefreshToken(u) PROVE IInv'
  <2>1. /\ Save(acc', list') /\ UNCHANGED <<job, proxyVars>>
        /\ \/ ByEmail(u) # {} /\ NewTokens(u, u, u)
           \/ ByEmail(u) = {} /\ \E i \in Seconds : AddAccount(NewAccount(i, u, u, u, list = {}))
    BY <1>4 DEF AddRefreshToken
  <2> QED
    BY <2>1, LoginStep
<1>5. ASSUME NEW i \in Ids, SetActiveAccount(i) \/ DeleteAccount(i) PROVE IInv'
  BY <1>5, SetActiveStep, DeleteAccountStep
<1>6. ASSUME NEW i \in Ids, NEW p \in Proxies \cup {NoProxy}, SetAccountProxy(i, p) PROVE IInv'
  BY <1>6, SetAccountProxyStep
<1>7. ASSUME NEW p \in Proxies, DeleteProxy(p) PROVE IInv'
  BY <1>7, DeleteProxyStep
<1> QED
  BY <1>1, <1>2, <1>3, <1>4, <1>5, <1>6, <1>7 DEF User

LEMMA StepKeeps == IInv /\ [Next]_vars => IInv'
<1> SUFFICES ASSUME IInv, [Next]_vars PROVE IInv'
  OBVIOUS
<1>1. CASE User
  BY <1>1, UserStep
<1>2. CASE RecordTokenUsage
  BY <1>2, SaveAsItIs DEF RecordTokenUsage
<1>3. ASSUME NEW w \in Workers, Worker(w) PROVE IInv'
  BY <1>3, WorkerStep
<1>4. CASE ProxyStep
  BY <1>4, ProxyStepStep
<1>5. CASE Restart
  BY <1>5, RestartStep
<1>6. CASE UNCHANGED vars
  BY <1>6 DEF IInv, TypeOK, ProxyTypeOK, vars, accountVars, proxyVars, GoodList, Marked, JobsOwn,
              ProxiesKnown, Known, ReadKnown, Reachable, References, RestartAgrees
<1> QED
  BY <1>1, <1>2, <1>3, <1>4, <1>5, <1>6 DEF Next

(* The invariant: both lists are good, refreshes carry tokens of their     *)
(* accounts' users, proxies that are named are known, and the file holds   *)
(* what memory holds.                                                      *)
THEOREM Invariance == Spec => []IInv
BY InitKeeps, StepKeeps, PTL DEF Spec

LEMMA GoodMeans ==
  IInv => /\ ListInv /\ TokensMatch /\ RestartAgrees /\ DiskConsistent
<1> SUFFICES ASSUME IInv PROVE ListInv /\ TokensMatch /\ RestartAgrees /\ DiskConsistent
  OBVIOUS
<1>1. ListInv
  BY DEF IInv, GoodList, ListInv, OneActive, OneAccountPerEmail
<1>2. TokensMatch
  BY DEF IInv, GoodList, TokensMatch
<1>3. DiskConsistent
  BY DEF IInv, ProxiesKnown, Known, DiskConsistent
<1> QED
  BY <1>1, <1>2, <1>3 DEF IInv

(* At most one account is marked, and a user has one account, for any      *)
(* number of users and accounts: SetActiveAccount, DeleteAccount, the      *)
(* three ways to log in, and what a start makes of the file.               *)
THEOREM OneAccountOneMark == Spec => []ListInv
BY Invariance, GoodMeans, PTL

(* A refresh that answers late never puts a token into another user's      *)
(* account (RefreshAccountToken writes through the pointer it kept).       *)
THEOREM TokensStayTheirs == Spec => []TokensMatch
BY Invariance, GoodMeans, PTL

(* A restart loads what the gateway works with, unless a save failed.      *)
THEOREM RestartLoadsTheSame == Spec => []RestartAgrees
BY Invariance, GoodMeans, PTL

(* Accounts on disk name proxies on disk, in whichever step of DeleteProxy *)
(* the process dies, unless the last save of the accounts has failed.      *)
THEOREM NoDanglingProxy == Spec => []DiskConsistent
BY Invariance, GoodMeans, PTL

(* What is looked up is what was read, unless it was deleted in between.   *)
LEMMA SentRight ==
  ASSUME IInv, NEW w \in Workers, Naming(job[w]), job[w].ref \in list
  PROVE  Client(job[w].via) = job[w].via \/ job[w].via \in excused \/ job[w].overtaken
BY DEF Client, IInv, ReadKnown, Reachable

(* A refresh, a quota request or a generation goes through the proxy that  *)
(* its account named when its client was chosen, unless that was deleted   *)
(* between the read of the account and the look into the map.              *)
THEOREM SentRightly == Spec => SentThroughProxy
<1> DEFINE Right(w) ==
      /\ job'[w] # job[w] /\ job'[w].op \in {"refresh", "request"}
      /\ job[w].ref \in list
      => \/ job'[w].via = job[w].via
         \/ job[w].via \in excused
         \/ job[w].overtaken
<1>1. ASSUME IInv, Next, NEW w \in Workers PROVE Right(w)
  <2>0. job \in [Workers -> Jobs] /\ list \subseteq Pointers
    BY <1>1 DEF IInv, TypeOK
  <2>1. CASE UNCHANGED job
    BY <2>1
  <2>2. CASE job' = [v \in Workers |-> Idle]
    BY <2>2, IdleIsJob
  <2>3. ASSUME NEW v \in Workers, NEW j, job' = [job EXCEPT ![v] = j],
               j.op \notin {"refresh", "request"}
        PROVE  Right(w)
    BY <2>0, <2>3
  <2>4. ASSUME NEW v \in Workers, NEW op \in {"refresh", "request"}, Naming(job[v]), JobStep(v, Sent(v, op))
        PROVE  Right(w)
    <3>1. job'[w] = IF w = v THEN Sent(v, op) ELSE job[w]
      BY <2>0, <2>4 DEF JobStep
    <3>2. Sent(v, op).via = Client(job[v].via)
      BY <1>1, <2>4, SentIsJob DEF Naming
    <3> QED
      BY <1>1, <2>4, <3>1, <3>2, SentRight
  <2>5. CASE User
    <3>1. ASSUME NEW p \in Proxies, DeleteProxy(p) PROVE Right(w)
      <4>1. job'[w] = [job[w] EXCEPT !.overtaken = @ \/ (Naming(job[w]) /\ job[w].via = p)]
        BY <3>1 DEF DeleteProxy, Overtaken
      <4>2. job[w] \in Jobs
        BY <2>0
      <4>3. job'[w].op = job[w].op
        BY <4>1, <4>2 DEF Jobs
      <4>4. ~Naming(job[w]) => job'[w] = job[w]
        BY <4>1, <4>2 DEF Jobs
      <4> QED
        BY <4>3, <4>4 DEF Naming
    <3> QED
      BY <2>1, <2>5, <3>1 DEF User, ImportCurrentWindowsAccount, ExchangeOAuthCode, TokenAccepted,
                              AddRefreshToken, SetActiveAccount, DeleteAccount, SetAccountProxy
  <2>6. CASE RecordTokenUsage \/ ProxyStep
    BY <2>1, <2>6 DEF RecordTokenUsage, ProxyStep, accountVars
  <2>7. CASE Restart
    BY <2>2, <2>7 DEF Restart
  <2>8. ASSUME NEW v \in Workers, Worker(v) PROVE Right(w)
    <3>1. ASSUME NEW j, JobStep(v, j), j.op \notin {"refresh", "request"} PROVE Right(w)
      BY <2>3, <3>1 DEF JobStep
    <3>2. ASSUME NEW i \in Ids, RefreshAccountQuota(v, i) PROVE Right(w)
      <4>1. ById(i) \in SUBSET Pointers /\ ById(i) # {}
        BY <2>0, <3>2 DEF ById, RefreshAccountQuota
      <4>2. First(ById(i)) \in Pointers
        BY <4>1, FirstIn
      <4> QED
        BY <3>1, <3>2, <4>2, FoundIsJob DEF RefreshAccountQuota
    <3>3. ASSUME NEW r \in Pointers, TokenExpired(v, r) \/ TokenValid(v, r) PROVE Right(w)
      BY <3>1, <3>3, FoundIsJob DEF TokenExpired, TokenValid
    <3>4. CASE RefreshAccountToken(v)
      <4> DEFINE a == acc[job[v].ref]
                 n == Named(v, "refreshVia")
                 j == [n EXCEPT !.sent = a.refresh]
      <4>1. JobStep(v, j) /\ job[v].op = "found"
        BY <3>4 DEF RefreshAccountToken
      <4>2. n \in Jobs /\ n.op = "refreshVia"
        BY <1>1, <4>1, NamedIsJob
      <4> HIDE DEF n
      <4>3. j.op = "refreshVia"
        BY <4>2 DEF Jobs
      <4> HIDE DEF j
      <4> QED
        BY <3>1, <4>1, <4>3
    <3>5. CASE NoRefreshToken(v) \/ RefreshFailed(v) \/ Refreshed(v)
      <4>1. job[v].op # "idle" /\ (JobStep(v, GoesOn(v)) \/ JobStep(v, Idle))
        BY <3>5 DEF NoRefreshToken, RefreshFailed, Refreshed
      <4> QED
        BY <1>1, <3>1, <4>1, GoesOnIsJob, IdleIsJob
    <3>6. CASE SendRefresh(v) \/ SendRequest(v)
      BY <2>4, <3>6 DEF SendRefresh, SendRequest, Naming
    <3>7. CASE MakeRequest(v)
      BY <1>1, <3>1, <3>7, NamedIsJob DEF MakeRequest
    <3>8. CASE QuotaDone(v) \/ RequestOver(v)
      BY <3>1, <3>8, IdleIsJob DEF QuotaDone, RequestOver
    <3> QED
      BY <2>8, <3>2, <3>3, <3>4, <3>5, <3>6, <3>7, <3>8 DEF Worker
  <2> QED
    BY <1>1, <2>5, <2>6, <2>7, <2>8 DEF Next
<1>2. ASSUME IInv, [Next]_vars PROVE [\A w \in Workers : Right(w)]_vars
  BY <1>1, <1>2
<1> QED
  BY <1>2, Invariance, PTL DEF Spec, SentThroughProxy
=============================================================================
