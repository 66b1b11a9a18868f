---------------------------- MODULE RoutingProofs ----------------------------
(***************************************************************************)
(* Proofs about ProgramRouter and Routing, for every set of programs,      *)
(* patterns, accounts and requests and every number of rules.              *)
(*                                                                         *)
(* Rules: an id stands for one pid for ever and no two rules share an id,  *)
(* so a stale rule that a page posts meets at most one rule of its pid.    *)
(* Requests: as long as neither the accounts that the rules ask for nor    *)
(* the one they get change for a pid, the copied rules lead to the same    *)
(* account as the rules of now; the account lends the token and is found   *)
(* again by its email, which no other account has.                         *)
(***************************************************************************)
EXTENDS Routing, FoldLemmas, TLAPS
-----------------------------------------------------------------------------
(* The loop of DeleteRule, one rule after the other. *)
LEMMA WithoutSteps ==
  ASSUME RouterTypeOK, NEW i
  PROVE  \E f : /\ f[0] = <<>>
                /\ \A k \in 1..Len(rules) :
                     f[k] = IF rules[k].id # i THEN Append(f[k - 1], rules[k]) ELSE f[k - 1]
                /\ Without(i) = f[Len(rules)]
<1> DEFINE n == Len(rules)
           step == [x \in Seq(Rule) \X (1..n) |->
                      IF rules[x[2]].id # i THEN Append(x[1], rules[x[2]]) ELSE x[1]]
           body(it, s) == IF s = {} THEN <<>>
                          ELSE IF rules[Max(s)].id # i THEN Append(it[s \ {Max(s)}], rules[Max(s)])
                          ELSE it[s \ {Max(s)}]
           w == CHOOSE it : it = [s \in SUBSET (DOMAIN rules) |-> body(it, s)]
<1>1. n \in Nat /\ DOMAIN rules = 1..n /\ \A k \in 1..n : rules[k] \in Rule
  BY DEF RouterTypeOK
<1>2. step \in [Seq(Rule) \X (1..n) -> Seq(Rule)]
  BY <1>1
<1>3. <<>> \in Seq(Rule)
  OBVIOUS
<1>4. PICK it : IsFold(it, Seq(Rule), <<>>, n, step)
  <2>1. n \in Nat
    BY <1>1
  <2> HIDE DEF step, n
  <2> QED
    BY <2>1, <1>2, <1>3, FoldExists
<1>5. \A s \in SUBSET (1..n) : it[s] = body(it, s)
  <2> SUFFICES ASSUME NEW s \in SUBSET (1..n), s # {} PROVE it[s] = body(it, s)
    BY <1>4 DEF IsFold
  <2>1. Max(s) \in 1..n /\ it[s \ {Max(s)}] \in Seq(Rule)
    BY <1>4 DEF IsFold
  <2>2. it[s] = step[<<it[s \ {Max(s)}], Max(s)>>]
    BY <1>4 DEF IsFold
  <2> QED
    BY <2>1, <2>2
<1>6. it = [s \in SUBSET (DOMAIN rules) |-> body(it, s)]
  <2> HIDE DEF body, n
  <2> QED
    BY <1>1, <1>4, <1>5 DEF IsFold
<1>7. w = [s \in SUBSET (DOMAIN rules) |-> body(w, s)]
  <2> HIDE DEF body
  <2> QED
    BY <1>6
<1>8. Without(i) = w[DOMAIN rules]
  BY DEF Without, FoldLeft, MapThenFoldSet
<1> HIDE DEF w
<1> DEFINE f == [k \in 0..n |-> w[1..k]]
<1>9. f[0] = <<>>
  BY <1>1, <1>7
<1>10. ASSUME NEW k \in 1..n
       PROVE  f[k] = IF rules[k].id # i THEN Append(f[k - 1], rules[k]) ELSE f[k - 1]
  <2>0. k \in Nat /\ k > 0
    BY <1>1
  <2>1. Max(1..k) = k /\ (1..k) \ {k} = 1..(k - 1)
    BY <2>0, MaxOfRange
  <2>2. w[1..k] = body(w, 1..k)
    <3>1. 1..k \in SUBSET (DOMAIN rules)
      BY <1>1
    <3> HIDE DEF body
    <3> QED
      BY <3>1, <1>7
  <2>3. f[k] = w[1..k] /\ f[k - 1] = w[1..(k - 1)]
    BY <1>1
  <2>4. 1..k # {}
    <3>1. k \in 1..k
      BY <2>0
    <3> QED
      BY <3>1
  <2> QED
    BY <2>1, <2>2, <2>3, <2>4
<1>11. Without(i) = f[n]
  BY <1>1, <1>8
<1> QED
  BY <1>9, <1>10, <1>11

-----------------------------------------------------------------------------
RulesOK == RouterTypeOK /\ IdsKeepTheirPid /\ OneRulePerPid

LEMMA RouterInitOK == RouterInit => RulesOK
<1> SUFFICES ASSUME RouterInit PROVE RulesOK
  OBVIOUS
<1>1. rules \in Seq(Rule) /\ made \in Seq(Pids \cup {0}) /\ DOMAIN rules = {}
  BY DEF RouterInit
<1>2. Len(made) <= MaxRules
  BY RouterAssumption DEF RouterInit
<1> QED
  BY <1>1, <1>2 DEF RulesOK, RouterTypeOK, IdsKeepTheirPid, OneRulePerPid

(* The least of some positions is one of them. *)
LEMMA LeastIn ==
  ASSUME NEW S \in SUBSET Nat, S # {}
  PROVE  Least(S) \in S
<1>1. IsWellFoundedOn(OpToRel(<, Nat), Nat)
  BY NatLessThanWellFounded
<1>2. PICK r \in S : \A s \in S : ~(<<s, r>> \in OpToRel(<, Nat))
  BY <1>1, WFMin
<1>3. ASSUME NEW s \in S, s < r PROVE FALSE
  <2>1. <<s, r>> \in Nat \X Nat /\ <<s, r>>[1] < <<s, r>>[2]
    BY <1>3
  <2>2. <<s, r>> \in OpToRel(<, Nat)
    BY <2>1, Zenon DEF OpToRel
  <2> QED
    BY <1>2, <2>2
<1>4. \A s \in S : r <= s
  BY <1>3
<1> QED
  BY <1>4 DEF Least

(* A posted rule whose id belongs to its pid keeps the rules in order. *)
LEMMA UpdateKeepsRules ==
  ASSUME RulesOK, UNCHANGED made,
         NEW r \in Rule, r.id \in DOMAIN made, r.pid = made[r.id],
         AddOrUpdateRule(r)
  PROVE  RulesOK'
<1> DEFINE match == {i \in DOMAIN rules : Matches(r, rules[i])}
<1>1. CASE match = {}
  <2>1. rules' = Append(rules, r) /\ \A i \in DOMAIN rules : ~Matches(r, rules[i])
    BY <1>1 DEF AddOrUpdateRule
  <2>0. rules \in Seq(Rule)
    BY DEF RulesOK, RouterTypeOK
  <2>2. /\ Len(rules') = Len(rules) + 1
        /\ \A i \in DOMAIN rules' : \/ i \in DOMAIN rules /\ rules'[i] = rules[i]
                                    \/ i = Len(rules) + 1 /\ rules'[i] = r
    BY <2>0, <2>1
  <2>3. RouterTypeOK'
    BY <2>1 DEF RulesOK, RouterTypeOK
  <2> QED
    BY <2>1, <2>2, <2>3 DEF RulesOK, IdsKeepTheirPid, OneRulePerPid, Matches
<1>2. CASE match # {}
  <2>1. match \in SUBSET Nat
    BY DEF RulesOK, RouterTypeOK
  <2>2. PICK m \in DOMAIN rules : Matches(r, rules[m])
                                  /\ rules' = [rules EXCEPT ![m] = [r EXCEPT !.id = rules[m].id]]
    BY <1>2, <2>1, LeastIn DEF AddOrUpdateRule
  <2>3. rules[m] \in Rule
    BY DEF RulesOK, RouterTypeOK
  <2>4. r.pid = made[rules[m].id] /\ r.pid = rules[m].pid
    BY <2>2 DEF Matches, RulesOK, IdsKeepTheirPid
  <2>5. [r EXCEPT !.id = rules[m].id] \in Rule
    BY <2>3 DEF Rule
  <2>6. RouterTypeOK'
    BY <2>2, <2>5 DEF RulesOK, RouterTypeOK
  <2>7. /\ DOMAIN rules' = DOMAIN rules
        /\ \A i \in DOMAIN rules : rules'[i].id = rules[i].id /\ rules'[i].pid = rules[i].pid
    BY <2>2, <2>4 DEF RulesOK, RouterTypeOK, Rule
  <2> QED
    BY <2>6, <2>7 DEF RulesOK, IdsKeepTheirPid, OneRulePerPid
<1> QED
  BY <1>1, <1>2

(* What a rule added at the end is, and what the others stay. *)
Lengthened(z, s, x) ==
  /\ z \in Seq(Rule)
  /\ \A a \in DOMAIN z : \/ a \in DOMAIN s /\ z[a] = s[a]
                         \/ a = Len(s) + 1 /\ z[a] = x

LEMMA RuleAtTheEnd ==
  ASSUME NEW s \in Seq(Rule), NEW x \in Rule
  PROVE  Lengthened(Append(s, x), s, x)
<1> DEFINE z == Append(s, x)
<1>1. /\ z \in Seq(Rule) /\ Len(z) = Len(s) + 1
      /\ \A a \in 1..Len(s) : z[a] = s[a]
      /\ z[Len(s) + 1] = x
  BY AppendProperties
<1>2. DOMAIN s = 1..Len(s) /\ Len(s) \in Nat
  BY LenProperties
<1> HIDE DEF z
<1>3. DOMAIN z = 1..Len(z)
  BY <1>1, LenProperties
<1>4. \A a \in DOMAIN z : (a \in DOMAIN s /\ z[a] = s[a]) \/ (a = Len(s) + 1 /\ z[a] = x)
  BY <1>1, <1>2, <1>3
<1>5. z \in Seq(Rule)
  BY <1>1
<1>6. Lengthened(z, s, x)
  BY <1>4, <1>5 DEF Lengthened
<1> QED
  BY <1>6 DEF z

(* Deleting the rules with an id keeps the others in order. *)
LEMMA WithoutKeepsRules ==
  ASSUME RulesOK, UNCHANGED made, NEW i, rules' = Without(i)
  PROVE  RulesOK'
<1>1. RouterTypeOK /\ rules \in Seq(Rule)
  BY DEF RulesOK, RouterTypeOK
<1>2. PICK f : /\ f[0] = <<>>
               /\ \A k \in 1..Len(rules) :
                    f[k] = IF rules[k].id # i THEN Append(f[k - 1], rules[k]) ELSE f[k - 1]
               /\ Without(i) = f[Len(rules)]
  BY <1>1, WithoutSteps
<1> DEFINE Part(k, s) == /\ s \in Seq(Rule)
                         /\ \A a \in DOMAIN s : \E j \in 1..k : s[a] = rules[j]
                         /\ \A a, b \in DOMAIN s : s[a].id = s[b].id => a = b
                         /\ \A a, b \in DOMAIN s : s[a].pid > 0 /\ s[a].pid = s[b].pid => a = b
           Holds(k) == k <= Len(rules) => Part(k, f[k])
           S == {k \in Nat : Holds(k)}
<1>3. Holds(0)
  <2>1. <<>> \in Seq(Rule) /\ DOMAIN <<>> = {}
    OBVIOUS
  <2> QED
    BY <1>2, <2>1
<1>4. ASSUME NEW k \in Nat, Holds(k) PROVE Holds(k + 1)
  <2> SUFFICES ASSUME k + 1 <= Len(rules) PROVE Part(k + 1, f[k + 1])
    OBVIOUS
  <2>1. k <= Len(rules) /\ k + 1 \in 1..Len(rules) /\ (k + 1) - 1 = k /\ k + 1 \in DOMAIN rules
    BY <1>1
  <2>2. Part(k, f[k])
    BY <1>4, <2>1
  <2>3. f[k + 1] = IF rules[k + 1].id # i THEN Append(f[k], rules[k + 1]) ELSE f[k]
    <3> HIDE DEF Part
    <3> QED
      BY <1>2, <2>1
  <2>4. CASE f[k + 1] = f[k]
    BY <2>2, <2>4
  <2>5. CASE f[k + 1] = Append(f[k], rules[k + 1])
    <3> DEFINE s == f[k]
               x == rules[k + 1]
               z == Append(s, x)
    <3>1. x \in Rule /\ s \in Seq(Rule)
      BY <1>1, <2>1, <2>2
    <3>2. \A a \in DOMAIN s : s[a].id # x.id /\ (x.pid > 0 => s[a].pid # x.pid)
      <4> SUFFICES ASSUME NEW a \in DOMAIN s
                   PROVE  s[a].id # x.id /\ (x.pid > 0 => s[a].pid # x.pid)
        OBVIOUS
      <4>1. PICK j \in 1..k : s[a] = rules[j]
        BY <2>2
      <4>2. j \in DOMAIN rules /\ j # k + 1
        BY <1>1, <2>1
      <4> QED
        BY <4>1, <4>2, <2>1 DEF RulesOK, IdsKeepTheirPid, OneRulePerPid
    <3>3. Lengthened(z, s, x)
      <4>1. s \in Seq(Rule) /\ x \in Rule
        BY <3>1
      <4> HIDE DEF s, x
      <4> QED
        BY <4>1, RuleAtTheEnd
    <3>4. \A a \in DOMAIN s : \E j \in 1..(k + 1) : s[a] = rules[j]
      BY <2>2
    <3>5. \E j \in 1..(k + 1) : x = rules[j]
      BY <2>1
    <3>6. /\ \A a, b \in DOMAIN s : s[a].id = s[b].id => a = b
          /\ \A a, b \in DOMAIN s : s[a].pid > 0 /\ s[a].pid = s[b].pid => a = b
      BY <2>2
    <3>7. Part(k + 1, z)
      <4> HIDE DEF s, x, z
      <4>1. \A a \in DOMAIN z : \E j \in 1..(k + 1) : z[a] = rules[j]
        BY <3>4, <3>5, <3>3 DEF Lengthened
      <4>2. \A a, b \in DOMAIN z : z[a].id = z[b].id => a = b
        BY <3>2, <3>6, <3>3 DEF Lengthened
      <4>3. \A a, b \in DOMAIN z : z[a].pid > 0 /\ z[a].pid = z[b].pid => a = b
        BY <3>2, <3>6, <3>3 DEF Lengthened
      <4> QED
        BY <3>3, <4>1, <4>2, <4>3 DEF Lengthened
    <3> QED
      BY <2>5, <3>7
  <2> QED
    BY <2>3, <2>4, <2>5
<1>5. Holds(Len(rules))
  <2> HIDE DEF Holds
  <2>1. 0 \in S /\ \A k \in Nat : k \in S => k + 1 \in S
    BY <1>3, <1>4
  <2> HIDE DEF S
  <2>2. Len(rules) \in S
    BY <1>1, <2>1, InductiveSet
  <2> QED
    BY <2>2 DEF S
<1>6. Part(Len(rules), rules')
  BY <1>1, <1>2, <1>5
<1> QED
  BY <1>6, <1>1 DEF RulesOK, RouterTypeOK, IdsKeepTheirPid, OneRulePerPid

(* A rule that the page makes takes a new id, or the one its pid has. *)
LEMMA NewRuleKeepsRules ==
  ASSUME RulesOK, NEW p \in Pids \cup {0}, NEW pat \in Patterns \cup {{}}, NEW a \in AccountIds,
         NewRule(p, pat, a)
  PROVE  RulesOK'
<1> DEFINE r == [id |-> Len(made) + 1, pid |-> p, pattern |-> pat, account |-> a, enabled |-> TRUE]
<1>1. /\ rules \in Seq(Rule) /\ made \in Seq(Pids \cup {0}) /\ Len(made) < MaxRules
      /\ r.id = Len(made) + 1 /\ r.pid = p /\ AddOrUpdateRule(r)
  BY DEF RulesOK, RouterTypeOK, NewRule
<1>2. r \in Rule
  BY <1>1, RouterAssumption DEF Rule, RuleIds
<1>3. \A i \in DOMAIN rules : rules[i].id \in DOMAIN made /\ rules[i].pid = made[rules[i].id]
  BY DEF RulesOK, IdsKeepTheirPid
<1>4. \A i \in DOMAIN rules : rules[i] \in Rule /\ rules[i].id # r.id
  BY <1>1, <1>3
<1> DEFINE has == p > 0 /\ \E i \in DOMAIN rules : rules[i].pid = p
           match == {i \in DOMAIN rules : Matches(r, rules[i])}
<1>5. CASE has
  <2>1. made' = made
    BY <1>5 DEF NewRule
  <2>2. match # {} /\ match \in SUBSET Nat
    BY <1>1, <1>5 DEF Matches
  <2>3. PICK m \in DOMAIN rules : Matches(r, rules[m])
                                  /\ rules' = [rules EXCEPT ![m] = [r EXCEPT !.id = rules[m].id]]
    <3> HIDE DEF r
    <3> QED
      BY <1>1, <2>2, LeastIn DEF AddOrUpdateRule
  <2>4. rules[m].pid = p
    BY <1>1, <1>4, <2>3 DEF Matches
  <2>5. [r EXCEPT !.id = rules[m].id] \in Rule
    BY <1>2, <1>4 DEF Rule
  <2>6. RouterTypeOK'
    BY <1>1, <2>1, <2>3, <2>5 DEF RulesOK, RouterTypeOK
  <2>7. /\ DOMAIN rules' = DOMAIN rules
        /\ \A i \in DOMAIN rules : rules'[i].id = rules[i].id /\ rules'[i].pid = rules[i].pid
    BY <1>1, <2>3, <2>4 DEF Rule
  <2> QED
    BY <2>1, <2>6, <2>7 DEF RulesOK, IdsKeepTheirPid, OneRulePerPid
<1>6. CASE ~has
  <2>1. made' = Append(made, p)
    BY <1>6 DEF NewRule
  <2>2. /\ made' \in Seq(Pids \cup {0}) /\ Len(made') = Len(made) + 1
        /\ made'[Len(made) + 1] = p
        /\ \A i \in DOMAIN made : i \in DOMAIN made' /\ made'[i] = made[i]
        /\ Len(made) + 1 \in DOMAIN made'
    BY <1>1, <2>1
  <2>3. match = {}
    BY <1>1, <1>4, <1>6 DEF Matches
  <2>4. rules' = Append(rules, r)
    <3> HIDE DEF r
    <3> QED
      BY <1>1, <2>3 DEF AddOrUpdateRule
  <2>5. /\ rules' \in Seq(Rule)
        /\ \A i \in DOMAIN rules' : \/ i \in DOMAIN rules /\ rules'[i] = rules[i]
                                    \/ i = Len(rules) + 1 /\ rules'[i] = r
    <3> HIDE DEF r
    <3> QED
      BY <1>1, <1>2, <2>4
  <2>6. RouterTypeOK'
    BY <1>1, <2>2, <2>5, RouterAssumption DEF RouterTypeOK
  <2>7. IdsKeepTheirPid'
    <3>1. ASSUME NEW i \in DOMAIN rules', i = Len(rules) + 1 /\ rules'[i] = r
          PROVE  rules'[i].id \in DOMAIN made' /\ made'[rules'[i].id] = rules'[i].pid
      BY <1>1, <1>3, <1>4, <2>2, <3>1
    <3>2. ASSUME NEW i \in DOMAIN rules', i \in DOMAIN rules /\ rules'[i] = rules[i]
          PROVE  rules'[i].id \in DOMAIN made' /\ made'[rules'[i].id] = rules'[i].pid
      BY <2>2, <3>2 DEF RulesOK, IdsKeepTheirPid
    <3>3. \A i, j \in DOMAIN rules' : rules'[i].id = rules'[j].id => i = j
      <4>1. \A i \in DOMAIN rules : rules[i].id # r.id
        BY <1>1, <1>3, <1>4, <2>2 DEF RulesOK, IdsKeepTheirPid
      <4> QED
        BY <2>5, <4>1 DEF RulesOK, IdsKeepTheirPid
    <3> QED
      BY <2>5, <3>1, <3>2, <3>3 DEF IdsKeepTheirPid
  <2>8. OneRulePerPid'
    BY <1>1, <1>6, <2>5 DEF RulesOK, OneRulePerPid
  <2> QED
    BY <2>6, <2>7, <2>8 DEF RulesOK
<1> QED
  BY <1>5, <1>6

(* Every change of the rules keeps them in order. *)
LEMMA EditKeepsRules ==
  ASSUME RulesOK, Edit
  PROVE  RulesOK'
<1>1. ASSUME NEW i \in RuleIds, NEW pat \in Patterns \cup {{}}, NEW a \in AccountIds,
             NEW on \in BOOLEAN, ToggleProgramRule(i, pat, a, on)
      PROVE  RulesOK'
  <2> DEFINE r == [id |-> i, pid |-> made[i], pattern |-> pat, account |-> a, enabled |-> on]
  <2>1. r \in Rule /\ r.id \in DOMAIN made /\ r.pid = made[r.id] /\ AddOrUpdateRule(r)
        /\ UNCHANGED made
    BY <1>1 DEF ToggleProgramRule, RulesOK, RouterTypeOK, Rule
  <2> HIDE DEF r
  <2> QED
    BY <2>1, UpdateKeepsRules
<1>2. ASSUME NEW i \in RuleIds, DeleteRule(i) PROVE RulesOK'
  BY <1>2, WithoutKeepsRules DEF DeleteRule
<1> QED
  BY <1>1, <1>2, NewRuleKeepsRules DEF Edit
-----------------------------------------------------------------------------
(* What the rules ask for and what they get only depends on the rules and  *)
(* the accounts.                                                           *)
LEMMA SameAnswers ==
  ASSUME UNCHANGED <<rules, accounts>>
  PROVE  Asked' = Asked /\ Assigned' = Assigned
<1>1. Asked' = Asked
  BY DEF Asked
<1>2. Assigned' = Assigned
  BY DEF Assigned, Found, Lookup, ByEmail, First
<1> QED
  BY <1>1, <1>2

(* An untouched request knows what it knew; so does one that KeepSteady    *)
(* has looked at.                                                          *)
LEMMA IdleKnows == RequestKnows(Idle)
BY DEF RequestKnows, Idle, Stations, NoAccount

LEMMA KeepSteadyKnows ==
  ASSUME IInv, KeepSteady
  PROVE  DOMAIN request' = Requests /\ \A q \in Requests : RequestKnows(request[q])'
<1>1. DOMAIN request' = Requests
  BY DEF KeepSteady
<1>2. ASSUME NEW q \in Requests PROVE RequestKnows(request[q])'
  <2>1. RequestKnows(request[q])
    BY DEF IInv
  <2>2. CASE /\ request[q].at = "copied" => /\ Asked'[request[q].pid] = Asked[request[q].pid]
                                            /\ Assigned'[request[q].pid] = request[q].steady
             /\ request'[q] = request[q]
    BY <2>1, <2>2 DEF RequestKnows
  <2>3. CASE request'[q] = [request[q] EXCEPT !.steady = NoAccount]
    BY <2>1, <2>3 DEF RequestKnows
  <2> QED
    BY <2>2, <2>3 DEF KeepSteady
<1> QED
  BY <1>1, <1>2

(* A step of one request. *)
LEMMA StepKnows ==
  ASSUME IInv, NEW q \in Requests, NEW x, RequestStep(q, x), RequestKnows(x)
  PROVE  IInv'
<1>1. UNCHANGED <<rules, made, accounts>> /\ request' = [request EXCEPT ![q] = x]
  BY DEF RequestStep, routerVars
<1>2. Asked' = Asked /\ Assigned' = Assigned
  BY <1>1, SameAnswers
<1>3. \A r \in Requests : RequestKnows(request'[r])
  BY <1>1 DEF IInv
<1>4. \A r \in Requests : RequestKnows(request[r])'
  BY <1>2, <1>3 DEF RequestKnows
<1>5. RouterTypeOK' /\ IdsKeepTheirPid' /\ OneRulePerPid'
  BY <1>1 DEF IInv, RouterTypeOK, IdsKeepTheirPid, OneRulePerPid
<1> QED
  BY <1>1, <1>4, <1>5 DEF IInv, OneAccountPerEmail

LEMMA ServeStep ==
  ASSUME IInv, NEW q \in Requests, Serve(q)
  PROVE  IInv'
<1>0. RequestKnows(request[q])
  BY DEF IInv
<1>1. ASSUME NEW p \in Pids \cup {0}, CopyRules(q, p) PROVE IInv'
  <2> DEFINE x == [Idle EXCEPT !.at = "copied", !.pid = p, !.asks = Candidates(rules, p),
                               !.steady = Assigned[p]]
  <2>1. RequestKnows(x)
    <3>1. Asked[p] = Candidates(rules, p)
      BY DEF Asked
    <3>2. /\ DOMAIN x = DOMAIN Idle
          /\ x.at = "copied" /\ x.pid = p /\ x.asks = Candidates(rules, p) /\ x.steady = Assigned[p]
      BY DEF Idle
    <3> HIDE DEF x
    <3> QED
      BY <3>1, <3>2 DEF RequestKnows, Stations
  <2> QED
    BY <1>1, <2>1, StepKnows DEF CopyRules
<1>2. CASE RouteAccount(q)
  <2> DEFINE found == Found(request[q].asks)
             x == [request[q] EXCEPT !.at = "routed", !.asks = <<>>,
                     !.account = IF found = NoAccount THEN ActiveAccount ELSE found]
  <2>1. request[q].at = "copied" /\ RequestStep(q, x)
    BY <1>2 DEF RouteAccount
  <2>2. ASSUME request[q].steady # NoAccount PROVE x.account = request[q].steady
    <3>1. /\ request[q].asks = Candidates(rules, request[q].pid)
          /\ request[q].steady = Assigned[request[q].pid]
          /\ request[q].pid \in Pids \cup {0}
      BY <1>0, <2>1, <2>2 DEF RequestKnows, Asked
    <3>2. Assigned[request[q].pid] = found
      BY <3>1 DEF Assigned
    <3>3. found # NoAccount /\ found = request[q].steady
      BY <2>2, <3>1, <3>2
    <3> QED
      BY <1>0, <3>3 DEF RequestKnows
  <2>3. DOMAIN x = DOMAIN Idle /\ x.at = "routed" /\ x.pid = request[q].pid
        /\ x.steady = request[q].steady
    BY <1>0 DEF RequestKnows, Idle
  <2> HIDE DEF x
  <2>4. RequestKnows(x)
    BY <1>0, <2>2, <2>3 DEF RequestKnows, Stations
  <2> QED
    BY <2>1, <2>4, StepKnows
<1>3. CASE SendWithToken(q)
  <2> DEFINE a == IF request[q].account # NoAccount THEN request[q].account ELSE ActiveAccount
  <2>1. PICK had \in BOOLEAN :
          RequestStep(q, [request[q] EXCEPT !.at = "sent", !.tokenless = ~had,
                                            !.payer = IF had THEN a ELSE Credential])
    BY <1>3 DEF SendWithToken
  <2>2. request[q].at = "routed"
    BY <1>3 DEF SendWithToken
  <2> DEFINE x == [request[q] EXCEPT !.at = "sent", !.tokenless = ~had,
                                     !.payer = IF had THEN a ELSE Credential]
  <2>3. /\ DOMAIN x = DOMAIN Idle
        /\ x.at = "sent" /\ x.pid = request[q].pid
        /\ x.tokenless = ~had /\ x.payer = (IF had THEN a ELSE Credential)
        /\ x.steady = request[q].steady /\ x.account = request[q].account
    BY <1>0 DEF RequestKnows, Idle
  <2> HIDE DEF x
  <2>4. RequestKnows(x)
    BY <1>0, <2>1, <2>2, <2>3 DEF RequestKnows, Stations
  <2> USE DEF x
  <2> QED
    BY <2>1, <2>4, StepKnows
<1>4. CASE RequestFails(q)
  BY <1>4, IdleKnows, StepKnows DEF RequestFails
<1>5. CASE RecordTokenUsage(q)
  <2>1. \A c : RequestKnows([Idle EXCEPT !.charged = c])
    BY DEF RequestKnows, Idle, Stations, NoAccount
  <2> QED
    BY <1>5, <2>1, StepKnows DEF RecordTokenUsage
<1> QED
  BY <1>1, <1>2, <1>3, <1>4, <1>5 DEF Serve

LEMMA InitIInv == Init => IInv
<1> SUFFICES ASSUME Init PROVE IInv
  OBVIOUS
<1>1. RulesOK
  BY RouterInitOK DEF Init
<1> QED
  BY <1>1, IdleKnows DEF Init, IInv, RulesOK, OneAccountPerEmail

(* The invariant is inductive. *)
LEMMA IInvStep == IInv /\ [Next]_vars => IInv'
<1> SUFFICES ASSUME IInv, [Next]_vars PROVE IInv'
  OBVIOUS
<1>0. RulesOK
  BY DEF IInv, RulesOK
<1>1. CASE Edit
  <2>1. RulesOK'
    BY <1>0, <1>1, EditKeepsRules
  <2> QED
    BY <1>1, <2>1, KeepSteadyKnows DEF Edit, IInv, RulesOK, OneAccountPerEmail
<1>2. ASSUME NEW a \in AccountIds, AddAccount(a) PROVE IInv'
  <2>1. OneAccountPerEmail'
    BY <1>2 DEF AddAccount, IInv, OneAccountPerEmail, ByEmail
  <2>2. RulesOK'
    BY <1>0, <1>2 DEF AddAccount, routerVars, RulesOK, RouterTypeOK, IdsKeepTheirPid, OneRulePerPid
  <2> QED
    BY <1>2, <2>1, <2>2, KeepSteadyKnows DEF AddAccount, IInv, RulesOK
<1>3. ASSUME NEW a \in AccountIds, DeleteAccount(a) PROVE IInv'
  <2>1. OneAccountPerEmail'
    BY <1>3 DEF DeleteAccount, IInv, OneAccountPerEmail
  <2>2. RulesOK'
    BY <1>0, <1>3 DEF DeleteAccount, routerVars, RulesOK, RouterTypeOK, IdsKeepTheirPid, OneRulePerPid
  <2> QED
    BY <1>3, <2>1, <2>2, KeepSteadyKnows DEF DeleteAccount, IInv, RulesOK
<1>4. ASSUME UNCHANGED <<routerVars, accounts, request>> PROVE IInv'
  <2>1. Asked' = Asked /\ Assigned' = Assigned
    BY <1>4, SameAnswers DEF routerVars
  <2>2. RulesOK'
    BY <1>0, <1>4 DEF routerVars, RulesOK, RouterTypeOK, IdsKeepTheirPid, OneRulePerPid
  <2> QED
    BY <1>4, <2>1, <2>2 DEF IInv, RulesOK, OneAccountPerEmail, RequestKnows
<1>5. ASSUME NEW q \in Requests, Serve(q) PROVE IInv'
  BY <1>5, ServeStep
<1>6. CASE Restart
  <2>1. RulesOK'
    <3>1. CASE rules' = rules
      BY <1>0, <1>6, <3>1 DEF Restart, RouterRestart, RulesOK, RouterTypeOK, IdsKeepTheirPid,
                              OneRulePerPid
    <3>2. CASE rules' = <<>>
      <4>1. rules' \in Seq(Rule) /\ DOMAIN rules' = {}
        BY <3>2
      <4> QED
        BY <1>0, <1>6, <4>1 DEF Restart, RouterRestart, RulesOK, RouterTypeOK, IdsKeepTheirPid,
                                OneRulePerPid
    <3> QED
      BY <1>6, <3>1, <3>2 DEF Restart, RouterRestart
  <2>2. \A q \in Requests : RequestKnows(request[q])'
    <3>1. \A q \in Requests : request'[q] = Idle
      BY <1>6 DEF Restart
    <3> QED
      BY <3>1 DEF RequestKnows, Idle, Stations, NoAccount
  <2> QED
    BY <1>6, <2>1, <2>2 DEF Restart, IInv, RulesOK, OneAccountPerEmail
<1> QED
  BY <1>1, <1>2, <1>3, <1>4, <1>5, <1>6 DEF Next, vars, SetActiveAccount
-----------------------------------------------------------------------------
(* Every reachable state satisfies the inductive invariant. *)
THEOREM Invariance == Spec => []IInv
<1>1. Init => IInv
  BY InitIInv
<1>2. IInv /\ [Next]_vars => IInv'
  BY IInvStep
<1> QED
  BY <1>1, <1>2, PTL DEF Spec

(* One pid has one rule, whatever pages with stale rules post and delete.  *)
THEOREM RulesStayUnique == Spec => []OneRulePerPid
<1>1. IInv => OneRulePerPid
  BY DEF IInv
<1> QED
  BY <1>1, Invariance, PTL

(* A program whose rules and account stay the same while it is routed is   *)
(* served with this account, whatever happens to other rules and to the    *)
(* active mark, and to anything later; the account pays, or, when its own  *)
(* token was not to be had, the global credential, and no other account.   *)
THEOREM AssignedAccountServes == Spec => []AssignmentHolds
<1>1. IInv => AssignmentHolds
  BY RoutingAssumption DEF IInv, RequestKnows, AssignmentHolds
<1> QED
  BY <1>1, Invariance, PTL

(* Who is charged is who paid. *)
THEOREM PayerIsCharged == Spec => ChargedIsPayer
<1> DEFINE Charged ==
      \A q \in Requests :
        /\ request'[q].charged # request[q].charged
        /\ request'[q].charged # NoAccount
        /\ request[q].payer # Credential
        /\ request[q].payer \in accounts
        /\ EmailOf[request[q].payer] # Unknown
        => request'[q].charged = request[q].payer
<1>1. ASSUME IInv, [Next]_vars PROVE Charged
  <2> SUFFICES ASSUME NEW q \in Requests,
                      request'[q].charged # request[q].charged,
                      request'[q].charged # NoAccount,
                      request[q].payer # Credential,
                      request[q].payer \in accounts,
                      EmailOf[request[q].payer] # Unknown
               PROVE  request'[q].charged = request[q].payer
    OBVIOUS
  <2>0. DOMAIN request = Requests /\ RequestKnows(request[q])
    BY <1>1 DEF IInv
  <2>1. CASE RecordTokenUsage(q)
    <3> DEFINE a == request[q].account
               mine == ByEmail(EmailOf[a])
    <3>1. /\ request[q].at = "sent"
          /\ request'[q].charged = IF a = NoAccount THEN NoAccount
                                   ELSE IF mine # {} THEN First(mine) ELSE ActiveAccount
      BY <2>0, <2>1 DEF RecordTokenUsage, RequestStep, Idle
    <3>2. a = request[q].payer
      BY <2>0, <3>1 DEF RequestKnows
    <3>3. mine = {a}
      BY <1>1, <3>2 DEF ByEmail, IInv, OneAccountPerEmail
    <3>4. a \in Nat
      BY <1>1, <3>2, RoutingAssumption DEF IInv
    <3>5. First({a}) = a
      <4>1. \A j \in {a} : a <= j
        BY <3>4
      <4> QED
        BY <4>1 DEF First, Least
    <3>6. a # NoAccount
      BY <3>2 DEF NoAccount, Credential
    <3> QED
      BY <3>1, <3>2, <3>3, <3>5, <3>6
  <2>2. ASSUME NEW r \in Requests, Serve(r), ~RecordTokenUsage(q)
        PROVE  request'[q].charged = request[q].charged \/ request'[q].charged = NoAccount
    <3>1. CASE r # q
      BY <2>0, <2>2, <3>1 DEF Serve, CopyRules, RouteAccount, SendWithToken, RequestFails,
                              RecordTokenUsage, RequestStep
    <3>2. CASE r = q
      <4>1. ASSUME NEW p, CopyRules(q, p) PROVE request'[q].charged = NoAccount
        BY <2>0, <4>1 DEF CopyRules, RequestStep, Idle
      <4>2. CASE RouteAccount(q)
        BY <2>0, <4>2 DEF RouteAccount, RequestStep, RequestKnows
      <4>3. CASE SendWithToken(q)
        BY <2>0, <4>3 DEF SendWithToken, RequestStep, RequestKnows
      <4>4. CASE RequestFails(q)
        BY <2>0, <4>4 DEF RequestFails, RequestStep, Idle
      <4> QED
        BY <2>2, <3>2, <4>1, <4>2, <4>3, <4>4 DEF Serve
    <3> QED
      BY <3>1, <3>2
  <2>3. CASE KeepSteady
    BY <2>0, <2>3 DEF KeepSteady, RequestKnows
  <2>4. CASE Restart
    BY <2>4 DEF Restart, Idle
  <2>5. CASE UNCHANGED request
    BY <2>5
  <2> QED
    BY <1>1, <2>1, <2>2, <2>3, <2>4, <2>5 DEF Next, vars, Edit, AddAccount, DeleteAccount,
                                             SetActiveAccount
<1>2. IInv /\ [Next]_vars => [Charged]_vars
  BY <1>1
<1> QED
  BY <1>2, Invariance, PTL DEF Spec, ChargedIsPayer
=============================================================================
