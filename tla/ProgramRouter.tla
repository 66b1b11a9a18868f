---------------------------- MODULE ProgramRouter ---------------------------
(***************************************************************************)
(* The rules that assign programs to accounts (src/program_router.go), and *)
(* the page and handler that edit them (src/ui.html, src/main.go).         *)
(*                                                                         *)
(* A rule is for a pid, or, with pid 0, for every program whose name       *)
(* contains its pattern; a pattern is the set of pids that it fits.        *)
(* Labels and dates are left out.  An id is a time in nanoseconds, never   *)
(* given twice.  Every change is written to program_rules.json, in place,  *)
(* before its lock is released; a write that fails is not modelled.  The   *)
(* email of the account, kept for the case that its id is gone, is that of *)
(* the account's id: the page sends both.                                  *)
(***************************************************************************)
EXTENDS Naturals, Sequences, SequencesExt

CONSTANTS
  Pids,        \* pids of programs; 0 is a program that was not recognised
  Patterns,    \* patterns, each the set of pids (or 0) whose names contain it
  AccountIds,  \* ids of accounts, in the order they are made
  MaxRules     \* bound of the ids given to rules

ASSUME RouterAssumption ==
  /\ Pids \subseteq Nat \ {0}
  /\ Patterns \subseteq SUBSET (Pids \cup {0})
  /\ MaxRules \in Nat \ {0}

RuleIds == 1..MaxRules

Rule == [id : RuleIds, pid : Pids \cup {0}, pattern : Patterns \cup {{}},
         account : AccountIds, enabled : BOOLEAN]

VARIABLES
  rules,       \* r.rules
  made         \* the rules that were ever made: the pid of each id

routerVars == <<rules, made>>

RouterTypeOK ==
  /\ rules \in Seq(Rule)
  /\ made \in Seq(Pids \cup {0}) /\ Len(made) <= MaxRules

RouterInit ==
  /\ rules = <<>>
  /\ made = <<>>

Least(S) == CHOOSE i \in S : \A j \in S : i <= j

(* Mutant: only the id is looked for. *)
MatchesById(r, x) == x.id = r.id

(* Which rule a posted one replaces: that of its pid, or that of its id. *)
Matches(r, x) == (r.pid > 0 /\ x.pid = r.pid) \/ x.id = r.id

(* AddOrUpdateRule: the first match is replaced and keeps its id. *)
AddOrUpdateRule(r) ==
  LET match == {i \in DOMAIN rules : Matches(r, rules[i])} IN
  IF match = {} THEN rules' = Append(rules, r)
  ELSE rules' = [rules EXCEPT ![Least(match)] = [r EXCEPT !.id = rules[Least(match)].id]]

(* The page makes a rule: for a pid, or for a pattern.  The new id is lost *)
(* when the pid has a rule.                                                *)
NewRule(p, pat, a) ==
  /\ Len(made) < MaxRules
  /\ (p = 0) <=> (pat # {})
  /\ made' = IF p > 0 /\ \E i \in DOMAIN rules : rules[i].pid = p THEN made ELSE Append(made, p)
  /\ AddOrUpdateRule([id |-> Len(made) + 1, pid |-> p, pattern |-> pat, account |-> a, enabled |-> TRUE])

(* The page turns a rule on or off: it posts the whole rule as it was when *)
(* the page read it, which may be long ago.                                *)
ToggleProgramRule(i, pat, a, on) ==
  /\ i \in DOMAIN made
  /\ (made[i] = 0) <=> (pat # {})
  /\ AddOrUpdateRule([id |-> i, pid |-> made[i], pattern |-> pat, account |-> a, enabled |-> on])
  /\ UNCHANGED made

(* DeleteRule copies the rules but those with the id. *)
Without(i) ==
  FoldLeft(LAMBDA newRules, x : IF x.id # i THEN Append(newRules, x) ELSE newRules, <<>>, rules)

DeleteRule(i) ==
  /\ i \in DOMAIN made
  /\ rules' = Without(i)
  /\ UNCHANGED made

(* The process dies, perhaps in the middle of a save; load takes a torn    *)
(* file for an error and starts without rules.                             *)
RouterRestart ==
  /\ rules' \in {rules, <<>>}
  /\ UNCHANGED made

(* The accounts that RouteAccount asks for with its copy of the rules, in  *)
(* its order: those of the enabled rules for the pid, then of the patterns *)
(* that fit.                                                               *)
Candidates(rulesCopy, p) ==
  LET own(x) == p > 0 /\ x.enabled /\ x.pid = p
      fit(x) == x.enabled /\ x.pid = 0 /\ p \in x.pattern
      ids(s) == [i \in DOMAIN s |-> s[i].account]
  IN ids(SelectSeq(rulesCopy, own)) \o ids(SelectSeq(rulesCopy, fit))
-----------------------------------------------------------------------------
(* One pid has one rule, whatever pages with stale rules post and delete,  *)
(* as long as no client gives a rule another pid (AddOrUpdateRule replaces *)
(* the first rule with the id or the pid, and there may be one of each).   *)
OneRulePerPid ==
  \A i, j \in DOMAIN rules : rules[i].pid > 0 /\ rules[i].pid = rules[j].pid => i = j

(* Why it holds: an id stands for one pid for ever, the one it was made    *)
(* for, and no two rules have an id in common.                             *)
IdsKeepTheirPid ==
  /\ \A i, j \in DOMAIN rules : rules[i].id = rules[j].id => i = j
  /\ \A i \in DOMAIN rules : rules[i].id \in DOMAIN made /\ rules[i].pid = made[rules[i].id]
=============================================================================
