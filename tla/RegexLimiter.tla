----------------------------- MODULE RegexLimiter -----------------------------
(***************************************************************************)
(* RegexLimiter of src/limiter.go: Test admits a request when the first    *)
(* rule that matches its path has a token left; a rule's tokens are set    *)
(* back to its limit when more than a second has passed since the last     *)
(* time.  Test takes no lock.  The agents of several servers may share one *)
(* limiter (tests/limited/main.go shares it among four), so each access to *)
(* a rule's fields is a step.  The rules are those of a file.              *)
(***************************************************************************)
EXTENDS ConfigFile

CONSTANTS
    Agents,     \* the goroutines that call Test on the limiter
    Paths,      \* the paths of the requests
    Matches,    \* Matches[path]: the texts that match it as a regexp
    Files,      \* the files a limiter may be loaded from
    Second,     \* a second, in ticks of the clock
    MaxTime     \* bound on the clock

NoRule == 0

ASSUME LimiterAssumption ==
    /\ Files \subseteq File
    /\ DOMAIN Matches = Paths
    /\ Second \in Nat /\ MaxTime \in Nat

VARIABLES
    now,        \* the clock
    file,       \* the file
    rules,      \* the rules read from it, or <<>> when it has an error
    tokens,     \* tokens of each rule
    lastTest,   \* lastTest of each rule
    agent,      \* where each agent is in Test
    window      \* history: when each rule's second began, requests admitted in it

vars == <<now, file, rules, tokens, lastTest, agent, window>>

Rules == DOMAIN rules

Limit(k) == rules[k].limits

Idle == [pc |-> "idle", rule |-> NoRule, read |-> 0]

Init ==
    /\ now = 0
    /\ file \in Files
    /\ rules = ParseRegexLimiter(file).rules
    /\ tokens = [k \in Rules |-> Limit(k)]
    /\ lastTest = [k \in Rules |-> 0]
    /\ agent = [a \in Agents |-> Idle]
    /\ window = [k \in Rules |-> [start |-> 0, admitted |-> 0]]

Tick ==
    /\ now < MaxTime
    /\ now' = now + 1
    /\ UNCHANGED <<file, rules, tokens, lastTest, agent, window>>

\* The rules are tried in order; a path no rule matches is not limited.
RuleOf(path) == FirstMatch(rules, Matches[path])

Test(a, path) ==
    /\ agent[a].pc = "idle"
    /\ RuleOf(path) # NoRule
    /\ agent' = [agent EXCEPT ![a] = [pc |-> "since", rule |-> RuleOf(path), read |-> 0]]
    /\ UNCHANGED <<file, rules, now, tokens, lastTest, window>>

\* Mutant: the tokens are set back within the second.
ElapsedEarly(k) == now - lastTest[k] >= 0

Elapsed(k) == now - lastTest[k] > Second

Since(a) ==
    /\ agent[a].pc = "since"
    /\ agent' = [agent EXCEPT ![a].pc = IF Elapsed(agent[a].rule) THEN "refill" ELSE "check"]
    /\ UNCHANGED <<file, rules, now, tokens, lastTest, window>>

\* Mutant: the request being tested is taken off twice.
RefillLess(a) ==
    LET k == agent[a].rule IN
    /\ agent[a].pc = "refill"
    /\ tokens' = [tokens EXCEPT ![k] = Limit(k) - 1]
    /\ window' = IF now - window[k].start > Second
                 THEN [window EXCEPT ![k] = [start |-> now, admitted |-> 0]]
                 ELSE window
    /\ agent' = [agent EXCEPT ![a].pc = "stamp"]
    /\ UNCHANGED <<file, rules, now, lastTest>>

\* The window of the history begins when a second has passed, not when an
\* agent that looked earlier refills once more.
Refill(a) ==
    LET k == agent[a].rule IN
    /\ agent[a].pc = "refill"
    /\ tokens' = [tokens EXCEPT ![k] = Limit(k)]
    /\ window' = IF now - window[k].start > Second
                 THEN [window EXCEPT ![k] = [start |-> now, admitted |-> 0]]
                 ELSE window
    /\ agent' = [agent EXCEPT ![a].pc = "stamp"]
    /\ UNCHANGED <<file, rules, now, lastTest>>

\* Mutant: the time of the next refill is recorded.
StampNext(a) ==
    /\ agent[a].pc = "stamp"
    /\ lastTest' = [lastTest EXCEPT ![agent[a].rule] = now + Second]
    /\ agent' = [agent EXCEPT ![a].pc = "check"]
    /\ UNCHANGED <<file, rules, now, tokens, window>>

Stamp(a) ==
    /\ agent[a].pc = "stamp"
    /\ lastTest' = [lastTest EXCEPT ![agent[a].rule] = now]
    /\ agent' = [agent EXCEPT ![a].pc = "check"]
    /\ UNCHANGED <<file, rules, now, tokens, window>>

Check(a) ==
    /\ agent[a].pc = "check"
    /\ IF tokens[agent[a].rule] > 0
       THEN agent' = [agent EXCEPT ![a].pc = "load"]
       ELSE agent' = [agent EXCEPT ![a] = Idle]         \* refused
    /\ UNCHANGED <<file, rules, now, tokens, lastTest, window>>

\* tokens-- is a load and a store.
Load(a) ==
    /\ agent[a].pc = "load"
    /\ agent' = [agent EXCEPT ![a].pc = "store", ![a].read = tokens[agent[a].rule]]
    /\ UNCHANGED <<file, rules, now, tokens, lastTest, window>>

Store(a) ==
    LET k == agent[a].rule IN
    /\ agent[a].pc = "store"
    /\ tokens' = [tokens EXCEPT ![k] = agent[a].read - 1]
    /\ window' = [window EXCEPT ![k].admitted = @ + 1]   \* admitted
    /\ agent' = [agent EXCEPT ![a] = Idle]
    /\ UNCHANGED <<file, rules, now, lastTest>>

Next ==
    \/ Tick
    \/ \E a \in Agents :
         \/ \E path \in Paths : Test(a, path)
         \/ Since(a) \/ Refill(a) \/ Stamp(a) \/ Check(a) \/ Load(a) \/ Store(a)

Spec == Init /\ [][Next]_vars
-----------------------------------------------------------------------------
\* Every variable has its type, and no recorded time is in the future.
TypeOK ==
    /\ now \in 0 .. MaxTime
    /\ file \in Files /\ rules = ParseRegexLimiter(file).rules
    /\ tokens \in [Rules -> Int]
    /\ lastTest \in [Rules -> 0 .. now]
    /\ agent \in [Agents -> [pc : {"idle", "since", "refill", "stamp", "check", "load", "store"},
                             rule : Rules \cup {NoRule}, read : Int]]
    /\ window \in [Rules -> [start : 0 .. now, admitted : Nat]]

\* "line 1: regex matching, line 2: request per second, ..., line m, line n" (above
\* LoadRegexLimiter and ParseProxyConfig): whatever blank lines the file has, the
\* rules are its lines two by two and in order; a value without its regexp, a
\* regexp without its value shifts none of the others, and a mistake anywhere loses all.
RulesOfFile ==
    LET texts   == Only(CompleteLines(file), {l \in Line : l.text # NoText})
        pairs   == {k \in DOMAIN texts : k % 2 = 0}
        error   == \/ \E k \in DOMAIN texts \ pairs : ~texts[k].compiles
                   \/ \E k \in pairs : ~texts[k].numeric
        proxies == ParseProxyConfig(file) IN
    /\ ParseRegexLimiter(file).error = error
    /\ ~error => rules = [k \in 1 .. Len(texts) \div 2 |->
                            [regexp |-> texts[2 * k - 1].text, limits |-> texts[2 * k].number]]
    /\ ~error => proxies.services = [k \in DOMAIN rules |->
                            [regexp |-> rules[k].regexp, address |-> texts[2 * k].text]]

\* "Line n: request per second" (the file format above LoadRegexLimiter): in a
\* second that began with a refill no more requests pass than the rule allows.
RequestsPerSecond ==
    \A k \in Rules : Limit(k) >= 0 => window[k].admitted <= Limit(k)

RefusesSpent ==
    \A a \in Agents : agent[a].pc = "check" /\ agent'[a].pc = "idle" =>
      window[agent[a].rule].admitted >= Limit(agent[a].rule)

\* A request is refused only when its rule's second is used up.
RefusedWhenSpent == [][RefusesSpent]_vars
=============================================================================
