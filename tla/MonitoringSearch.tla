---------------------------- MODULE MonitoringSearch ----------------------------
(***************************************************************************)
(* Monitoring: the manual search of a host and the letter it prepares. The *)
(* request holds no lock: it opens a browser on DCIM, reads the card of    *)
(* the host, pings its addresses, reads the two files of routing rules,    *)
(* each through a cache, and decides to whom the letter goes.              *)
(*                                                                         *)
(*   mode     "collect", "mock" or "off": how the facade is configured     *)
(*   rules    the two files, each with the version stat() tells            *)
(*   remembered  the cache: what was read of each version, or Unread       *)
(*   profile  which search has the browser's profile open                  *)
(*   search   the searches                                                 *)
(*   faults   how often reading failed                                     *)
(*                                                                         *)
(* Addresses stand for recipient_key (equal but for case and the suffix of *)
(* the company), so lists of them are sets. A signature of a file never    *)
(* comes back, and the 32 places of the cache are not used up. Texts of        *)
(* messages, logs and the wording of the advice are left out.              *)
(***************************************************************************)
EXTENDS Integers, FiniteSets, Sequences

CONSTANTS
  Searches,        \* requests
  Asked,           \* what may be asked: [host, problem]
  OddHosts,        \* names validate_hostname takes and HOSTNAME_RE does not
  Named,           \* <<device, host>>: the device's name has the host's in it
  Devices,         \* cards of DCIM: [name, project, system, ips, mgmt]
  Found,           \* the devices a page of results may show
  TechFiles, DigitalFiles,   \* what may be on disk
  Missing, Broken, \* no file; one that cannot be read as JSON of version 1
  Unread, NoSearch,
  MaxReplaced, MaxFaults     \* bounds

\* A file of rules is a list with a pattern in each place; no request is nobody.
ASSUME RulesAreLists ==
  /\ NoSearch \notin Searches
  /\ \A file \in TechFiles \ {Missing, Broken} :
       IsFiniteSet(DOMAIN file.rules) /\ \A i \in DOMAIN file.rules : file.rules[i].length \in Nat

Labels == {"Tech", "Digital"}

VARIABLES mode, rules, remembered, profile, search, faults
searchVars == <<mode, rules, remembered, profile, search, faults>>

Waiting == [at |-> "waiting"]
NoCard == [project |-> "-", system |-> "-", ips |-> {}, mgmt |-> {}]

InitSearch ==
  /\ mode \in {"collect", "mock", "off"}
  /\ rules \in [Tech : {[version |-> 0, holds |-> f] : f \in TechFiles},
                Digital : {[version |-> 0, holds |-> f] : f \in DigitalFiles}]
  /\ remembered = {} /\ profile = NoSearch /\ faults = 0
  /\ search = [s \in Searches |-> Waiting]

-----------------------------------------------------------------------------
(* The kinds of a problem. *)

\* The text searched for "Information" has the host in it.
Informs(asked) == asked.problem.informs \/ asked.host.informs
Hardware(problem) == problem.hardware /\ ~problem.typical

\* ping_all_ips
PingStatus(answers) ==
  CASE answers = {} -> "none"
    [] "yes" \in answers -> "yes"
    [] "error" \in answers -> "error"
    [] OTHER -> "no"

\* classify_task_status
Tag(asked, ping) ==
  IF Informs(asked) \/ (~Hardware(asked.problem) /\ asked.problem.typical /\ ping = "yes")
  THEN "green" ELSE "red"

-----------------------------------------------------------------------------
(* The rules. *)

\* validate_rules_payload: a file with one bad rule is refused as a whole.
Sound(label, file) ==
  IF label = "Tech"
  THEN \A i \in DOMAIN file.rules :
         LET r == file.rules[i]
         IN  /\ r.type \in {"exact", "wildcard", "regex"}
             /\ r.project \in {"X5Tech", "Salt", "Digital"}
             /\ r.salt = (r.project = "Salt")
  ELSE \A i, j \in DOMAIN file.hosts : i # j => file.hosts[i] # file.hosts[j]

\* _load_payload_cached, once the file was read
Taken(label, holds) ==
  IF holds \in {Missing, Broken} THEN Unread
  ELSE IF Sound(label, holds) THEN holds ELSE Unread

Rank == [t \in {"exact", "wildcard", "regex"} |->
           CASE t = "exact" -> 3 [] t = "wildcard" -> 2 [] OTHER -> 1]

Matches(rule, host, card) ==
  /\ host.name \in rule.hosts
  /\ \A field \in {"project", "system"} : rule.wants[field] \in {"", card[field]}

\* _rule_score: the type, then the conditions, then the length of the pattern
Score(rule) ==
  <<Rank[rule.type],
    (IF rule.wants.project # "" THEN 2 ELSE 0) + (IF rule.wants.system # "" THEN 1 ELSE 0),
    rule.length>>
Beats(a, b) ==
  \E k \in 1 .. 3 : Score(a)[k] > Score(b)[k] /\ \A m \in 1 .. k - 1 : Score(a)[m] = Score(b)[m]

Matching(tech, host, card) ==
  IF tech = Unread THEN {} ELSE {i \in DOMAIN tech.rules : Matches(tech.rules[i], host, card)}
SaltAmong(tech, found) == {i \in found : tech.rules[i].salt}

\* _best_tech_rule: Salt before anything more exact; equals are an error.
Best(tech, host, card) ==
  LET found == Matching(tech, host, card)
      salts == SaltAmong(tech, found)
      candidates == IF salts # {} THEN salts ELSE found
  IN  {i \in candidates : \A j \in candidates : ~Beats(tech.rules[j], tech.rules[i])}

OnTheList(digital, host) == digital # Unread /\ \E i \in DOMAIN digital.hosts : digital.hosts[i] = host.name

NoLetter == [ready |-> FALSE, project |-> "", from |-> "", to |-> {}, cc |-> {}]

\* The copies the whole file asks for are added last, and to every project.
Letter(project, from, to, cc, always, wrong) ==
  [ready |-> to # {} /\ ~wrong, project |-> project, from |-> from, to |-> to,
   cc |-> (cc \ to) \cup always]

\* resolve_hostname_routing
Decide(host, card, tech, digital) ==
  LET best == Best(tech, host, card)
      wrong == Cardinality(best) > 1
      rule == tech.rules[CHOOSE i \in best : TRUE]
      always == IF tech = Unread THEN {} ELSE tech.always
      OfRule(project) == Letter(project, "Tech", rule.to, rule.cc \ tech.never, always, FALSE)
  IN  CASE host.name \in OddHosts -> NoLetter
        [] Cardinality(best) = 1 /\ rule.salt -> OfRule("Salt")
        [] ~(Cardinality(best) = 1 /\ rule.salt) /\ OnTheList(digital, host) ->
             Letter("Digital", "Digital", digital.to, digital.cc, always, wrong)
        [] Cardinality(best) = 1 /\ ~rule.salt /\ ~OnTheList(digital, host) ->
             OfRule(IF rule.project = "Digital" THEN "Digital" ELSE "X5Tech")
        [] OTHER -> NoLetter

-----------------------------------------------------------------------------
(* The search. *)

Becomes(s, r) == search' = [search EXCEPT ![s] = r]
Failed == [at |-> "failed"]

\* The facade refuses before anything is done when collecting is off.
Ask(s, asked) ==
  /\ search[s] = Waiting
  /\ CASE mode = "off" \/ ~asked.host.valid \/ ~asked.problem.valid -> Becomes(s, Failed)
       [] mode = "mock" -> Becomes(s, [at |-> "ping", asked |-> asked, card |-> NoCard, ips |-> {}])
       [] OTHER -> Becomes(s, [at |-> "open", asked |-> asked])
  /\ UNCHANGED <<mode, rules, remembered, profile, faults>>

\* open_dcim_card: a browser whose profile is in use does not start.
OpenBrowser(s) ==
  /\ search[s].at = "open"
  /\ \/ profile = NoSearch /\ profile' = s /\ Becomes(s, [search[s] EXCEPT !.at = "card"])
     \/ Becomes(s, Failed) /\ UNCHANGED profile
  /\ UNCHANGED <<mode, rules, remembered, faults>>

\* The link of that name, else one that has it in it, else the only link.
Chosen(shown, host) ==
  LET exact == {d \in shown : d.name = host.name}
      partly == {d \in shown : <<d.name, host.name>> \in Named}
  IN  IF exact # {} THEN exact
      ELSE IF partly # {} THEN partly
      ELSE IF Cardinality(shown) = 1 THEN shown ELSE {}

\* get_dcim_data_and_ips: whatever happens, the browser is closed.
ReadCard(s) ==
  /\ search[s].at = "card"
  /\ profile' = NoSearch
  /\ \/ Becomes(s, Failed)
     \/ \E shown \in Found :
          \/ Chosen(shown, search[s].asked.host) = {} /\ Becomes(s, Failed)
          \/ \E d \in Chosen(shown, search[s].asked.host) :
               \E ips \in IF d.ips # {} THEN {d.ips} ELSE {d.mgmt, {}} :
                 Becomes(s, [at |-> "ping", asked |-> search[s].asked, card |-> d, ips |-> ips])
  /\ UNCHANGED <<mode, rules, remembered, faults>>

Seen(s) == [l \in Labels |-> {rules[l].holds}]

\* The addresses answer or not; then the rules are asked for, Tech first.
Ping(s) ==
  /\ search[s].at = "ping"
  /\ \E answers \in [search[s].ips -> {"yes", "no", "error"}] :
       LET r == search[s]
       IN  Becomes(s, [at |-> "stat", label |-> "Tech", asked |-> r.asked, card |-> r.card,
                    tag |-> Tag(r.asked, PingStatus({answers[i] : i \in r.ips})),
                    read |-> [l \in Labels |-> Unread], seen |-> Seen(s), version |-> 0])
  /\ UNCHANGED <<mode, rules, remembered, profile, faults>>

\* Mutant: what was read once of a file is not read again.
KnownOnce(label, version) == {c \in remembered : c.label = label}

\* lru_cache: the arguments of the call are the label and what stat() told.
KnownContents(label, version) == {c \in remembered : c.label = label /\ c.version = version}

After(r, got) ==
  [r EXCEPT !.read[r.label] = got, !.at = IF r.label = "Tech" THEN "stat" ELSE "decide",
            !.label = "Digital", !.version = 0]

\* _load_payload: stat(), and the cache; a file that is not there is not remembered.
Stat(s) ==
  /\ search[s].at = "stat"
  /\ LET r == search[s]
         file == rules[r.label]
     IN  IF file.holds = Missing THEN Becomes(s, After(r, Unread))
         ELSE IF KnownContents(r.label, file.version) # {}
              THEN \E c \in KnownContents(r.label, file.version) : Becomes(s, After(r, c.got))
              ELSE Becomes(s, [r EXCEPT !.at = "read", !.version = file.version])
  /\ UNCHANGED <<mode, rules, remembered, profile, faults>>

\* _load_payload_cached: the contents as they are now go under the version seen
\* before, and so does a failure to read them.
Load(s) ==
  /\ search[s].at = "read"
  /\ LET r == search[s]
         Keep(got) ==
           /\ remembered' = remembered \cup {[label |-> r.label, version |-> r.version, got |-> got]}
           /\ Becomes(s, After(r, got))
     IN  \/ Keep(Taken(r.label, rules[r.label].holds)) /\ UNCHANGED faults
         \/ faults < MaxFaults /\ faults' = faults + 1 /\ Keep(Unread)
  /\ UNCHANGED <<mode, rules, profile>>

Answer(s) ==
  /\ search[s].at = "decide"
  /\ LET r == search[s]
     IN  Becomes(s, [at |-> "done", asked |-> r.asked, card |-> r.card, tag |-> r.tag,
                  read |-> r.read, seen |-> r.seen,
                  letter |-> Decide(r.asked.host, r.card, r.read["Tech"], r.read["Digital"])])
  /\ UNCHANGED <<mode, rules, remembered, profile, faults>>

-----------------------------------------------------------------------------
(* The generators replace each file as a whole, one after the other; a file may
   also be damaged or removed. *)

ReplaceFile(label, holds) ==
  /\ rules["Tech"].version + rules["Digital"].version < MaxReplaced
  /\ holds # rules[label].holds
  /\ rules' = [rules EXCEPT ![label] = [version |-> @.version + 1, holds |-> holds]]
  /\ search' = [s \in Searches |->
       IF "seen" \in DOMAIN search[s] /\ search[s].at # "done"
       THEN [search[s] EXCEPT !.seen[label] = @ \cup {holds}] ELSE search[s]]
  /\ UNCHANGED <<mode, remembered, profile, faults>>

NextSearch ==
  \/ \E s \in Searches :
       (\E asked \in Asked : Ask(s, asked)) \/ OpenBrowser(s) \/ ReadCard(s) \/ Ping(s)
         \/ Stat(s) \/ Load(s) \/ Answer(s)
  \/ \E f \in TechFiles : ReplaceFile("Tech", f)
  \/ \E f \in DigitalFiles : ReplaceFile("Digital", f)

-----------------------------------------------------------------------------

Answered == {s \in Searches : search[s].at = "done"}

\* What a search read is what the file held at some moment of that search, never what
\* an earlier search had read of a file replaced before it began.
ReadsTheFiles ==
  \A s \in Answered : \A l \in Labels :
    LET got == search[s].read[l] IN got = Unread \/ got \in search[s].seen[l]

\* The order of the projects, and of the rules of one project: no rule that stands above
\* the one that was taken matches the host and its card.
Ordered(s) ==
  LET r == search[s]
      tech == r.read["Tech"]
      found == Matching(tech, r.asked.host, r.card)
      salts == SaltAmong(tech, found)
  IN  /\ (salts # {}) <=> (r.letter.project = "Salt")
      /\ salts = {} /\ OnTheList(r.read["Digital"], r.asked.host) => r.letter.from = "Digital"
      /\ r.letter.from = "Tech" =>
           \E i \in found :
             /\ r.letter.to = tech.rules[i].to
             /\ \A j \in found \ {i} :
                  tech.rules[j].salt = tech.rules[i].salt => Beats(tech.rules[i], tech.rules[j])

\* A letter that is offered as ready follows the rules as they stood during the search;
\* nobody in its copy is also addressed or excluded unless the file copies them always;
\* a fault of the hardware is never shown green but for an event of information; and the
\* browser is open only while a search reads DCIM.
LettersFollowTheRules ==
  /\ ReadsTheFiles
  /\ \A s \in Answered :
       LET r == search[s]
           tech == r.read["Tech"]
           always == IF tech = Unread THEN {} ELSE tech.always
       IN  /\ r.letter.ready =>
                Ordered(s) /\ r.letter.to # {} /\ r.letter.cc \cap r.letter.to \subseteq always
           /\ r.letter.ready /\ r.letter.from = "Tech" => r.letter.cc \cap tech.never \subseteq always
           /\ Hardware(r.asked.problem) /\ r.tag = "green" => Informs(r.asked)
  /\ \A s \in Searches : (profile = s) <=> (search[s].at = "card")

\* docs/MONITORING_HOSTNAME_ROUTING.md: a damaged configuration is handled
\* fail-closed. No letter is ready when a file that was there could not be used.
FailsClosed ==
  \A s \in Answered : search[s].letter.ready =>
    \A l \in Labels : search[s].read[l] = Unread => Missing \in search[s].seen[l]

SearchSpec == InitSearch /\ [][NextSearch]_searchVars
=============================================================================
