----------------------------- MODULE SpamRules -----------------------------
(***************************************************************************)
(* The rule file and its engine as operators: what a file must satisfy to  *)
(* be accepted (src/app/config/rules.py) and the verdict the engine gives  *)
(* (src/app/services/spam_rules.py).  A text is a value, a regular         *)
(* expression the set of the texts it finds, a time a number of minutes;   *)
(* equality of texts is equality after strip().                            *)
(***************************************************************************)
EXTENDS Naturals, FiniteSets, FiniteSetsExt, SequencesExt

WHITELIST_REASON == "whitelisted"
SpamLevels == {"normal", "suspicious", "spam"}

(***************************************************************************)
(* The file: [thresholds, whitelist, rules], rules a sequence of           *)
(* [id, weight, when].  when maps the conditions that are given to their   *)
(* values; a written_between is [start, end], each a set of at most one    *)
(* bound.                                                                  *)
(***************************************************************************)
Conditions == {"written_between", "nickname_regex", "content_regex", "content_equals",
               "nickname_equals", "same_nickname_count_gte", "comments_per_minute_gte",
               "is_secret", "is_reply"}

ValidWindow(w) == w.start \cup w.end # {}

ValidRule(rule) ==
    /\ DOMAIN rule.when # {}                    \* an empty rule would score everything
    /\ DOMAIN rule.when \subseteq Conditions    \* extra="forbid"
    /\ rule.weight \in Nat \ {0}
    /\ "written_between" \in DOMAIN rule.when => ValidWindow(rule.when.written_between)
    /\ \A k \in {"same_nickname_count_gte", "comments_per_minute_gte"} \cap DOMAIN rule.when :
           rule.when[k] \in Nat \ {0}

ValidConfig(config) ==
    /\ config.thresholds.suspicious \in Nat /\ config.thresholds.spam \in Nat
    /\ config.thresholds.spam >= config.thresholds.suspicious
    /\ \A i \in DOMAIN config.rules : ValidRule(config.rules[i])
    /\ \A i, k \in DOMAIN config.rules :
           config.rules[i].id = config.rules[k].id => i = k

\* Without a file nothing is scored and nothing is on the whitelist.
default_rules ==
    [thresholds |-> [suspicious |-> 40, spam |-> 70],
     whitelist |-> [nicknames |-> {}, nickname_regex |-> {}, comment_ids |-> {}],
     rules |-> <<>>]

(***************************************************************************)
(* The engine                                                              *)
(***************************************************************************)
\* Plausible bug: the comparison that leaves the rule is turned round.
Below(n, bound) == n < bound

AtLeast(n, bound) == n >= bound

\* All conditions of a rule hold; the bounds of a window and of a count are included.
Matches(rule, c, nickname_count, minute_count) ==
    \A k \in DOMAIN rule.when :
        LET v == rule.when[k] IN
        CASE k = "written_between" -> /\ \A b \in v.start : c.written_at >= b
                                      /\ \A b \in v.end : c.written_at <= b
          [] k = "nickname_regex" -> c.nickname \in v
          [] k = "content_regex" -> c.content \in v
          [] k = "content_equals" -> c.content = v
          [] k = "nickname_equals" -> c.nickname = v
          [] k = "same_nickname_count_gte" -> AtLeast(nickname_count, v)
          [] k = "comments_per_minute_gte" -> AtLeast(minute_count, v)
          [] k = "is_secret" -> c.is_secret = v
          [] k = "is_reply" -> c.is_reply = v

LevelFor(config, score) ==
    IF score >= config.thresholds.spam THEN "spam"
    ELSE IF score >= config.thresholds.suspicious THEN "suspicious" ELSE "normal"

\* The owner of the blog is protected whatever the file says.
IsWhitelisted(config, c) ==
    \/ c.is_admin
    \/ c.comment_id \in config.whitelist.comment_ids
    \/ c.nickname \in config.whitelist.nicknames
    \/ \E p \in config.whitelist.nickname_regex : c.nickname \in p

Score(config, hits) == MapThenSumSet(LAMBDA i : config.rules[i].weight, hits)

Evaluate(config, c, nickname_count, minute_count) ==
    LET hits  == {i \in DOMAIN config.rules :
                      Matches(config.rules[i], c, nickname_count, minute_count)}
        score == Score(config, hits)
        white == IsWhitelisted(config, c)
    IN  [score |-> score,
         level |-> IF white THEN "normal" ELSE LevelFor(config, score),
         reasons |-> {config.rules[i].id : i \in hits}
                         \cup (IF white THEN {WHITELIST_REASON} ELSE {}),
         whitelisted |-> white]

\* The counts are those of the comments that are evaluated together.
EvaluateAll(config, comments) ==
    [id \in {c.comment_id : c \in comments} |->
        LET c == CHOOSE x \in comments : x.comment_id = id IN
        Evaluate(config, c,
                 Cardinality({x \in comments : x.nickname = c.nickname}),
                 Cardinality({x \in comments : x.written_at = c.written_at}))]

\* Comments never score less for being evaluated together with more of them: the
\* conditions that count are lower bounds (spam_rules.py:255-261).
NeverLessTogether(config, comments) ==
    LET whole == EvaluateAll(config, comments) IN
    \A part \in SUBSET comments :
        LET verdicts == EvaluateAll(config, part) IN
        \A c \in part : verdicts[c.comment_id].score <= whole[c.comment_id].score
=============================================================================
