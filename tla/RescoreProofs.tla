--------------------------- MODULE RescoreProofs ---------------------------
(***************************************************************************)
(* Theorems about Rescore, for any comments, rule files, chunk and number  *)
(* of requests: an undisturbed rescoring leaves the verdicts of the file,  *)
(* a comment known as the owner's is not deleted, the counts of the page   *)
(* agree with its selections.                                              *)
(***************************************************************************)
EXTENDS Rescore, FiniteSetTheorems, SequenceTheorems, WellFoundedInduction, TLAPS

(***************************************************************************)
(* The sum of the weights of a finite set of rules.  It is a fold over the *)
(* subsets of the set; what holds of every finite set is shown from a      *)
(* least set for which it would not.                                       *)
(***************************************************************************)
LEMMA LeastSet ==
  ASSUME NEW S, IsFiniteSet(S), NEW F \in SUBSET (SUBSET S), F # {}
  PROVE  \E T \in F : \A U \in F : U \subseteq T => U = T
<1>1. IsWellFoundedOn(StrictSubsetOrdering(S), SUBSET S)
  BY FS_StrictSubsetOrderingWellFounded, FS_FiniteSubsetsOfFinite
<1>2. PICK T \in F : \A U \in F : ~(<<U, T>> \in StrictSubsetOrdering(S))
  BY <1>1, WFMin
<1>3. \A U \in F : <<U, T>> \in (SUBSET S) \X (SUBSET S)
  OBVIOUS
<1>. QED BY <1>2, <1>3 DEF StrictSubsetOrdering

Pick(s) == CHOOSE x \in s : TRUE

\* g sums the weights of every subset of S.
SumFcn(config, S, g) ==
    g = [s \in SUBSET S |-> IF s = {} THEN 0
                            ELSE config.rules[Pick(s)].weight + g[s \ {Pick(s)}]]

LEMMA SumsAgree ==
  ASSUME NEW config, NEW S, IsFiniteSet(S), NEW T \in SUBSET S,
         NEW g, SumFcn(config, S, g), NEW h, SumFcn(config, T, h)
  PROVE  \A s \in SUBSET T : g[s] = h[s]
<1>. DEFINE F == {s \in SUBSET T : g[s] # h[s]}
<1>1. SUFFICES ASSUME F # {} PROVE FALSE
  OBVIOUS
<1>2. F \in SUBSET (SUBSET T) /\ IsFiniteSet(T)
  BY FS_Subset
<1>. HIDE DEF F
<1>3. PICK s \in F : \A U \in F : U \subseteq s => U = s
  BY <1>1, <1>2, LeastSet
<1>. USE DEF F
<1>4. s \in SUBSET S /\ s \in SUBSET T /\ g[s] # h[s]
  OBVIOUS
<1>5. CASE s = {}
  BY <1>4, <1>5 DEF SumFcn
<1>6. CASE s # {}
  <2>. DEFINE x == Pick(s)
              U == s \ {x}
  <2>1. x \in s
    BY <1>6 DEF Pick
  <2>2. g[U] = h[U]
    BY <1>3, <1>4, <2>1
  <2>3. g[s] = config.rules[x].weight + g[U] /\ h[s] = config.rules[x].weight + h[U]
    BY <1>4, <1>6 DEF SumFcn
  <2>. QED BY <1>4, <2>2, <2>3
<1>. QED BY <1>5, <1>6

LEMMA SumExists ==
  ASSUME NEW config, NEW S, IsFiniteSet(S)
  PROVE  \E g : SumFcn(config, S, g)
<1>. DEFINE F == {T \in SUBSET S : ~\E g : SumFcn(config, T, g)}
            G(U) == CHOOSE g : SumFcn(config, U, g)
<1>1. SUFFICES ASSUME F # {} PROVE FALSE
  OBVIOUS
<1>. F \in SUBSET (SUBSET S)
  OBVIOUS
<1>. HIDE DEF F
<1>2. PICK T \in F : \A U \in F : U \subseteq T => U = T
  BY <1>1, LeastSet
<1>. USE DEF F
<1>3. \A U \in SUBSET T : U # T => SumFcn(config, U, G(U))
  BY <1>2
<1>4. IsFiniteSet(T) /\ \A U \in SUBSET T : IsFiniteSet(U)
  BY FS_Subset
<1>. HIDE DEF G
<1>. DEFINE g == [s \in SUBSET T |-> IF s = {} THEN 0
                      ELSE config.rules[Pick(s)].weight + G(s \ {Pick(s)})[s \ {Pick(s)}]]
<1>5. ASSUME NEW U \in SUBSET T, U # T PROVE g[U] = G(U)[U]
  <2>1. CASE U = {}
    BY <1>3, <1>5, <2>1 DEF SumFcn
  <2>2. CASE U # {}
    <3>. DEFINE x == Pick(U)
                V == U \ {x}
    <3>1. x \in U /\ V \in SUBSET T /\ V # T /\ V \in SUBSET U
      BY <2>2 DEF Pick
    <3>2. SumFcn(config, U, G(U)) /\ SumFcn(config, V, G(V)) /\ IsFiniteSet(U)
      BY <1>3, <1>4, <1>5, <3>1
    <3>. HIDE DEF V
    <3>3. G(U)[V] = G(V)[V]
      BY <3>1, <3>2, SumsAgree
    <3>. USE DEF V
    <3>4. G(U)[U] = config.rules[x].weight + G(U)[V]
      BY <2>2, <3>2 DEF SumFcn
    <3>. QED BY <2>2, <3>3, <3>4
  <2>. QED BY <2>1, <2>2
<1>6. \A s \in SUBSET T : s # {} => s \ {Pick(s)} \in SUBSET T /\ s \ {Pick(s)} # T
  BY DEF Pick
<1>7. SumFcn(config, T, g)
  BY <1>5, <1>6 DEF SumFcn
<1>. QED BY <1>7

LEMMA ScoreIsSum ==
  ASSUME NEW config, NEW S, IsFiniteSet(S), NEW g, SumFcn(config, S, g)
  PROVE  Score(config, S) = g[S]
<1>. DEFINE G == CHOOSE h : SumFcn(config, S, h)
<1>1. Score(config, S) = G[S]
  BY DEF Score, MapThenSumSet, MapThenFoldSet, SumFcn, Pick
<1>2. SumFcn(config, S, G)
  OBVIOUS
<1>. HIDE DEF G
<1>3. G[S] = g[S]
  BY <1>2, SumsAgree
<1>. QED BY <1>1, <1>3

\* The score of no rules, and that of one rule more.
LEMMA ScoreUnfolds ==
  ASSUME NEW config, NEW S, IsFiniteSet(S)
  PROVE  /\ Score(config, {}) = 0
         /\ S # {} => /\ Pick(S) \in S
                      /\ Score(config, S) = config.rules[Pick(S)].weight
                                                + Score(config, S \ {Pick(S)})
<1>1. Score(config, {}) = 0
  <2>1. IsFiniteSet({})
    BY FS_EmptySet
  <2>2. PICK g : SumFcn(config, {}, g)
    BY <2>1, SumExists
  <2>3. g[{}] = 0
    BY <2>2 DEF SumFcn
  <2>. QED BY <2>1, <2>2, <2>3, ScoreIsSum
<1>2. ASSUME S # {}
      PROVE  /\ Pick(S) \in S
             /\ Score(config, S) = config.rules[Pick(S)].weight + Score(config, S \ {Pick(S)})
  <2>. DEFINE U == S \ {Pick(S)}
  <2>1. Pick(S) \in S
    BY <1>2 DEF Pick
  <2>2. U \in SUBSET S /\ IsFiniteSet(U)
    BY FS_Subset
  <2>3. PICK g : SumFcn(config, S, g)
    BY SumExists
  <2>4. PICK h : SumFcn(config, U, h)
    BY <2>2, SumExists
  <2>5. g[S] = config.rules[Pick(S)].weight + g[U]
    BY <1>2, <2>3 DEF SumFcn
  <2>6. g[U] = h[U]
    BY <2>2, <2>3, <2>4, SumsAgree
  <2>7. Score(config, S) = g[S] /\ Score(config, U) = h[U]
    BY <2>2, <2>3, <2>4, ScoreIsSum
  <2>. QED BY <2>1, <2>5, <2>6, <2>7
<1>. QED BY <1>1, <1>2

Weighted(config) ==
    /\ IsFiniteSet(DOMAIN config.rules)
    /\ \A i \in DOMAIN config.rules : config.rules[i].weight \in Nat

LEMMA ScoreNat ==
  ASSUME NEW config, Weighted(config), NEW S \in SUBSET DOMAIN config.rules
  PROVE  Score(config, S) \in Nat
<1>. DEFINE D == DOMAIN config.rules
            F == {T \in SUBSET D : Score(config, T) \notin Nat}
<1>1. IsFiniteSet(D) /\ \A T \in SUBSET D : IsFiniteSet(T)
  BY FS_Subset DEF Weighted
<1>2. SUFFICES ASSUME F # {} PROVE FALSE
  OBVIOUS
<1>. F \in SUBSET (SUBSET D)
  OBVIOUS
<1>. HIDE DEF F
<1>3. PICK T \in F : \A U \in F : U \subseteq T => U = T
  BY <1>1, <1>2, LeastSet
<1>. USE DEF F
<1>4. T # {}
  <2>1. Score(config, {}) = 0
    BY FS_EmptySet, ScoreUnfolds
  <2>. QED BY <2>1
<1>5. /\ Pick(T) \in T /\ Score(config, T) = config.rules[Pick(T)].weight + Score(config, T \ {Pick(T)})
  BY <1>1, <1>4, ScoreUnfolds
<1>6. T \ {Pick(T)} \notin F
  BY <1>3, <1>5
<1>7. Score(config, T \ {Pick(T)}) \in Nat /\ config.rules[Pick(T)].weight \in Nat
  BY <1>5, <1>6 DEF Weighted
<1>. QED BY <1>5, <1>7

\* Any rule of the set may be the one that is added last.
LEMMA ScoreTakesAny ==
  ASSUME NEW config, Weighted(config), NEW S \in SUBSET DOMAIN config.rules, NEW i \in S
  PROVE  Score(config, S) = config.rules[i].weight + Score(config, S \ {i})
<1>. DEFINE D == DOMAIN config.rules
            w(k) == config.rules[k].weight
            Sc(T) == Score(config, T)
            F == {T \in SUBSET D : \E k \in T : Sc(T) # w(k) + Sc(T \ {k})}
<1>1. IsFiniteSet(D) /\ \A T \in SUBSET D : IsFiniteSet(T) /\ Sc(T) \in Nat
  BY FS_Subset, ScoreNat DEF Weighted
<1>2. SUFFICES ASSUME F # {} PROVE FALSE
  OBVIOUS
<1>. F \in SUBSET (SUBSET D)
  OBVIOUS
<1>. HIDE DEF F
<1>3. PICK T \in F : \A U \in F : U \subseteq T => U = T
  BY <1>1, <1>2, LeastSet
<1>. USE DEF F
<1>4. T \in SUBSET D /\ T # {}
  OBVIOUS
<1>. DEFINE x == Pick(T)
<1>5. x \in T /\ Sc(T) = w(x) + Sc(T \ {x})
  BY <1>1, <1>4, ScoreUnfolds
<1>6. ASSUME NEW k \in T PROVE Sc(T) = w(k) + Sc(T \ {k})
  <2>1. CASE k = x
    BY <1>5, <2>1
  <2>2. CASE k # x
    <3>1. T \ {x} \notin F /\ T \ {k} \notin F /\ k \in T \ {x} /\ x \in T \ {k}
      BY <1>3, <1>5, <2>2
    <3>2. T \ {x} \in SUBSET D /\ T \ {k} \in SUBSET D
      BY <1>4
    <3>3. Sc(T \ {x}) = w(k) + Sc((T \ {x}) \ {k}) /\ Sc(T \ {k}) = w(x) + Sc((T \ {k}) \ {x})
      BY <3>1, <3>2
    <3>4. (T \ {x}) \ {k} = (T \ {k}) \ {x} /\ (T \ {k}) \ {x} \in SUBSET D
      BY <1>4
    <3>5. w(x) \in Nat /\ w(k) \in Nat /\ Sc((T \ {k}) \ {x}) \in Nat
      BY <1>1, <1>4, <1>5, <3>4 DEF Weighted
    <3>6. Sc((T \ {x}) \ {k}) = Sc((T \ {k}) \ {x})
      BY <3>4
    <3>7. \A p, q, r \in Nat : p + (q + r) = q + (p + r)
      OBVIOUS
    <3>8. Sc(T) = w(x) + (w(k) + Sc((T \ {k}) \ {x}))
      BY <1>5, <3>3, <3>6
    <3>9. Sc(T) = w(k) + (w(x) + Sc((T \ {k}) \ {x}))
      BY <3>5, <3>7, <3>8
    <3>. QED BY <3>3, <3>9
  <2>. QED BY <2>1, <2>2
<1>. QED BY <1>3, <1>6

LEMMA ScoreGrows ==
  ASSUME NEW config, Weighted(config), NEW S \in SUBSET DOMAIN config.rules, NEW R \in SUBSET S
  PROVE  Score(config, R) <= Score(config, S)
<1>. DEFINE D == DOMAIN config.rules
            F == {T \in SUBSET D : R \subseteq T /\ ~(Score(config, R) <= Score(config, T))}
<1>1. /\ IsFiniteSet(D) /\ R \in SUBSET D
      /\ \A T \in SUBSET D : IsFiniteSet(T) /\ Score(config, T) \in Nat
  BY FS_Subset, ScoreNat DEF Weighted
<1>2. SUFFICES ASSUME F # {} PROVE FALSE
  OBVIOUS
<1>. F \in SUBSET (SUBSET D)
  OBVIOUS
<1>. HIDE DEF F
<1>3. PICK T \in F : \A U \in F : U \subseteq T => U = T
  BY <1>1, <1>2, LeastSet
<1>. USE DEF F
<1>4. T \in SUBSET D /\ R \subseteq T /\ ~(Score(config, R) <= Score(config, T))
  OBVIOUS
<1>5. PICK i \in T : i \notin R
  <2>1. Score(config, R) <= Score(config, R)
    BY <1>1
  <2>. QED BY <1>4, <2>1
<1>6. T \ {i} \in SUBSET D /\ R \subseteq T \ {i} /\ T \ {i} \notin F
  BY <1>3, <1>4, <1>5
<1>7. Score(config, R) <= Score(config, T \ {i})
  BY <1>6
<1>8. Score(config, T) = config.rules[i].weight + Score(config, T \ {i})
  BY <1>4, <1>5, ScoreTakesAny
<1>9. /\ config.rules[i].weight \in Nat /\ Score(config, T \ {i}) \in Nat
      /\ Score(config, R) \in Nat
  BY <1>1, <1>4, <1>6 DEF Weighted
<1>. QED BY <1>4, <1>7, <1>8, <1>9

(***************************************************************************)
(* The engine over a part of the comments and over all of them             *)
(***************************************************************************)
\* The conditions that count are lower bounds, the others do not count.
LEMMA MatchesGrows ==
  ASSUME NEW rule, ValidRule(rule), NEW c, NEW n \in Nat, NEW m \in Nat,
         NEW more \in Nat, NEW longer \in Nat, n <= more, m <= longer,
         Matches(rule, c, n, m)
  PROVE  Matches(rule, c, more, longer)
<1>1. /\ DOMAIN rule.when \subseteq Conditions
      /\ \A k \in {"same_nickname_count_gte", "comments_per_minute_gte"} \cap DOMAIN rule.when :
             rule.when[k] \in Nat
  BY DEF ValidRule
<1>. DEFINE Holds(k, a, b) ==
        LET v == rule.when[k] IN
        CASE k = "written_between" -> /\ \A t \in v.start : c.written_at >= t
                                      /\ \A t \in v.end : c.written_at <= t
          [] k = "nickname_regex" -> c.nickname \in v
          [] k = "content_regex" -> c.content \in v
          [] k = "content_equals" -> c.content = v
          [] k = "nickname_equals" -> c.nickname = v
          [] k = "same_nickname_count_gte" -> AtLeast(a, v)
          [] k = "comments_per_minute_gte" -> AtLeast(b, v)
          [] k = "is_secret" -> c.is_secret = v
          [] k = "is_reply" -> c.is_reply = v
<1>2. \A a, b : Matches(rule, c, a, b) <=> \A k \in DOMAIN rule.when : Holds(k, a, b)
  BY DEF Matches
<1>3. ASSUME NEW k \in DOMAIN rule.when, Holds(k, n, m) PROVE Holds(k, more, longer)
  <2>1. CASE k = "same_nickname_count_gte"
    <3>1. rule.when[k] \in Nat /\ n >= rule.when[k]
      BY <1>1, <1>3, <2>1 DEF AtLeast
    <3>. QED BY <2>1, <3>1 DEF AtLeast
  <2>2. CASE k = "comments_per_minute_gte"
    <3>1. rule.when[k] \in Nat /\ m >= rule.when[k]
      BY <1>1, <1>3, <2>2 DEF AtLeast
    <3>. QED BY <2>2, <3>1 DEF AtLeast
  <2>3. CASE k \in Conditions \ {"same_nickname_count_gte", "comments_per_minute_gte"}
    <3>1. Holds(k, n, m) = Holds(k, more, longer)
      BY <2>3 DEF Conditions
    <3>. QED BY <1>3, <3>1
  <2>. QED BY <1>1, <2>1, <2>2, <2>3
<1>. HIDE DEF Holds
<1>. QED BY <1>2, <1>3

Hits(config, c, S) ==
    {i \in DOMAIN config.rules :
        Matches(config.rules[i], c, Cardinality({x \in S : x.nickname = c.nickname}),
                Cardinality({x \in S : x.written_at = c.written_at}))}

\* The score of a comment among others, when no two share an id.
LEMMA ScoreAmong ==
  ASSUME NEW config, NEW S, NEW c \in S, \A x \in S : x.comment_id = c.comment_id => x = c
  PROVE  EvaluateAll(config, S)[c.comment_id].score = Score(config, Hits(config, c, S))
<1>1. (CHOOSE x \in S : x.comment_id = c.comment_id) = c
  OBVIOUS
<1>2. EvaluateAll(config, S)[c.comment_id]
          = Evaluate(config, c, Cardinality({x \in S : x.nickname = c.nickname}),
                     Cardinality({x \in S : x.written_at = c.written_at}))
  BY <1>1 DEF EvaluateAll
<1>3. \A n, m : Evaluate(config, c, n, m).score
          = Score(config, {i \in DOMAIN config.rules : Matches(config.rules[i], c, n, m)})
  BY DEF Evaluate
<1>. QED BY <1>2, <1>3 DEF Hits

LEMMA HitsGrow ==
  ASSUME NEW config, ValidConfig(config), NEW S, IsFiniteSet(S), NEW part \in SUBSET S,
         NEW c \in part
  PROVE  Hits(config, c, part) \subseteq Hits(config, c, S)
<1>. DEFINE Same(T) == {x \in T : x.nickname = c.nickname}
            AtOnce(T) == {x \in T : x.written_at = c.written_at}
<1>1. /\ Same(S) \in SUBSET S /\ AtOnce(S) \in SUBSET S
      /\ Same(part) \in SUBSET Same(S) /\ AtOnce(part) \in SUBSET AtOnce(S)
  OBVIOUS
<1>. HIDE DEF Same, AtOnce
<1>2. IsFiniteSet(Same(S)) /\ IsFiniteSet(AtOnce(S))
  BY <1>1, FS_Subset
<1>3. /\ IsFiniteSet(Same(part)) /\ Cardinality(Same(part)) <= Cardinality(Same(S))
      /\ IsFiniteSet(AtOnce(part)) /\ Cardinality(AtOnce(part)) <= Cardinality(AtOnce(S))
  BY <1>1, <1>2, FS_Subset
<1>4. /\ Cardinality(Same(S)) \in Nat /\ Cardinality(AtOnce(S)) \in Nat
      /\ Cardinality(Same(part)) \in Nat /\ Cardinality(AtOnce(part)) \in Nat
  BY <1>2, <1>3, FS_CardinalityType
<1>5. ASSUME NEW i \in DOMAIN config.rules,
             Matches(config.rules[i], c, Cardinality(Same(part)), Cardinality(AtOnce(part)))
      PROVE  Matches(config.rules[i], c, Cardinality(Same(S)), Cardinality(AtOnce(S)))
  <2>1. ValidRule(config.rules[i])
    BY DEF ValidConfig
  <2>. QED BY <1>3, <1>4, <1>5, <2>1, MatchesGrows
<1>. QED BY <1>5 DEF Hits, Same, AtOnce

LEMMA NeverLess ==
  ASSUME NEW config, ValidConfig(config), IsFiniteSet(DOMAIN config.rules),
         NEW S, IsFiniteSet(S), \A x, y \in S : x.comment_id = y.comment_id => x = y
  PROVE  NeverLessTogether(config, S)
<1>1. Weighted(config)
  BY DEF Weighted, ValidConfig, ValidRule
<1>2. ASSUME NEW part \in SUBSET S, NEW c \in part
      PROVE  EvaluateAll(config, part)[c.comment_id].score
                 <= EvaluateAll(config, S)[c.comment_id].score
  <2>1. /\ EvaluateAll(config, part)[c.comment_id].score = Score(config, Hits(config, c, part))
        /\ EvaluateAll(config, S)[c.comment_id].score = Score(config, Hits(config, c, S))
    BY ScoreAmong
  <2>2. /\ Hits(config, c, S) \in SUBSET DOMAIN config.rules
        /\ Hits(config, c, part) \in SUBSET Hits(config, c, S)
    <3>1. Hits(config, c, S) \in SUBSET DOMAIN config.rules
      BY DEF Hits
    <3>2. Hits(config, c, part) \subseteq Hits(config, c, S)
      BY HitsGrow
    <3>. QED BY <3>1, <3>2
  <2>3. Score(config, Hits(config, c, part)) <= Score(config, Hits(config, c, S))
    BY <1>1, <2>2, ScoreGrows
  <2>. QED BY <2>1, <2>3
<1>. QED BY <1>2 DEF NeverLessTogether

(***************************************************************************)
(* The inductive invariant                                                 *)
(***************************************************************************)
\* Rows and requests are records of the same fields all the time.
Shapes ==
    /\ row = [c \in Comment |-> row[c]] /\ req = [r \in Request |-> req[r]]
    /\ \A c \in Comment :
           row[c] = [status |-> row[c].status, verdict |-> row[c].verdict,
                     is_admin |-> row[c].is_admin]
    /\ \A r \in Request :
           req[r] = [pc |-> req[r].pc, rules |-> req[r].rules, scope |-> req[r].scope,
                     todo |-> req[r].todo, verdicts |-> req[r].verdicts]

IsVerdict(v) == v.level \in SpamLevels /\ v.whitelisted \in BOOLEAN

\* What a request has still to write is a verdict.
Pending ==
    \A r \in Request : req[r].pc = "write" =>
        \A c \in Range(req[r].todo) : IsVerdict(req[r].verdicts[c])

\* All that the rescoring of everything looks at.
Whole == {Scored(c) : c \in Live}

\* Beside an undisturbed request nothing has changed: its rules are those of the file,
\* and its verdicts those of the table, written already or still to be written.
Fresh ==
    \A r \in undisturbed :
        /\ req[r].pc = "read" => req[r].rules = Loads
        /\ req[r].pc = "write" /\ req[r].scope = {} =>
               /\ req[r].verdicts = EvaluateAll(Loads, Whole)
               /\ \A c \in Live : \/ c \in Range(req[r].todo)
                                  \/ row[c].verdict = req[r].verdicts[c]

RescoreInv == TypeOK /\ Shapes /\ Pending /\ Fresh /\ SettledIsCurrent

\* What a job has in hand is stored; the owner's comments that were safe once are it
\* still, and no check lets them through.
Hands ==
    /\ taken \subseteq Stored
    /\ \A c \in owned : c \in Comment /\ c \notin taken /\ row[c].is_admin
                         /\ row[c].status # "deleted"

(***************************************************************************)
(* What the operators of the actions do                                    *)
(***************************************************************************)
\* Without new, removed or newly marked comments a rescoring looks at the same.
LEMMA SameWhole ==
  ASSUME \A c \in Comment : /\ row'[c].is_admin = row[c].is_admin
                            /\ row'[c].status \in {"absent", "deleted"}
                                   <=> row[c].status \in {"absent", "deleted"}
  PROVE  Live' = Live /\ Whole' = Whole
<1>1. Live' = Live
  BY DEF Live, Stored
<1>2. \A c \in Live : c \in Comment
  BY DEF Live, Stored
<1>3. \A c \in Live : Scored(c)' = Scored(c)
  BY <1>2 DEF Scored
<1>. QED BY <1>1, <1>3 DEF Whole

\* What the engine gives is a verdict.
LEMMA EvaluateGives ==
  ASSUME NEW config, NEW c, NEW n, NEW m
  PROVE  IsVerdict(Evaluate(config, c, n, m))
BY DEF Evaluate, IsVerdict, IsWhitelisted, LevelFor, SpamLevels

LEMMA EvaluateAllGives ==
  ASSUME NEW config, NEW S, NEW id \in {c.comment_id : c \in S}
  PROVE  IsVerdict(EvaluateAll(config, S)[id])
BY EvaluateGives DEF EvaluateAll

LEMMA ScoredId ==
  ASSUME NEW c \in Comment
  PROVE  Scored(c).comment_id = c
<1>1. Data[c].comment_id = c
  BY RescoreAssumption
<1>. QED BY <1>1 DEF Scored, Fields

LEMMA ReadInOrder ==
  ASSUME NEW ids \in SUBSET Comment, NEW todo \in InOrderOfWriting(ids)
  PROVE  todo \in Seq(Comment) /\ Range(todo) = ids
<1>1. IsFiniteSet(ids) /\ Cardinality(ids) \in Nat
  BY RescoreAssumption, FS_Subset, FS_CardinalityType
<1>2. todo \in [1..Cardinality(ids) -> Comment] /\ Range(todo) = ids
  BY DEF InOrderOfWriting
<1>. QED BY <1>1, <1>2, SeqDef

\* A chunk and the rest of it are all that was to be written.
LEMMA Chunks ==
  ASSUME NEW todo \in Seq(Comment)
  PROVE  /\ Rest(todo) \in Seq(Comment)
         /\ ChunkOf(todo) \subseteq Range(todo) /\ Range(Rest(todo)) \subseteq Range(todo)
         /\ \A c \in Range(todo) : c \in ChunkOf(todo) \/ c \in Range(Rest(todo))
<1>1. Chunk \in Nat /\ Chunk >= 1 /\ Len(todo) \in Nat /\ DOMAIN todo = 1..Len(todo)
  BY RescoreAssumption, LenProperties
<1>2. \A i \in (Chunk + 1)..Len(todo) : todo[i] \in Comment
  BY <1>1, ElementOfSeq
<1>. DEFINE n == Len(todo)
            more == IF Chunk + 1 <= n THEN n - Chunk ELSE 0
<1>3. Rest(todo) \in Seq(Comment)
  BY <1>1, <1>2, SubSeqProperties DEF Rest
<1>4. more \in Nat /\ (more # 0 => more = n - Chunk) /\ DOMAIN Rest(todo) = 1..more
  <2>1. Len(Rest(todo)) = IF Chunk + 1 <= n THEN n - (Chunk + 1) + 1 ELSE 0
    BY <1>1, <1>2, SubSeqProperties DEF Rest
  <2>2. n \in Nat /\ Chunk \in Nat
    BY <1>1
  <2>. HIDE DEF n
  <2>3. Len(Rest(todo)) = more
    BY <2>1, <2>2
  <2>4. DOMAIN Rest(todo) = 1..Len(Rest(todo))
    BY <1>3, LenProperties
  <2>5. more \in Nat /\ (more # 0 => more = n - Chunk)
    BY <2>2
  <2>. QED BY <2>3, <2>4, <2>5
<1>5. \A i \in 1..(Len(todo) - Chunk) : Rest(todo)[i] = todo[i + Chunk]
  <2>. DEFINE m == Chunk + 1
  <2>. TAKE i \in 1..(Len(todo) - Chunk)
  <2>1. i \in 1..(Len(todo) - (Chunk + 1) + 1) /\ Chunk + 1 + i - 1 = i + Chunk
    BY <1>1
  <2>2. /\ m \in Int /\ Len(todo) \in Int /\ \A k \in m..Len(todo) : todo[k] \in Comment
        /\ i \in 1..(Len(todo) - m + 1) /\ Rest(todo) = SubSeq(todo, m, Len(todo))
    BY <1>1, <1>2, <2>1 DEF Rest
  <2>3. m + i - 1 = i + Chunk
    BY <2>1
  <2>. HIDE DEF m
  <2>4. Rest(todo)[i] = todo[m + i - 1]
    BY <2>2, SubSeqProperties
  <2>. QED BY <2>3, <2>4
<1>6. \A i \in 1..more : i \in 1..(Len(todo) - Chunk) /\ i + Chunk \in 1..Len(todo)
  BY <1>1
<1>. HIDE DEF more
<1>7. \A i \in DOMAIN Rest(todo) : i + Chunk \in DOMAIN todo /\ Rest(todo)[i] = todo[i + Chunk]
  BY <1>1, <1>4, <1>5, <1>6
<1>8. ASSUME NEW i \in DOMAIN todo
      PROVE  todo[i] \in ChunkOf(todo) \/ todo[i] \in Range(Rest(todo))
  <2>1. CASE i <= Chunk
    <3>1. i \in 1..Least(Chunk, Len(todo))
      BY <1>1, <2>1 DEF Least
    <3>. QED BY <3>1 DEF ChunkOf
  <2>2. CASE ~(i <= Chunk)
    <3>1. i - Chunk \in 1..more /\ i - Chunk \in 1..(Len(todo) - Chunk) /\ i - Chunk + Chunk = i
      BY <1>1, <2>2 DEF more
    <3>2. Rest(todo)[i - Chunk] = todo[i]
      BY <1>5, <3>1
    <3>. QED BY <1>4, <3>1, <3>2 DEF Range
  <2>. QED BY <2>1, <2>2
<1>9. \A i \in 1..Least(Chunk, Len(todo)) : i \in DOMAIN todo
  BY <1>1 DEF Least
<1>. QED BY <1>3, <1>7, <1>8, <1>9 DEF ChunkOf, Range

(***************************************************************************)
(* The invariant holds initially, and every action keeps it                *)
(***************************************************************************)
LEMMA RescoreInit == Init => RescoreInv
<1>. SUFFICES ASSUME Init PROVE RescoreInv
  OBVIOUS
<1>1. \A c \in Comment : row[c] = NoRow
  BY DEF Init
<1>2. \A r \in Request : req[r] = Idle
  BY DEF Init
<1>3. <<>> \in Seq(Comment)
  BY EmptySeq
<1>4. TypeOK
  <2>1. \A c \in Comment :
            /\ row[c].status = "absent" /\ row[c].is_admin = FALSE
            /\ row[c].verdict.level = "normal" /\ row[c].verdict.whitelisted = FALSE
    BY <1>1 DEF NoRow, Unscored
  <2>2. \A r \in Request : req[r].pc = "idle" /\ req[r].todo = <<>>
    BY <1>2 DEF Idle
  <2>3. /\ file = NoFile /\ events \in 0..MaxEvents /\ faults \in 0..MaxFaults
        /\ undisturbed = {} /\ settled = FALSE
    BY RescoreAssumption DEF Init
  <2>4. taken = {} /\ owned = {}
    BY DEF Init
  <2>. QED BY <1>3, <2>4, <2>1, <2>2, <2>3 DEF TypeOK, SpamLevels
<1>5. Shapes
  <2>1. row = [c \in Comment |-> row[c]] /\ req = [r \in Request |-> req[r]]
    BY DEF Init
  <2>. QED BY <1>1, <1>2, <2>1 DEF Shapes, NoRow, Idle
<1>6. Pending
  BY <1>2 DEF Pending, Idle
<1>7. Fresh /\ SettledIsCurrent
  BY DEF Init, Fresh, SettledIsCurrent
<1>. QED BY <1>4, <1>5, <1>6, <1>7 DEF RescoreInv

\* What is disturbed owes nothing.
LEMMA Disturbed == Disturb => Fresh' /\ SettledIsCurrent'
BY DEF Disturb, Fresh, SettledIsCurrent

LEMMA FileStep ==
  ASSUME RescoreInv, NEW f \in Files \cup {NoFile}, PutRules(f) \/ EditRules(f)
  PROVE  RescoreInv'
<1>1. /\ file' = f /\ Disturb /\ UNCHANGED <<row, req, taken, faults, owned>>
      /\ events < MaxEvents /\ events' = events + 1
  BY DEF PutRules, EditRules, Event
<1>2. TypeOK /\ Shapes /\ Pending
  BY DEF RescoreInv
<1>3. events' \in 0..MaxEvents
  BY <1>1, <1>2, RescoreAssumption DEF TypeOK
<1>4. TypeOK'
  BY <1>1, <1>2, <1>3 DEF TypeOK, Disturb
<1>5. Shapes' /\ Pending'
  BY <1>1, <1>2 DEF Shapes, Pending
<1>. QED BY <1>1, <1>4, <1>5, Disturbed DEF RescoreInv

IsRow(x) ==
    /\ x = [status |-> x.status, verdict |-> x.verdict, is_admin |-> x.is_admin]
    /\ x.status \in {"absent", "active", "failed", "deleted"}
    /\ x.is_admin \in BOOLEAN /\ IsVerdict(x.verdict)

IsRequest(x) ==
    /\ x = [pc |-> x.pc, rules |-> x.rules, scope |-> x.scope, todo |-> x.todo,
            verdicts |-> x.verdicts]
    /\ x.pc \in {"idle", "read", "write"} /\ x.todo \in Seq(Comment)
    /\ x.pc = "write" => \A c \in Range(x.todo) : IsVerdict(x.verdicts[c])

LEMMA Parts ==
  TypeOK /\ Shapes /\ Pending =>
      (\A c \in Comment : IsRow(row[c])) /\ (\A r \in Request : IsRequest(req[r]))
BY DEF TypeOK, Shapes, Pending, IsRow, IsVerdict, IsRequest

\* A step from rows and requests to rows and requests.
LEMMA TypesStep ==
  ASSUME TypeOK, file' = file,
         row' = [c \in Comment |-> row'[c]], \A c \in Comment : IsRow(row'[c]),
         req' = [r \in Request |-> req'[r]], \A r \in Request : IsRequest(req'[r]),
         events' \in 0..MaxEvents, faults' \in 0..MaxFaults,
         undisturbed' \subseteq Request, settled' \in BOOLEAN,
         taken' \subseteq Comment, owned' \subseteq Comment
  PROVE  TypeOK' /\ Shapes' /\ Pending'
<1>1. TypeOK'
  BY DEF TypeOK, IsRow, IsVerdict, IsRequest
<1>2. Shapes'
  BY DEF Shapes, IsRow, IsRequest
<1>3. Pending'
  BY DEF Pending, IsRequest
<1>. QED BY <1>1, <1>2, <1>3

LEMMA TableStep ==
  ASSUME TypeOK, Shapes, Pending, UNCHANGED <<file, req, faults>>,
         row' = [c \in Comment |-> row'[c]], \A c \in Comment : IsRow(row'[c]),
         events' \in 0..MaxEvents, undisturbed' \subseteq Request, settled' \in BOOLEAN,
         taken' \subseteq Comment, owned' \subseteq Comment
  PROVE  TypeOK' /\ Shapes' /\ Pending'
<1>1. req' = [r \in Request |-> req'[r]] /\ faults' \in 0..MaxFaults
  BY DEF Shapes, TypeOK
<1>2. \A r \in Request : IsRequest(req'[r])
  BY Parts
<1>. QED BY <1>1, <1>2, TypesStep

LEMMA RequestStep ==
  ASSUME TypeOK, Shapes, Pending, UNCHANGED <<file, row, events, taken, owned>>,
         NEW r \in Request, IsRequest(req'[r]), req' = [req EXCEPT ![r] = req'[r]],
         faults' \in 0..MaxFaults, undisturbed' \subseteq Request, settled' \in BOOLEAN
  PROVE  TypeOK' /\ Shapes' /\ Pending'
<1>1. /\ row' = [c \in Comment |-> row'[c]] /\ events' \in 0..MaxEvents
      /\ req' = [q \in Request |-> req'[q]]
      /\ taken' \subseteq Comment /\ owned' \subseteq Comment
  BY DEF Shapes, TypeOK
<1>2. \A q \in Request : q # r => req'[q] = req[q]
  BY DEF Shapes
<1>3. (\A q \in Request : IsRequest(req'[q])) /\ (\A c \in Comment : IsRow(row'[c]))
  BY <1>2, Parts
<1>. QED BY <1>1, <1>3, TypesStep

LEMMA IdleIsRequest == IsRequest(Idle)
<1>1. <<>> \in Seq(Comment)
  BY EmptySeq
<1>. QED BY <1>1 DEF IsRequest, Idle

LEMMA CollectStep ==
  ASSUME RescoreInv, NEW c \in Comment, NEW mark \in BOOLEAN, Collect(c, mark)
  PROVE  RescoreInv'
<1>1. /\ row' = [row EXCEPT ![c] = Upserted(c, mark)] /\ Disturb
      /\ UNCHANGED <<file, req, taken, faults>> /\ events < MaxEvents /\ events' = events + 1
      /\ owned' = owned \cup Safe'
  BY DEF Collect, Event
<1>2. TypeOK /\ Shapes /\ Pending
  BY DEF RescoreInv
<1>3. PICK new \in BOOLEAN : new = (row[c].is_admin \/ mark)
  OBVIOUS
<1>4. IsRow(Upserted(c, mark))
  <2>1. IsRow(row[c])
    BY <1>2, Parts
  <2>2. NowActive(row[c].status) \in {"absent", "active", "failed", "deleted"}
    BY <2>1 DEF NowActive, IsRow
  <2>3. Upserted(c, mark) = [row[c] EXCEPT !.status = NowActive(row[c].status), !.is_admin = new]
    BY <1>3 DEF Upserted
  <2>4. Upserted(c, mark) = [status |-> NowActive(row[c].status), verdict |-> row[c].verdict,
                             is_admin |-> new]
    BY <2>1, <2>3 DEF IsRow
  <2>. QED BY <2>1, <2>2, <2>4 DEF IsRow
<1>5. events' \in 0..MaxEvents
  BY <1>1, <1>2, RescoreAssumption DEF TypeOK
<1>6. TypeOK' /\ Shapes' /\ Pending'
  <2>1. row' = [d \in Comment |-> row'[d]] /\ \A d \in Comment : IsRow(row'[d])
    BY <1>1, <1>2, <1>4, Parts DEF Shapes
  <2>2. /\ undisturbed' \subseteq Request /\ settled' \in BOOLEAN
        /\ taken' \subseteq Comment /\ owned' \subseteq Comment
    BY <1>1, <1>2 DEF Disturb, TypeOK, Safe
  <2>. QED BY <1>1, <1>2, <1>5, <2>1, <2>2, TableStep
<1>. QED BY <1>1, <1>6, Disturbed DEF RescoreInv

LEMMA DeleteStep ==
  ASSUME RescoreInv, Hands, NEW c \in Comment, NEW status \in {"deleted", "failed"},
         Delete(c, status)
  PROVE  RescoreInv'
<1>1. /\ row' = [row EXCEPT ![c].status = status] /\ c \in Stored
      /\ UNCHANGED <<file, req, taken, events, faults, owned>>
      /\ \/ Disturb
         \/ status = "failed" /\ row[c].status # "deleted" /\ UNCHANGED <<undisturbed, settled>>
  <2>1. CASE "deleted" \in {status, row[c].status}
    BY <2>1 DEF Delete, Hands
  <2>2. CASE "deleted" \notin {status, row[c].status}
    BY <2>2 DEF Delete, Hands
  <2>. QED BY <2>1, <2>2
<1>2. TypeOK /\ Shapes /\ Pending /\ Fresh /\ SettledIsCurrent
  BY DEF RescoreInv
<1>3. row' = [row EXCEPT ![c] = [status |-> status, verdict |-> row[c].verdict,
                                 is_admin |-> row[c].is_admin]]
  <2>1. row[c] = [status |-> row[c].status, verdict |-> row[c].verdict,
                  is_admin |-> row[c].is_admin]
    BY <1>2 DEF Shapes
  <2>2. [row[c] EXCEPT !.status = status]
            = [status |-> status, verdict |-> row[c].verdict, is_admin |-> row[c].is_admin]
    BY <2>1
  <2>. QED BY <1>1, <2>2
<1>4. IsRow([status |-> status, verdict |-> row[c].verdict, is_admin |-> row[c].is_admin])
  <2>1. IsRow(row[c])
    BY <1>2, Parts
  <2>. QED BY <2>1 DEF IsRow
<1>5. events' \in 0..MaxEvents /\ taken' \subseteq Comment /\ owned' \subseteq Comment
  BY <1>1, <1>2 DEF TypeOK
<1>6. TypeOK' /\ Shapes' /\ Pending'
  <2>1. row' = [d \in Comment |-> row'[d]] /\ \A d \in Comment : IsRow(row'[d])
    BY <1>2, <1>3, <1>4, Parts DEF Shapes
  <2>2. undisturbed' \subseteq Request /\ settled' \in BOOLEAN
    BY <1>1, <1>2 DEF TypeOK, Disturb
  <2>. QED BY <1>1, <1>2, <1>5, <2>1, <2>2, TableStep
<1>7. Fresh' /\ SettledIsCurrent'
  <2>1. CASE /\ status = "failed" /\ row[c].status # "deleted"
             /\ UNCHANGED <<undisturbed, settled>>
    <3>1. \A d \in Comment : row'[d].is_admin = row[d].is_admin /\ row'[d].verdict = row[d].verdict
      BY <1>2, <1>3 DEF Shapes
    <3>2. \A d \in Comment : row'[d].status \in {"absent", "deleted"}
                                 <=> row[d].status \in {"absent", "deleted"}
      BY <1>1, <1>2, <1>3, <2>1 DEF Shapes, Live, Stored
    <3>3. Live' = Live /\ Whole' = Whole /\ Loads' = Loads /\ \A d \in Live : d \in Comment
      BY <1>1, <3>1, <3>2, SameWhole DEF Loads, Live, Stored
    <3>4. Fresh'
      BY <1>1, <1>2, <2>1, <3>1, <3>3 DEF Fresh
    <3>5. SettledIsCurrent'
      BY <1>2, <2>1, <3>1, <3>3 DEF SettledIsCurrent, Whole
    <3>. QED BY <3>4, <3>5
  <2>. QED BY <1>1, <2>1, Disturbed
<1>. QED BY <1>6, <1>7 DEF RescoreInv

LEMMA HandStep ==
  ASSUME RescoreInv, NEW c \in Comment, Take(c) \/ Release(c)
  PROVE  RescoreInv'
<1>1. /\ UNCHANGED <<file, row, req, faults, undisturbed, settled>>
      /\ events' = events \/ (events < MaxEvents /\ events' = events + 1)
      /\ taken' \subseteq taken \cup {c} /\ owned' \subseteq owned \cup Safe'
  BY DEF Take, Release, Event
<1>2. TypeOK /\ Shapes /\ Pending /\ Fresh /\ SettledIsCurrent
  BY DEF RescoreInv
<1>3. /\ events' \in 0..MaxEvents
      /\ taken' \subseteq Comment /\ owned' \subseteq Comment
  BY <1>1, <1>2, RescoreAssumption DEF TypeOK, Safe
<1>4. TypeOK' /\ Shapes' /\ Pending'
  BY <1>1, <1>2, <1>3 DEF TypeOK, Shapes, Pending
<1>5. Loads' = Loads /\ Live' = Live /\ Whole' = Whole
  BY <1>1, SameWhole DEF Loads
<1>6. Fresh' /\ SettledIsCurrent'
  BY <1>1, <1>2, <1>5 DEF Fresh, SettledIsCurrent, Whole
<1>. QED BY <1>4, <1>6 DEF RescoreInv

\* What an undisturbed request owes, about one request.
FreshFor(r) ==
    /\ req[r].pc = "read" => req[r].rules = Loads
    /\ req[r].pc = "write" /\ req[r].scope = {} =>
           /\ req[r].verdicts = EvaluateAll(Loads, Whole)
           /\ \A c \in Live : c \in Range(req[r].todo) \/ row[c].verdict = req[r].verdicts[c]

\* Without a change of the table or the file only the request that moved matters.
LEMMA FreshStep ==
  ASSUME RescoreInv, UNCHANGED <<file, row, settled>>, NEW r \in Request,
         req' = [req EXCEPT ![r] = req'[r]], FreshFor(r)' \/ r \notin undisturbed',
         undisturbed' \subseteq undisturbed \cup {r}
  PROVE  Fresh' /\ SettledIsCurrent'
<1>1. Loads' = Loads /\ Live' = Live /\ Whole' = Whole
  BY SameWhole DEF Loads
<1>2. SettledIsCurrent'
  BY <1>1 DEF RescoreInv, SettledIsCurrent, Whole
<1>3. ASSUME NEW q \in undisturbed' PROVE FreshFor(q)'
  <2>1. CASE q = r
    BY <1>3, <2>1
  <2>2. CASE q # r
    <3>1. q \in undisturbed /\ q \in Request
      BY <2>2 DEF RescoreInv, TypeOK
    <3>2. FreshFor(q) /\ req'[q] = req[q]
      BY <2>2, <3>1 DEF RescoreInv, Fresh, FreshFor, Shapes
    <3>. QED BY <1>1, <3>2 DEF FreshFor
  <2>. QED BY <2>1, <2>2
<1>4. Fresh'
  BY <1>3 DEF Fresh, FreshFor
<1>. QED BY <1>2, <1>4

LEMMA LoadStep ==
  ASSUME RescoreInv, NEW r \in Request, NEW scope, Load(r, scope)
  PROVE  RescoreInv'
<1>1. TypeOK /\ Shapes /\ Pending
  BY DEF RescoreInv
<1>2. /\ req' = [req EXCEPT ![r] = [Idle EXCEPT !.pc = "read", !.rules = Loads, !.scope = scope]]
      /\ undisturbed' = undisturbed \cup {r}
      /\ UNCHANGED <<file, row, taken, events, faults, settled, owned>>
  BY DEF Load
<1>3. req'[r] = [pc |-> "read", rules |-> Loads, scope |-> scope, todo |-> <<>>, verdicts |-> <<>>]
  BY <1>1, <1>2 DEF Shapes, Idle
<1>4. IsRequest(req'[r]) /\ req' = [req EXCEPT ![r] = req'[r]]
  <2>1. <<>> \in Seq(Comment)
    BY EmptySeq
  <2>2. IsRequest(req'[r])
    BY <1>3, <2>1 DEF IsRequest
  <2>. QED BY <1>1, <1>2, <2>2 DEF Shapes
<1>5. FreshFor(r)'
  BY <1>2, <1>3 DEF FreshFor, Loads
<1>6. /\ faults' \in 0..MaxFaults /\ undisturbed' \subseteq Request /\ settled' \in BOOLEAN
      /\ undisturbed' \subseteq undisturbed \cup {r}
  BY <1>1, <1>2 DEF TypeOK
<1>7. TypeOK' /\ Shapes' /\ Pending'
  BY <1>1, <1>2, <1>4, <1>6, RequestStep
<1>8. Fresh' /\ SettledIsCurrent'
  BY <1>2, <1>4, <1>5, <1>6, FreshStep
<1>. QED BY <1>7, <1>8 DEF RescoreInv

LEMMA FailStep ==
  ASSUME RescoreInv, NEW r \in Request, Fail(r)
  PROVE  RescoreInv'
<1>1. TypeOK /\ Shapes /\ Pending
  BY DEF RescoreInv
<1>2. /\ req' = [req EXCEPT ![r] = Idle] /\ faults < MaxFaults /\ faults' = faults + 1
      /\ UNCHANGED <<file, row, taken, events, undisturbed, settled, owned>>
  BY DEF Fail
<1>3. req'[r] = Idle /\ req' = [req EXCEPT ![r] = req'[r]]
  BY <1>1, <1>2 DEF Shapes
<1>4. FreshFor(r)'
  BY <1>3 DEF FreshFor, Idle
<1>5. faults' \in 0..MaxFaults /\ undisturbed' \subseteq Request /\ settled' \in BOOLEAN
  BY <1>1, <1>2, RescoreAssumption DEF TypeOK
<1>6. TypeOK' /\ Shapes' /\ Pending'
  BY <1>1, <1>2, <1>3, <1>5, IdleIsRequest, RequestStep
<1>7. Fresh' /\ SettledIsCurrent'
  BY <1>2, <1>3, <1>4, FreshStep
<1>. QED BY <1>6, <1>7 DEF RescoreInv

LEMMA ReadStep ==
  ASSUME RescoreInv, NEW r \in Request, Read(r)
  PROVE  RescoreInv'
<1>1. TypeOK /\ Shapes /\ Pending /\ Fresh
  BY DEF RescoreInv
<1>. DEFINE ids == AllForScoring(req[r].scope)
            S == {Scored(c) : c \in ids}
<1>2. req[r].pc = "read" /\ UNCHANGED <<file, row, taken, events, faults, undisturbed, settled, owned>>
  BY DEF Read
<1>3. faults' \in 0..MaxFaults /\ undisturbed' \subseteq Request /\ settled' \in BOOLEAN
  BY <1>1, <1>2 DEF TypeOK
<1>4. ASSUME IsRequest(req'[r]), req' = [req EXCEPT ![r] = req'[r]],
             FreshFor(r)' \/ r \notin undisturbed
      PROVE  RescoreInv'
  <2>1. TypeOK' /\ Shapes' /\ Pending'
    BY <1>1, <1>2, <1>3, <1>4, RequestStep
  <2>2. Fresh' /\ SettledIsCurrent'
    BY <1>2, <1>4, FreshStep
  <2>. QED BY <2>1, <2>2 DEF RescoreInv
<1>5. CASE req' = [req EXCEPT ![r] = Idle]
  <2>1. req'[r] = Idle /\ req' = [req EXCEPT ![r] = req'[r]]
    BY <1>1, <1>5 DEF Shapes
  <2>2. FreshFor(r)'
    BY <2>1 DEF FreshFor, Idle
  <2>. QED BY <1>4, <2>1, <2>2, IdleIsRequest
<1>6. CASE \E todo \in InOrderOfWriting(ids) :
               req' = [req EXCEPT ![r] = [@ EXCEPT !.pc = "write", !.todo = todo,
                                                   !.verdicts = EvaluateAll(req[r].rules, S)]]
  <2>1. PICK todo \in InOrderOfWriting(ids) :
               req' = [req EXCEPT ![r] = [@ EXCEPT !.pc = "write", !.todo = todo,
                                                   !.verdicts = EvaluateAll(req[r].rules, S)]]
    BY <1>6
  <2>2. ids \in SUBSET Comment
    BY DEF AllForScoring, Live, Stored
  <2>. HIDE DEF ids, S
  <2>3. todo \in Seq(Comment) /\ Range(todo) = ids
    BY <2>2, ReadInOrder
  <2>4. req'[r] = [pc |-> "write", rules |-> req[r].rules, scope |-> req[r].scope,
                   todo |-> todo, verdicts |-> EvaluateAll(req[r].rules, S)]
    <3>1. req[r] = [pc |-> req[r].pc, rules |-> req[r].rules, scope |-> req[r].scope,
                    todo |-> req[r].todo, verdicts |-> req[r].verdicts]
      BY <1>1 DEF Shapes
    <3>2. req'[r] = [req[r] EXCEPT !.pc = "write", !.todo = todo,
                                   !.verdicts = EvaluateAll(req[r].rules, S)]
      BY <1>1, <2>1 DEF Shapes
    <3>. QED BY <3>1, <3>2
  <2>5. \A c \in ids : IsVerdict(EvaluateAll(req[r].rules, S)[c])
    <3>. TAKE c \in ids
    <3>1. c = Scored(c).comment_id /\ Scored(c) \in S
      BY <2>2, ScoredId DEF S
    <3>2. c \in {x.comment_id : x \in S}
      BY <3>1
    <3>. QED BY <3>2, EvaluateAllGives
  <2>6. IsRequest(req'[r])
    BY <2>3, <2>4, <2>5 DEF IsRequest
  <2>7. req' = [req EXCEPT ![r] = req'[r]]
    BY <1>1, <2>1 DEF Shapes
  <2>8. ASSUME r \in undisturbed PROVE FreshFor(r)'
    <3>1. req[r].rules = Loads
      BY <1>1, <1>2, <2>8 DEF Fresh
    <3>2. Loads' = Loads /\ Live' = Live /\ Whole' = Whole
      BY <1>2, SameWhole DEF Loads
    <3>3. req[r].scope = {} => ids = Live
      BY DEF ids, AllForScoring, InScope
    <3>4. req[r].scope = {} => S = Whole
      BY <3>3 DEF S, Whole
    <3>. QED BY <2>3, <2>4, <3>1, <3>2, <3>3, <3>4 DEF FreshFor
  <2>9. FreshFor(r)' \/ r \notin undisturbed
    BY <2>8
  <2>. QED BY <1>4, <2>6, <2>7, <2>9
<1>. QED BY <1>5, <1>6 DEF Read

\* A chunk changes the verdicts of some rows and nothing else of them.
LEMMA ChunkRows ==
  ASSUME TypeOK, Shapes, Pending, NEW r \in Request, Write(r)
  PROVE  /\ row' = [c \in Comment |-> row'[c]] /\ \A c \in Comment : IsRow(row'[c])
         /\ \A c \in Comment : row'[c].status = row[c].status /\ row'[c].is_admin = row[c].is_admin
         /\ \A c \in Comment : row'[c].verdict = IF c \in ChunkOf(req[r].todo)
                                                 THEN req[r].verdicts[c] ELSE row[c].verdict
<1>. DEFINE now == ChunkOf(req[r].todo)
<1>1. /\ req[r].pc = "write"
      /\ row' = [c \in Comment |-> IF c \in now THEN [row[c] EXCEPT !.verdict = req[r].verdicts[c]]
                                   ELSE row[c]]
  BY DEF Write
<1>2. IsRequest(req[r]) /\ \A c \in Comment : IsRow(row[c])
  BY Parts
<1>3. \A c \in now : IsVerdict(req[r].verdicts[c])
  BY <1>1, <1>2, Chunks DEF IsRequest
<1>. HIDE DEF now
<1>4. ASSUME NEW c \in Comment
      PROVE  /\ IsRow(row'[c]) /\ row'[c].status = row[c].status
             /\ row'[c].is_admin = row[c].is_admin
             /\ row'[c].verdict = IF c \in now THEN req[r].verdicts[c] ELSE row[c].verdict
  <2>1. row[c] = [status |-> row[c].status, verdict |-> row[c].verdict,
                  is_admin |-> row[c].is_admin] /\ IsRow(row[c])
    BY <1>2 DEF IsRow
  <2>2. CASE c \in now
    <3>1. row'[c] = [row[c] EXCEPT !.verdict = req[r].verdicts[c]]
      BY <1>1, <2>2
    <3>2. row'[c] = [status |-> row[c].status, verdict |-> req[r].verdicts[c],
                     is_admin |-> row[c].is_admin]
      BY <2>1, <3>1
    <3>. QED BY <1>3, <2>1, <2>2, <3>2 DEF IsRow
  <2>3. CASE c \notin now
    BY <1>1, <2>1, <2>3
  <2>. QED BY <2>2, <2>3
<1>5. row' = [c \in Comment |-> row'[c]]
  BY <1>1
<1>. QED BY <1>4, <1>5 DEF now

LEMMA WriteStep ==
  ASSUME RescoreInv, NEW r \in Request, Write(r)
  PROVE  RescoreInv'
<1>1. TypeOK /\ Shapes /\ Pending /\ Fresh
  BY DEF RescoreInv
<1>. DEFINE now == ChunkOf(req[r].todo)
            rest == Rest(req[r].todo)
<1>2. /\ req[r].pc = "write"
      /\ req' = [req EXCEPT ![r] = IF rest = <<>> THEN Idle ELSE [@ EXCEPT !.todo = rest]]
      /\ undisturbed' = undisturbed \cap {r}
      /\ settled' = (rest = <<>> /\ r \in undisturbed /\ req[r].scope = {})
      /\ UNCHANGED <<file, taken, events, faults, owned>>
  BY DEF Write
<1>3. IsRequest(req[r])
  BY <1>1, Parts
<1>4. /\ rest \in Seq(Comment) /\ Range(rest) \subseteq Range(req[r].todo)
      /\ \A c \in Range(req[r].todo) : c \in now \/ c \in Range(rest)
  BY <1>3, Chunks DEF IsRequest
<1>5. /\ row' = [c \in Comment |-> row'[c]] /\ \A c \in Comment : IsRow(row'[c])
      /\ \A c \in Comment : row'[c].status = row[c].status /\ row'[c].is_admin = row[c].is_admin
      /\ \A c \in Comment : row'[c].verdict = IF c \in now THEN req[r].verdicts[c]
                                              ELSE row[c].verdict
  BY <1>1, ChunkRows
<1>6. Loads' = Loads /\ Live' = Live /\ Whole' = Whole /\ \A c \in Live : c \in Comment
  BY <1>2, <1>5, SameWhole DEF Loads, Live, Stored
<1>. HIDE DEF now, rest
<1>7. /\ req' = [q \in Request |-> req'[q]]
      /\ req'[r] = IF rest = <<>> THEN Idle ELSE [req[r] EXCEPT !.todo = rest]
      /\ \A q \in Request : q # r => req'[q] = req[q]
  BY <1>1, <1>2 DEF Shapes
<1>8. rest # <<>> => req'[r] = [pc |-> "write", rules |-> req[r].rules, scope |-> req[r].scope,
                                todo |-> rest, verdicts |-> req[r].verdicts]
  <2>1. req[r] = [pc |-> "write", rules |-> req[r].rules, scope |-> req[r].scope,
                  todo |-> req[r].todo, verdicts |-> req[r].verdicts]
    BY <1>2, <1>3 DEF IsRequest
  <2>2. [req[r] EXCEPT !.todo = rest]
            = [pc |-> "write", rules |-> req[r].rules, scope |-> req[r].scope,
               todo |-> rest, verdicts |-> req[r].verdicts]
    BY <2>1
  <2>. QED BY <1>7, <2>2
<1>9. TypeOK' /\ Shapes' /\ Pending'
  <2>1. IsRequest(req'[r])
    <3>1. CASE rest = <<>>
      BY <1>7, <3>1, IdleIsRequest
    <3>2. CASE rest # <<>>
      BY <1>2, <1>3, <1>4, <1>8, <3>2 DEF IsRequest
    <3>. QED BY <3>1, <3>2
  <2>2. \A q \in Request : IsRequest(req'[q])
    BY <1>1, <1>7, <2>1, Parts
  <2>3. undisturbed' \subseteq Request /\ settled' \in BOOLEAN
    BY <1>1, <1>2 DEF TypeOK
  <2>4. /\ events' \in 0..MaxEvents /\ faults' \in 0..MaxFaults
        /\ taken' \subseteq Comment /\ owned' \subseteq Comment
    BY <1>1, <1>2 DEF TypeOK
  <2>. QED BY <1>1, <1>2, <1>5, <1>7, <2>2, <2>3, <2>4, TypesStep
\* The request that wrote, if all was for itself, owes what is left.
<1>10. ASSUME r \in undisturbed, req[r].scope = {}
       PROVE  /\ req[r].verdicts = EvaluateAll(Loads, Whole)
              /\ \A c \in Live : c \in Range(rest) \/ row'[c].verdict = req[r].verdicts[c]
  <2>1. /\ req[r].verdicts = EvaluateAll(Loads, Whole)
        /\ \A c \in Live : c \in Range(req[r].todo) \/ row[c].verdict = req[r].verdicts[c]
    BY <1>1, <1>2, <1>10 DEF Fresh
  <2>. QED BY <1>4, <1>5, <1>6, <2>1
<1>11. Fresh'
  <2>1. ASSUME NEW q \in undisturbed' PROVE FreshFor(q)'
    <3>1. q = r /\ r \in undisturbed
      BY <1>2, <2>1
    <3>2. CASE rest = <<>>
      BY <1>7, <3>1, <3>2 DEF FreshFor, Idle
    <3>3. CASE rest # <<>>
      BY <1>6, <1>8, <1>10, <3>1, <3>3 DEF FreshFor
    <3>. QED BY <3>2, <3>3
  <2>. QED BY <2>1 DEF Fresh, FreshFor
<1>12. SettledIsCurrent'
  <2>1. CASE settled'
    <3>1. rest = <<>> /\ r \in undisturbed /\ req[r].scope = {}
      BY <1>2, <2>1
    <3>2. Range(rest) = {}
      <4>1. DOMAIN rest = {}
        BY <3>1, EmptySeq
      <4>. QED BY <4>1 DEF Range
    <3>. QED BY <1>6, <1>10, <3>1, <3>2 DEF SettledIsCurrent, Whole
  <2>. QED BY <2>1 DEF SettledIsCurrent
<1>. QED BY <1>9, <1>11, <1>12 DEF RescoreInv

\* What may change a row, and how.
LEMMA RowsStep ==
  ASSUME RescoreInv, Next, NEW c \in Comment
  PROVE  /\ row[c].is_admin => row'[c].is_admin
         /\ row[c].status # "absent" => row'[c].status # "absent"
         /\ row'[c].status = "deleted" => row[c].status = "deleted" \/ c \in taken
<1>1. TypeOK /\ Shapes /\ Pending
  BY DEF RescoreInv
<1>2. IsRow(row[c])
  BY <1>1, Parts
<1>3. CASE row' = row
  BY <1>3
<1>4. ASSUME NEW d \in Comment, NEW mark \in BOOLEAN, Collect(d, mark)
      PROVE  /\ row[c].is_admin => row'[c].is_admin
             /\ row[c].status # "absent" => row'[c].status # "absent"
             /\ row'[c].status = "deleted" => row[c].status = "deleted"
  <2>1. row' = [row EXCEPT ![d] = Upserted(d, mark)]
    BY <1>4 DEF Collect
  <2>2. CASE c # d
    BY <1>1, <2>1, <2>2 DEF Shapes
  <2>3. CASE c = d
    <3>1. row'[c] = [row[c] EXCEPT !.status = NowActive(row[c].status),
                                   !.is_admin = row[c].is_admin \/ mark]
      BY <1>1, <2>1, <2>3 DEF Shapes, Upserted
    <3>2. row'[c].status = NowActive(row[c].status)
      BY <1>2, <3>1 DEF IsRow
    <3>3. row'[c].is_admin = (row[c].is_admin \/ mark)
      BY <1>2, <3>1 DEF IsRow
    <3>. QED BY <3>2, <3>3 DEF NowActive
  <2>. QED BY <2>2, <2>3
<1>5. ASSUME NEW d \in Comment, NEW status \in {"deleted", "failed"}, Delete(d, status)
      PROVE  /\ row'[c].is_admin = row[c].is_admin
             /\ row'[c].status = IF c = d THEN status ELSE row[c].status
             /\ d \in taken
  <2>1. row' = [row EXCEPT ![d].status = status] /\ d \in taken
    BY <1>5 DEF Delete
  <2>2. row'[c] = IF c = d THEN [row[c] EXCEPT !.status = status] ELSE row[c]
    BY <1>1, <2>1 DEF Shapes
  <2>. QED BY <1>2, <2>1, <2>2 DEF IsRow
<1>6. ASSUME NEW r \in Request, Write(r)
      PROVE  row'[c].status = row[c].status /\ row'[c].is_admin = row[c].is_admin
  BY <1>1, <1>6, ChunkRows
<1>7. ASSUME \/ \E f \in Files \cup {NoFile} : PutRules(f) \/ EditRules(f)
             \/ \E d \in Comment : Take(d) \/ Release(d)
             \/ \E r \in Request : Read(r) \/ Fail(r) \/ \E scope : Load(r, scope)
      PROVE  row' = row
  BY <1>7 DEF PutRules, EditRules, Take, Release, Read, Fail, Load
<1>8. \/ row' = row
      \/ \E d \in Comment, mark \in BOOLEAN : Collect(d, mark)
      \/ \E d \in Comment, status \in {"deleted", "failed"} : Delete(d, status)
      \/ \E r \in Request : Write(r)
  BY <1>7 DEF Next
<1>. QED BY <1>3, <1>4, <1>5, <1>6, <1>8

\* A check lets no comment through that is known as the owner's.
LEMMA HandsStep ==
  ASSUME RescoreInv, Hands, Next
  PROVE  Hands'
<1>1. \A c \in Comment :
          /\ row[c].is_admin => row'[c].is_admin
          /\ row[c].status # "absent" => row'[c].status # "absent"
          /\ row'[c].status = "deleted" => row[c].status = "deleted" \/ c \in taken
  BY RowsStep
<1>2. /\ \/ taken' \subseteq taken
         \/ \E c \in Stored : ~row[c].is_admin /\ taken' = taken \cup {c}
      /\ owned' = owned \/ owned' = owned \cup Safe'
  <2>1. ASSUME NEW c \in Comment, Take(c)
        PROVE  c \in Stored /\ ~row[c].is_admin /\ taken' = taken \cup {c} /\ owned' = owned
    BY <2>1 DEF Take, Selectable, Protected
  <2>2. ASSUME NEW c \in Comment, Release(c)
        PROVE  taken' \subseteq taken /\ owned' = owned \cup Safe'
    BY <2>2 DEF Release
  <2>3. ASSUME NEW c \in Comment, NEW mark, Collect(c, mark)
        PROVE  taken' = taken /\ owned' = owned \cup Safe'
    BY <2>3 DEF Collect
  <2>4. ASSUME \/ \E f \in Files \cup {NoFile} : PutRules(f) \/ EditRules(f)
               \/ \E c \in Comment, status \in {"deleted", "failed"} : Delete(c, status)
               \/ \E r \in Request : Read(r) \/ Write(r) \/ Fail(r) \/ \E scope : Load(r, scope)
        PROVE  taken' = taken /\ owned' = owned
    BY <2>4 DEF PutRules, EditRules, Delete, Read, Write, Fail, Load
  <2>. QED BY <2>1, <2>2, <2>3, <2>4 DEF Next
<1>3. taken' \subseteq Stored'
  BY <1>1, <1>2 DEF Hands, Stored
<1>4. \A c \in owned : c \in Comment /\ c \notin taken' /\ row'[c].is_admin
                       /\ row'[c].status # "deleted"
  BY <1>1, <1>2 DEF Hands
<1>5. \A c \in Safe' : c \in Comment /\ c \notin taken' /\ row'[c].is_admin
                       /\ row'[c].status # "deleted"
  BY DEF Safe
<1>. QED BY <1>2, <1>3, <1>4, <1>5 DEF Hands

LEMMA RescoreInductive == Spec => [](RescoreInv /\ Hands)
<1>1. ASSUME RescoreInv, Hands, [Next]_vars PROVE RescoreInv' /\ Hands'
  <2>1. CASE Next
    <3>1. RescoreInv'
      BY <1>1, <2>1, FileStep, CollectStep, DeleteStep, HandStep, LoadStep, ReadStep, WriteStep,
         FailStep DEF Next
    <3>. QED BY <1>1, <2>1, <3>1, HandsStep
  <2>2. CASE UNCHANGED vars
    <3>1. UNCHANGED <<file, row, req, taken, events, faults, undisturbed, settled, owned>>
      BY <2>2 DEF vars
    <3>2. Loads' = Loads /\ Live' = Live /\ Whole' = Whole
      BY <3>1, SameWhole DEF Loads
    <3>3. TypeOK' /\ Shapes' /\ Pending'
      BY <1>1, <3>1 DEF RescoreInv, TypeOK, Shapes, Pending
    <3>4. Fresh' /\ SettledIsCurrent'
      BY <1>1, <3>1, <3>2 DEF RescoreInv, Fresh, SettledIsCurrent, Whole
    <3>5. Hands'
      BY <1>1, <3>1 DEF Hands, Stored
    <3>. QED BY <3>3, <3>4, <3>5 DEF RescoreInv
  <2>. QED BY <1>1, <2>1, <2>2
<1>2. Init => Hands
  BY DEF Init, Hands
<1>. QED BY RescoreInit, <1>1, <1>2, PTL DEF Spec

(***************************************************************************)
(* The theorems                                                            *)
(***************************************************************************)
\* Rows and requests keep their types: above all every stored level is one that the
\* pages know, whoever wrote it last (repositories.py:221-259, 376-411).
THEOREM RescoreWellTyped == Spec => []TypeOK
<1>1. RescoreInv => TypeOK
  BY DEF RescoreInv
<1>. QED BY <1>1, RescoreInductive, PTL

\* A rescoring of all that had the table and the file for itself leaves the verdicts of
\* the present file, over any number of chunks (spam_rules.py:272-308).
THEOREM SettledVerdicts == Spec => []SettledIsCurrent
<1>1. RescoreInv => SettledIsCurrent
  BY DEF RescoreInv
<1>. QED BY <1>1, RescoreInductive, PTL

\* A comment that was known as the owner's while no job had it in hand is never stored
\* as deleted, whatever is collected, scored and deleted afterwards
\* (repositories.py:54-64, 252-255, jobs.py:866-899).
THEOREM OwnerIsSafe == Spec => []OwnerNeverDeleted
<1>1. Hands => OwnerNeverDeleted
  BY DEF Hands, OwnerNeverDeleted
<1>. QED BY <1>1, RescoreInductive, PTL

\* What the page counts as selectable is what "select all" yields, and without the
\* deleted in the filter what is left out is what is protected (comments.py:110-145).
THEOREM SelectionCounted == Spec => []SelectionIsAsCounted
<1>1. ASSUME RescoreInv PROVE SelectionIsAsCounted
  <2>. SUFFICES ASSUME NEW f \in Filters
                PROVE  /\ SelectIds(f).count = ListSummary(f).selectable
                       /\ \A c \in SelectIds(f).ids : ~Protected(c) /\ row[c].status # "deleted"
                       /\ "deleted" \notin f.statuses =>
                              SelectIds(f).whitelisted_excluded = ListSummary(f).whitelisted
    BY DEF SelectionIsAsCounted
  <2>. DEFINE all == Matching(f)
              ids == {c \in all : Selectable(c)}
              white == {c \in all : Protected(c)}
  <2>1. /\ SelectIds(f).count = Cardinality(ids) /\ SelectIds(f).ids = ids
        /\ SelectIds(f).whitelisted_excluded = Cardinality(all) - Cardinality(ids)
    BY DEF SelectIds
  <2>2. /\ ListSummary(f).selectable = Cardinality(ids)
        /\ ListSummary(f).whitelisted = Cardinality(white)
    BY DEF ListSummary
  <2>3. \A c \in ids : ~Protected(c) /\ row[c].status # "deleted"
    BY DEF Selectable
  <2>4. ASSUME "deleted" \notin f.statuses
        PROVE  Cardinality(all) - Cardinality(ids) = Cardinality(white)
    <3>1. \A c \in all : row[c].status # "deleted"
      BY <2>4 DEF Matching, Meets
    <3>2. white = all \ ids
      BY <3>1 DEF Selectable
    <3>3. all \subseteq Comment
      BY DEF Matching, Stored
    <3>4. ids \subseteq all
      OBVIOUS
    <3>. HIDE DEF all, ids, white
    <3>5. IsFiniteSet(all) /\ IsFiniteSet(ids)
      BY <3>3, <3>4, RescoreAssumption, FS_Subset
    <3>6. all \cap ids = ids
      BY <3>4
    <3>7. Cardinality(all \ ids) = Cardinality(all) - Cardinality(all \cap ids)
      BY <3>5, FS_Difference
    <3>. QED BY <3>2, <3>6, <3>7
  <2>. HIDE DEF ids, white
  <2>. QED BY <2>1, <2>2, <2>3, <2>4
<1>. QED BY <1>1, RescoreInductive, PTL

\* Whatever file can be loaded, scoring a part of the comments never makes one of them
\* more suspicious than scoring all (spam_rules.py:160-182, 239-245).
THEOREM PartScoresLess == Spec => []PartNeverWorse
<1>1. ASSUME RescoreInv, Loadable PROVE NeverLessTogether(Loads, Whole)
  <2>1. ValidConfig(Loads) /\ IsFiniteSet(DOMAIN Loads.rules)
    <3>1. CASE file = NoFile
      <4>1. DOMAIN default_rules.rules = {} /\ ValidConfig(default_rules)
        BY DEF default_rules, ValidConfig
      <4>. QED BY <3>1, <4>1, FS_EmptySet DEF Loads
    <3>2. CASE file # NoFile
      <4>1. file \in Files /\ ValidConfig(file)
        BY <1>1, <3>2 DEF RescoreInv, TypeOK, Loadable
      <4>. QED BY <3>2, <4>1, RescoreAssumption DEF Loads
    <3>. QED BY <3>1, <3>2
  <2>2. Live \subseteq Comment /\ IsFiniteSet(Live)
    <3>1. Live \subseteq Comment
      BY DEF Live, Stored
    <3>. QED BY <3>1, RescoreAssumption, FS_Subset
  <2>3. IsFiniteSet(Whole)
    <3>. DEFINE f == [c \in Live |-> Scored(c)]
    <3>1. f \in Surjection(Live, Whole)
      BY DEF Whole, Surjection
    <3>. HIDE DEF f
    <3>. QED BY <2>2, <3>1, FS_Surjection
  <2>4. \A x, y \in Whole : x.comment_id = y.comment_id => x = y
    <3>1. \A c \in Live : Scored(c).comment_id = c
      BY <2>2, ScoredId
    <3>. QED BY <3>1 DEF Whole
  <2>. QED BY <2>1, <2>3, <2>4, NeverLess
<1>2. RescoreInv => PartNeverWorse
  BY <1>1 DEF PartNeverWorse, Whole
<1>. QED BY <1>2, RescoreInductive, PTL

=============================================================================
