---------------------------- MODULE MCComponents ----------------------------
(* The components that share no state, one to a behaviour: part says which *)
(* of them runs, the others stay in their first state.                     *)
(*                                                                         *)
(* "graph"      the order of every graph of four cards without             *)
(*              self-references and every graph of two with them, cards 3  *)
(*              and 4 Services, requests naming all cards in two orders,   *)
(*              some of them, one twice, or none, one with a spec that     *)
(*              does not parse and one with a version left open.           *)
(* "version"    every expression of up to three parts, with one of four,   *)
(*              over words that hold 0 to 2.                               *)
(* "frames"     groups of three values, two to a word of six: six bytes    *)
(*              are enough for every length, a two-byte prefix with its    *)
(*              whole payload, an overflowing, an overlong and an endless  *)
(*              prefix.  A message may not start with a 2.                 *)
(* "migration"  two calls in one process or two, mirror images left out,   *)
(*              two migrations, options that pass and one for each reason  *)
(*              to refuse them.                                            *)
(* "health"     the readiness of one process, up and down at any time.     *)
(* "plan"       every graph of four tasks without self-loops, five tasks   *)
(*              of which two make a cycle behind or beside any graph of    *)
(*              the others, two tasks with every list of up to two ids,    *)
(*              their own, missing and repeated ones included, and none.   *)
(* "query"      every tree of four levels with groups of one or two over   *)
(*              one predicate, of three levels over two, every key of up   *)
(*              to two segments with every operator, plain and negated,    *)
(*              trees beyond each cap and texts beyond the length cap.     *)
EXTENDS SubmissionGraphProperties, VersionRange, FrameDecoderProperties,
        MigrationLock, HealthConsumer, EvalPlanProperties, MetadataQuery

CONSTANTS m1, m2, pA, pB, a1, a2, b1

TheServices == {3, 4}

Requests == {<< >>, <<1, 2, 3, 4>>, <<4, 2, 1, 3>>, <<3, 1, 2>>, <<2, 4, 2>>, <<1, 3>>, <<2>>}
NoPin    == {<<2>>}
BadSpec  == {<<1, 3>>, <<2, 4, 2>>}

Irreflexive == {<<a, b>> \in Cards \X Cards : a # b}
Small       == (1 .. 2) \X (1 .. 2)

Graphs == (SUBSET Irreflexive) \cup (SUBSET Small)

Texts == {x \in Expressions : Len(x.parts) <= 3 \/ x.parts = <<1, 0, 2, 1>>}

SmallBytes == [more : BOOLEAN, bits : 0 .. 2]

SmallMessages == {m \in UNION {[1 .. n -> SmallBytes] : n \in 0 .. 4} :
                    m # << >> => m[1].bits # 2}

TheCallers   == {m1, m2}
TheProcesses == {pA, pB}
TheSessions  == {a1, a2, b1}
Pools        == [s \in TheSessions |-> IF s = b1 THEN pB ELSE pA]

Name  == <<"letter", "digit">>
Sound == [schemas |-> <<Name>>, path |-> <<Name>>]
TheOptions == {Sound,
               [Sound EXCEPT !.schemas = <<Name, Name>>],
               [Sound EXCEPT !.schemas = <<<<"digit">>>>],
               [Sound EXCEPT !.path = << >>],
               [Sound EXCEPT !.path = <<<<"letter", "other">>>>]}

Listed(g) == [t \in DOMAIN g |-> Ascending(g[t])]
FourTasks == {Listed(g) : g \in {h \in [1 .. 4 -> SUBSET (1 .. 4)] :
                                   \A t \in 1 .. 4 : t \notin h[t]}}
FiveTasks == {Listed(<<g[1], g[2], g[3], g[4] \cup {5}, {4}>>) :
                g \in {h \in [1 .. 4 -> SUBSET (1 .. 3)] :
                        h[4] \subseteq {1} /\ \A t \in 1 .. 3 : t \notin h[t]}}
TwoTasks  == [1 .. 2 -> UNION {[1 .. n -> 1 .. 3] : n \in 0 .. 2}]
TaskMaps  == {<< >>} \cup FourTasks \cup FiveTasks \cup TwoTasks

Grown(trees) ==
  trees \cup {Node("not", <<t>>) : t \in trees}
        \cup {Node(k, <<t>>) : k \in {"and", "or"}, t \in trees}
        \cup {Node(k, <<t, u>>) : k \in {"and", "or"}, t \in trees, u \in trees}
TheWords  == {"x", "y", "labels"}
Plain(w)  == Leaf([space |-> "reserved", key |-> <<w>>], <<"=", "value">>)
X         == Plain("x")
Small3    == Grown(Grown({X}))
LabelKeys == UNION {[1 .. n -> {"x", "not", "exists", "odd", "NOT"}] : n \in 1 .. 2}
TextLength(toks) == Len(toks)   \* a byte to a token
AllFields == {[space |-> "labels", key |-> k] : k \in LabelKeys}
                \cup {[space |-> "reserved", key |-> <<w>>] : w \in {"x", "labels"}}
AllLeaves == {Leaf(f, op) : f \in AllFields, op \in Operators}
TheQueries ==
  Grown(Small3) \cup Grown(Grown({X, Plain("y")}))
    \cup AllLeaves \cup {Node("not", <<l>>) : l \in AllLeaves}
    \cup {Node("not", <<Node("not", <<q>>)>>) : q \in Small3}
    \cup {Node("or", << >>), Node("not", <<Node("and", << >>)>>),
          Node("and", <<X, Plain("y"), X>>), Node("or", [i \in 1 .. 9 |-> X])}

-----------------------------------------------------------------------------
VARIABLE part

Parts == {"graph", "version", "frames", "migration", "health", "plan", "query"}

NoGraph   == submissions = << >> /\ refs = {}
NoText    == authored = [op |-> "chain", parts |-> <<0>>]
NoHealth  == /\ snapshot = FALSE /\ everOk = FALSE /\ drifted = FALSE
             /\ reported = "not serving" /\ doing = "stopped"
             /\ seen = FALSE /\ lastOk = FALSE /\ shutdown = TRUE
NoTasks   == /\ depends = << >> /\ degree = << >> /\ wave = {} /\ stages = << >>
             /\ witness = << >> /\ verdict = "plan"
NoQuery   == query = X /\ text = << >> /\ reparsed = << >> /\ outcome = "invalid"
NoMigrations == home = [c \in Callers |-> pA] /\ opts = [c \in Callers |-> Sound]

ComponentsInit ==
  /\ part \in Parts
  /\ part # "graph" => NoGraph
  /\ part # "version" => NoText
  /\ part # "migration" => NoMigrations
  /\ Init /\ VersionInit /\ FrameInit /\ MigrationInit
  /\ part = "migration" => (home[m1] = pB => home[m2] = pB)
  /\ \/ part = "health" /\ HealthInit
     \/ part # "health" /\ NoHealth
  /\ \/ part = "plan" /\ PlanInit
     \/ part # "plan" /\ NoTasks
  /\ \/ part = "query" /\ QueryInit
     \/ part # "query" /\ NoQuery

ComponentsNext ==
  /\ UNCHANGED part
  /\ \/ /\ part = "graph" /\ Next
        /\ UNCHANGED <<versionVars, frameVars, migVars, healthVars, planVars, queryVars>>
     \/ /\ part = "version" /\ VersionNext
        /\ UNCHANGED <<vars, frameVars, migVars, healthVars, planVars, queryVars>>
     \/ /\ part = "frames" /\ FrameNext
        /\ UNCHANGED <<vars, versionVars, migVars, healthVars, planVars, queryVars>>
     \/ /\ part = "migration" /\ MigrationNext
        /\ UNCHANGED <<vars, versionVars, frameVars, healthVars, planVars, queryVars>>
     \/ /\ part = "health" /\ HealthNext
        /\ UNCHANGED <<vars, versionVars, frameVars, migVars, planVars, queryVars>>
     \/ /\ part = "plan" /\ PlanNext
        /\ UNCHANGED <<vars, versionVars, frameVars, migVars, healthVars, queryVars>>
     \/ /\ part = "query" /\ QueryNext
        /\ UNCHANGED <<vars, versionVars, frameVars, migVars, healthVars, planVars>>

everything == <<part, vars, versionVars, frameVars, migVars, healthVars, planVars, queryVars>>

\* At rest no fair action is enabled.
ComponentsSpec ==
  /\ ComponentsInit /\ [][ComponentsNext]_everything
  /\ MigrationFairness /\ HealthFairness

\* Every component's state has its type.
ComponentsTypeOK ==
  /\ TypeOK /\ VersionTypeOK /\ FrameTypeOK
  /\ MigrationTypeOK /\ HealthTypeOK /\ PlanTypeOK
=============================================================================
