---------------------------- MODULE MCQueryGates ----------------------------
(***************************************************************************)
(* A small instance of QueryGates.  For PostgreSQL two schemas share a     *)
(* name of a table, and queries of up to two references are odd in one     *)
(* respect at most; for MongoDB there are two collections, one of them     *)
(* with the name of the other after its dot, every find, and every         *)
(* pipeline of up to three stages of a kind.                               *)
(***************************************************************************)
EXTENDS QueryGates

MCCatalog == {[home |-> "public", name |-> "orders"], [home |-> "public", name |-> "users"],
              [home |-> "sales", name |-> "orders"]}

MCReference == {[home |-> h, name |-> n] : h \in {"none", "public", "sales"},
                                           n \in {"orders", "users"}}
               \cup {[home |-> "none", name |-> "recent"]}

Plain(reads, names) ==
  [shape |-> "parses", statements |-> 1, quoted |-> FALSE, mentions |-> FALSE,
   kind |-> "select", reads |-> reads, names |-> names]

\* The same query, and those that differ from it in one respect.
Odd(q) ==
  {q} \cup {[q EXCEPT !.kind = k] : k \in Kind}
      \cup {[q EXCEPT !.shape = s] : s \in {"empty", "broken"}}
      \cup {[q EXCEPT !.statements = 2], [q EXCEPT !.quoted = TRUE],
            [q EXCEPT !.mentions = TRUE],
            [q EXCEPT !.mentions = TRUE, !.kind = "write"]}

MCWritten ==
  UNION {Odd(Plain(reads, names)) :
           reads \in {r \in SUBSET MCReference : Cardinality(r) \in {1, 2}},
           names \in {{}, {"recent"}, {"orders"}}}

-----------------------------------------------------------------------------
MCCollection == {"agents", "hr.agents"}
MCShort == [c \in MCCollection |-> IF c = "hr.agents" THEN "agents" ELSE "none"]

S(op, from, inner, number) ==
  [op |-> op, from |-> from, inner |-> inner, number |-> number]

MCStage ==
  {S(op, "none", {}, 0) : op \in {"match", "bare", "write", "count_by_size",
                                  "unwind_grouped", "project_grouped"}}
  \cup {S("lookup", "none", {}, 0), S("lookup", "hr.agents", {}, 0),
        S("lookup", "agents", {"hr.agents"}, 0),
        S("lookup_group", "agents", {}, 0), S("union", "hr.agents", {}, 0),
        S("limit", "none", {}, 1), S("limit", "none", {}, 5)}

MCMongoWritten ==
  [operation : {"find"}, collection : MCCollection,
   limit : {Unlimited} \cup {-5, 0, 2, 5}, pipeline : {<<>>}]
  \cup [operation : {"aggregate"}, collection : MCCollection,
        limit : {Unlimited, 2, -5},
        pipeline : UNION {[1 .. n -> MCStage] : n \in 0 .. 2}]
  \cup [operation : {"aggregate"}, collection : MCCollection, limit : {0},
        pipeline : {p \in [1 .. 3 -> MCStage] :
                      \E i \in 1 .. 3 : p[i].op = "lookup_group"}]
=============================================================================
