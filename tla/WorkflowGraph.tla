---------------------------- MODULE WorkflowGraph ----------------------------
(* Workflow definitions, how a reference to one is resolved, and the check *)
(* that no declared set of them calls itself (workflow/config.go, graph.go).*)
(* A definition set is a function whose domain is the set of keys it has.  *)
EXTENDS Integers, FiniteSets, Sequences, SequencesExt

CONSTANTS
  Categories, DefaultCategory,
  Bare,            \* the category of a reference written without one
  WorkflowNames

ASSUME CategoriesAssumption == DefaultCategory \in Categories /\ Bare \notin Categories

WorkflowKeys == [category : Categories, name : WorkflowNames]
Refs == [category : Categories \union {Bare}, name : WorkflowNames]

StageKinds == {"script", "task", "workflow"}
NoRef == [category |-> Bare, name |-> "none"]
Stage == [kind : StageKinds, ref : Refs \union {NoRef}, timeout : BOOLEAN]
Config == [key : WorkflowKeys, stages : Seq(Stage), cron : {"", "valid", "rejected"}]

NoDefs == [k \in {} |-> NoRef]

\* workflow.Resolve: the one key a reference means, or none.
Resolve(defs, ref) ==
  LET named == {k \in DOMAIN defs : k.name = ref.name}
      default == [category |-> DefaultCategory, name |-> ref.name]
  IN  IF ref.category # Bare THEN named \intersect {ref}
      ELSE IF default \in named THEN {default}
      ELSE IF Cardinality(named) = 1 THEN named
      ELSE {}

\* The workflows the stages of k call, in stage order; a reference to one
\* that the set does not contain is skipped.
Callees(defs, k) ==
  LET calls == SelectSeq(defs[k].stages, LAMBDA st :
                 st.kind = "workflow" /\ Resolve(defs, st.ref) # {})
  IN  [i \in DOMAIN calls |-> CHOOSE c \in Resolve(defs, calls[i].ref) : TRUE]

\* The stages that point at a workflow the set does not contain.
DanglingRefs(defs) ==
  LET dangling(k) == {i \in DOMAIN defs[k].stages :
        /\ defs[k].stages[i].kind = "workflow"
        /\ Resolve(defs, defs[k].stages[i].ref) = {}}
  IN  UNION {{[workflow |-> k, stage |-> i] : i \in dangling(k)} : k \in DOMAIN defs}

\* The loop alone, not the whole path that led to it.
renderCycle(stack, repeated) ==
  LET start == CHOOSE i \in DOMAIN stack : stack[i] = repeated
  IN  Append(SubSeq(stack, start, Len(stack)), repeated)

\* The depth-first search of CheckAcyclic: the first cycle met, or <<>>.
CheckAcyclic(defs) ==
  LET keys == DOMAIN defs
      Visit[s \in [colour : [keys -> {"white", "grey", "black"}],
                   stack : Seq(keys), cycle : Seq(keys)]] ==
        LET k == Last(s.stack)
            follow(acc, c) ==
              IF acc.cycle # <<>> THEN acc
              ELSE IF acc.colour[c] = "grey"
                THEN [acc EXCEPT !.cycle = renderCycle(s.stack, c)]
              ELSE IF acc.colour[c] = "white"
                THEN [Visit[[acc EXCEPT !.stack = Append(s.stack, c)]]
                        EXCEPT !.stack = s.stack]
              ELSE acc
            left == FoldLeft(follow, [s EXCEPT !.colour[k] = "grey"],
                             Callees(defs, k))
        IN  IF left.cycle # <<>> THEN left
            ELSE [left EXCEPT !.colour[k] = "black"]
      root(acc, k) ==
        IF acc.cycle = <<>> /\ acc.colour[k] = "white"
        THEN [Visit[[acc EXCEPT !.stack = <<k>>]] EXCEPT !.stack = <<>>]
        ELSE acc
  IN  FoldLeft(root, [colour |-> [k \in keys |-> "white"],
                      stack |-> <<>>, cycle |-> <<>>],
               SetToSeq(keys)).cycle
=============================================================================
