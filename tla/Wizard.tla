-------------------------------- MODULE Wizard --------------------------------
(* `pm2 wizard' and `pm2 wizard install' (config/wizard): the dialog, the   *)
(* merge into the ecosystem file that is there, the check, the question and *)
(* the write.  An answer is one step; somebody else may save the same file  *)
(* between any two.                                                         *)
EXTENDS Integers, Sequences, FiniteSets, SequencesExt

CONSTANTS
  NewApps,       \* what the questions about an app may make of it: [ns, name]
  FlowNames,     \* workflow names that are typed or declared
  Declared,      \* documents the file may hold, as somebody wrote them
  MaxApps, MaxFlows, MaxStages,   \* maxApps, maxWorkflows, maxStages
  MaxSaves       \* bound: saves by somebody else

Apps == [ns : Nat, name : STRING, pinned : BOOLEAN]
Refs == [category : {"", "default", "bare"}, name : FlowNames \union {"none"}]
Stages == [name : Nat, kind : {"script", "workflow"}, ref : Refs]
Flows ==
  [category : {"", "default"}, name : FlowNames, pinned : BOOLEAN, stages : Seq(Stages)]

ASSUME WizardAssumption ==
  /\ NewApps \subseteq [ns : Nat, name : STRING]
  /\ Declared \subseteq [apps : Seq(Apps), flows : Seq(Flows)]
  /\ MaxApps \in Nat \ {0} /\ MaxFlows \in Nat \ {0} /\ MaxStages \in Nat \ {0}
  /\ MaxSaves \in Nat

VARIABLES
  ecosystem,     \* the file: [state, doc]
  wizard,        \* the command under way
  saves

wizardVars == <<ecosystem, wizard, saves>>

Graph == INSTANCE WorkflowGraph WITH
  Categories <- {"", "default"}, DefaultCategory <- "default", Bare <- "bare",
  WorkflowNames <- FlowNames

NoDoc == [apps |-> <<>>, flows |-> <<>>]
Whole(doc) == [state |-> "whole", doc |-> doc]
Missing == [state |-> "missing", doc |-> NoDoc]
Cut == [state |-> "cut", doc |-> NoDoc]     \* truncated, not yet written
Asking == {"app", "offer", "flow", "stage", "confirm"}

Ready == [pc |-> "idle", yes |-> FALSE, force |-> FALSE, merge |-> TRUE, doc |-> NoDoc,
          flow |-> NoDoc, out |-> NoDoc, seen |-> Missing, before |-> Missing,
          others |-> 0]

WizardInit ==
  /\ ecosystem \in {Missing, Cut} \union {Whole(d) : d \in Declared}
  /\ wizard = Ready /\ saves = 0

-------------------------------------------------------------------------------
(* Documents.  A stage without a name has number 0; stage-i is number i.    *)

Category(flow) == IF flow.category = "" THEN "default" ELSE flow.category
RawKey(flow) == [category |-> flow.category, name |-> flow.name]
FlowKey(flow) == [category |-> Category(flow), name |-> flow.name]

\* Config.Normalize.
StageNamed(stage, i) == [stage EXCEPT !.name = IF @ = 0 THEN i ELSE @]
NormalFlow(flow) ==
  [flow EXCEPT !.category = Category(flow),
               !.stages = [i \in DOMAIN @ |-> StageNamed(@[i], i)]]

\* No two stages of a workflow share a name, blank ones included.
NamesApart(flow) ==
  \A a, b \in DOMAIN flow.stages : flow.stages[a].name = flow.stages[b].name => a = b

\* ValidateAll, on the workflows as they are.
Valid(flows) ==
  LET keys == {RawKey(flows[i]) : i \in DOMAIN flows}
      defs == [k \in keys |-> CHOOSE f \in ToSet(flows) : RawKey(f) = k]
  IN  /\ Cardinality(keys) = Len(flows)
      /\ \A i \in DOMAIN flows : NamesApart(flows[i])
      /\ Graph!CheckAcyclic(defs) = <<>>

Normal(doc) == [doc EXCEPT !.flows = [i \in DOMAIN @ |-> NormalFlow(@[i])]]

\* config.Load; it resolves what is relative to the file's directory.
Loadable(f) == f.state = "whole" /\ Valid(Normal(f.doc).flows)
LoadedDoc(doc) ==
  LET pinned(s) == [i \in DOMAIN s |-> [s[i] EXCEPT !.pinned = TRUE]]
      normal == Normal(doc)
  IN  [apps |-> pinned(normal.apps), flows |-> pinned(normal.flows)]

\* mergeDocuments: the entries of new go behind those of old, apps but for
\* those whose name is taken, workflows but for those whose key is.
Label(entry) == IF "stages" \in DOMAIN entry THEN FlowKey(entry) ELSE entry.name
Added(all, entry) ==
  IF \E i \in DOMAIN all : Label(all[i]) = Label(entry) THEN all ELSE Append(all, entry)
Behind(old, new) ==
  LET all[n \in 0..Len(new)] == IF n = 0 THEN old ELSE Added(all[n - 1], new[n])
  IN  all[Len(new)]
Merge(old, new) ==
  [apps |-> Behind(old.apps, new.apps), flows |-> Behind(old.flows, Normal(new).flows)]

-------------------------------------------------------------------------------
(* The dialog.                                                              *)

Turn(pc) == wizard' = [wizard EXCEPT !.pc = pc] /\ UNCHANGED <<ecosystem, saves>>
NewApp(app) == [ns |-> app.ns, name |-> app.name, pinned |-> FALSE]

\* RunInteractive, RunInstall and --yes, which come with one app.
StartWizard ==
  /\ wizard.pc = "idle"
  /\ \E force, merge \in BOOLEAN :
       LET begun == [Ready EXCEPT !.force = force, !.merge = merge, !.before = ecosystem]
       IN  \/ wizard' = [begun EXCEPT !.pc = "app"]
           \/ \E app \in NewApps :
                wizard' = [begun EXCEPT !.pc = "merge", !.yes = TRUE,
                                        !.doc.apps = <<NewApp(app)>>]
  /\ UNCHANGED <<ecosystem, saves>>

AskApp ==
  /\ wizard.pc = "app"
  /\ \E app \in NewApps, more \in BOOLEAN :
       LET apps == Append(wizard.doc.apps, NewApp(app))
       IN  wizard' = [wizard EXCEPT !.doc.apps = apps,
             !.pc = IF more /\ Len(apps) < MaxApps THEN "app" ELSE "offer"]
  /\ UNCHANGED <<ecosystem, saves>>

OfferFlow == wizard.pc = "offer" /\ (Turn("flow") \/ Turn("merge"))

\* A blank category or stage name stays blank.
AskFlow ==
  /\ wizard.pc = "flow"
  /\ \E name \in FlowNames, category \in {"", "default"} :
       wizard' = [wizard EXCEPT !.pc = "stage",
         !.flow = [category |-> category, name |-> name, stages |-> <<>>, pinned |-> FALSE]]
  /\ UNCHANGED <<ecosystem, saves>>

\* promptRef: the workflows declared so far by key, or any name.
Pickable ==
  {FlowKey(wizard.doc.flows[i]) : i \in DOMAIN wizard.doc.flows} \union
  {[category |-> "bare", name |-> n] : n \in FlowNames}

\* A script and a task make the same stage here: neither is a call.
Answers ==
  LET names == {0, MaxStages}
  IN  {[name |-> n, kind |-> "script", ref |-> Graph!NoRef] : n \in names} \union
      {[name |-> n, kind |-> "workflow", ref |-> r] : n \in names, r \in Pickable}

AskStage ==
  /\ wizard.pc = "stage"
  /\ \E stage \in Answers, more \in {"stage", "flow", "merge"} :
       LET flow == [wizard.flow EXCEPT !.stages = Append(@, stage)]
           flows == Append(wizard.doc.flows, flow)
       IN  IF more = "stage"
           THEN /\ Len(flow.stages) < MaxStages
                /\ wizard' = [wizard EXCEPT !.flow = flow]
           ELSE /\ more = "flow" => Len(flows) < MaxFlows
                /\ wizard' = [wizard EXCEPT !.flow = NoDoc, !.doc.flows = flows, !.pc = more]
  /\ UNCHANGED <<ecosystem, saves>>

\* A choice is refused five times, a required answer left blank, or ^C.
GiveUpDialog == wizard.pc \in Asking /\ Turn("left")

-------------------------------------------------------------------------------
(* WriteEcosystemFile.                                                      *)

\* What is to be written, as far as it is read, merged and found valid.
MergeIntoFile ==
  /\ wizard.pc = "merge"
  /\ LET exists == ecosystem.state # "missing"
         out == IF exists /\ ~wizard.force THEN Merge(LoadedDoc(ecosystem.doc), wizard.doc)
                ELSE wizard.doc
     IN  IF /\ exists /\ ~wizard.force => wizard.merge /\ Loadable(ecosystem)
            /\ Valid(out.flows)
         THEN wizard' = [wizard EXCEPT !.pc = IF wizard.yes THEN "truncate" ELSE "confirm",
                                       !.out = out, !.seen = ecosystem]
         ELSE wizard' = [wizard EXCEPT !.pc = "left"]
  /\ UNCHANGED <<ecosystem, saves>>

ConfirmWrite == wizard.pc = "confirm" /\ (Turn("truncate") \/ Turn("left"))

\* os.WriteFile: the file is opened and emptied, then written.
EmptyFile ==
  /\ wizard.pc = "truncate"
  /\ \/ Turn("left")
     \/ ecosystem' = Cut /\ wizard' = [wizard EXCEPT !.pc = "write"] /\ UNCHANGED saves

\* renderEcosystem normalizes what it renders.
FillFile ==
  /\ wizard.pc = "write"
  /\ \/ ecosystem' = Whole(Normal(wizard.out)) /\ wizard' = [wizard EXCEPT !.pc = "written"]
     \/ UNCHANGED ecosystem /\ wizard' = [wizard EXCEPT !.pc = "failed"]
  /\ UNCHANGED saves

SavedByOther ==
  /\ saves < MaxSaves /\ saves' = saves + 1
  /\ \E d \in Declared : ecosystem' = Whole(d)
  /\ wizard' = [wizard EXCEPT !.others = @ + 1]

WizardNext ==
  \/ StartWizard \/ AskApp \/ OfferFlow \/ AskFlow \/ AskStage \/ GiveUpDialog
  \/ MergeIntoFile \/ ConfirmWrite \/ EmptyFile \/ FillFile \/ SavedByOther

-------------------------------------------------------------------------------
Names(apps) == [i \in DOMAIN apps |-> <<apps[i].ns, apps[i].name>>]
Keys(flows) == [i \in DOMAIN flows |-> FlowKey(flows[i])]
StagesOf(flows) == [i \in DOMAIN flows |-> NormalFlow(flows[i]).stages]

(* A dialog that is left, refused or declined leaves the file as it was;    *)
(* and what is merged into a file keeps all that the preview was made from, *)
(* in order and with its stages, takes none of its names again, and is a    *)
(* file that `pm2 apply' loads.  Of a new file, or one that is written over *)
(* by force, the last is not so: it is validated before it is normalised,   *)
(* so stages or categories left blank may clash in the file that is         *)
(* written, against validate.go:11-15 (mergeDocuments, WriteEcosystemFile). *)
WizardHolds ==
  /\ (wizard.pc \in Asking \union {"merge", "truncate", "left"} /\ wizard.others = 0) =>
       ecosystem = wizard.before
  /\ (/\ wizard.pc \in {"confirm", "truncate", "write", "written"}
      /\ ~wizard.force /\ wizard.seen.state = "whole") =>
         LET old == wizard.seen.doc
             out == wizard.out
         IN  /\ IsPrefix(Names(old.apps), Names(out.apps))
             /\ IsPrefix(Keys(old.flows), Keys(out.flows))
             /\ IsPrefix(StagesOf(old.flows), StagesOf(out.flows))
             /\ \A i \in (Len(old.apps) + 1)..Len(out.apps) : \A j \in 1..(i - 1) :
                  out.apps[i].name # out.apps[j].name
             /\ Loadable(Whole(Normal(out)))
===============================================================================
